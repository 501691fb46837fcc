---------------------------- MODULE ReadersProofs ----------------------------
(***************************************************************************)
(* Proofs about Readers: the pages of evidence, answers put together from  *)
(* several SELECTs and the event stream tell the truth whatever is written *)
(* between two reads, for any rows, page sizes, caps and numbers of        *)
(* executions and tasks.                                                   *)
(*                                                                         *)
(* ReadersInv is the inductive invariant.  For each client it says what    *)
(* the part of the answer that is already read has to do with the tables   *)
(* as they are by now.                                                     *)
(***************************************************************************)
EXTENDS Readers, FiniteSetTheorems, TLAPS

-----------------------------------------------------------------------------
(* The order of the evidence *)

\* every part of a row is a number
LEMMA RowsAreNumbers ==
    ASSUME NEW r \in Rows
    PROVE  /\ r[1] \in {0, 1} /\ r[2] \in Nat /\ r[3] \in Nat /\ r[4] \in Nat
           /\ r # <<>>
BY ReadersAssumption DEF ReadersAssumption

\* Before compares the parts one by one
LEMMA BeforeIsLexicographic ==
    ASSUME NEW r \in Rows, NEW q \in Rows
    PROVE  Before(r, q) <=>
              \/ r[1] < q[1]
              \/ /\ r[1] = q[1]
                 /\ \/ r[2] < q[2]
                    \/ /\ r[2] = q[2]
                       /\ \/ r[3] < q[3]
                          \/ r[3] = q[3] /\ r[4] < q[4]
<1>1. /\ 1 \in 1..4 /\ 2 \in 1..4 /\ 3 \in 1..4 /\ 4 \in 1..4
      /\ \A k \in 1..4 : k \in {1, 2, 3, 4}
      /\ 1..(1 - 1) = {} /\ 1..(2 - 1) = {1} /\ 1..(3 - 1) = {1, 2}
      /\ 1..(4 - 1) = {1, 2, 3}
  OBVIOUS
<1> DEFINE Less(k) == r[k] < q[k] /\ \A l \in 1..(k - 1) : r[l] = q[l]
<1>2. Before(r, q) <=> Less(1) \/ Less(2) \/ Less(3) \/ Less(4)
  BY <1>1 DEF Before
<1>3. /\ Less(1) <=> r[1] < q[1]
      /\ Less(2) <=> r[2] < q[2] /\ r[1] = q[1]
      /\ Less(3) <=> r[3] < q[3] /\ r[1] = q[1] /\ r[2] = q[2]
      /\ Less(4) <=> r[4] < q[4] /\ r[1] = q[1] /\ r[2] = q[2] /\ r[3] = q[3]
  BY <1>1
<1> HIDE DEF Less
<1> QED BY <1>2, <1>3

\* ... which is a strict order, and total as the last part tells rows apart
LEMMA BeforeIsAnOrder ==
    ASSUME NEW r \in Rows, NEW q \in Rows, NEW p \in Rows
    PROVE  /\ ~ Before(r, r)
           /\ Before(r, q) /\ Before(q, p) => Before(r, p)
           /\ r = q \/ Before(r, q) \/ Before(q, r)
<1>1. r[4] = q[4] => r = q
  BY ReadersAssumption DEF ReadersAssumption
<1> QED BY SMTT(60), <1>1, BeforeIsLexicographic, RowsAreNumbers

\* the cursor's comparison is the order's
LEMMA AfterIsBehind ==
    ASSUME NEW r \in Rows, NEW cursor \in Rows
    PROVE  After(r, cursor) <=> Before(cursor, r)
<1>1. (r[1] = 1 => r[2] = 0) /\ (cursor[1] = 1 => cursor[2] = 0)
  BY ReadersAssumption DEF ReadersAssumption
<1> QED BY <1>1, BeforeIsLexicographic, RowsAreNumbers DEF After, Tie

-----------------------------------------------------------------------------
(* Rows in order *)

Preceding(rows, r) == {q \in rows : Before(q, r)}
Place(rows, r) == Cardinality(Preceding(rows, r)) + 1

\* how many rows come before one tells where it goes
LEMMA PlacesAreInOrder ==
    ASSUME NEW rows \in SUBSET Rows, NEW r \in rows, NEW q \in rows
    PROVE  /\ IsFiniteSet(rows)
           /\ Place(rows, r) \in 1..Cardinality(rows)
           /\ Before(r, q) => Place(rows, r) < Place(rows, q)
<1>1. IsFiniteSet(rows) /\ Cardinality(rows) \in Nat
  BY ReadersAssumption, FS_Subset, FS_CardinalityType DEF ReadersAssumption
<1>2. ASSUME NEW s \in rows
      PROVE  /\ IsFiniteSet(Preceding(rows, s))
             /\ Cardinality(Preceding(rows, s)) \in Nat
             /\ Cardinality(Preceding(rows, s)) < Cardinality(rows)
  <2>1. Preceding(rows, s) \in SUBSET rows /\ Preceding(rows, s) # rows
    BY BeforeIsAnOrder DEF Preceding
  <2>2. /\ IsFiniteSet(Preceding(rows, s))
        /\ Cardinality(Preceding(rows, s)) <= Cardinality(rows)
        /\ Cardinality(rows) # Cardinality(Preceding(rows, s))
    BY <1>1, <2>1, FS_Subset
  <2>3. Cardinality(Preceding(rows, s)) \in Nat
    BY <2>2, FS_CardinalityType
  <2> QED BY <1>1, <2>2, <2>3
<1>3. Place(rows, r) \in 1..Cardinality(rows)
  BY <1>1, <1>2 DEF Place
<1>4. ASSUME Before(r, q) PROVE Place(rows, r) < Place(rows, q)
  <2>1. \A s \in rows : Before(s, r) => Before(s, q)
    BY <1>4, BeforeIsAnOrder
  <2>2. /\ Preceding(rows, r) \in SUBSET Preceding(rows, q)
        /\ Preceding(rows, r) # Preceding(rows, q)
    BY <1>4, <2>1, BeforeIsAnOrder DEF Preceding
  <2>3. /\ IsFiniteSet(Preceding(rows, q))
        /\ Cardinality(Preceding(rows, r)) \in Nat
        /\ Cardinality(Preceding(rows, q)) \in Nat
    BY <1>2
  <2>4. Cardinality(Preceding(rows, r)) < Cardinality(Preceding(rows, q))
    BY <2>2, <2>3, FS_Subset
  <2> QED BY <2>3, <2>4 DEF Place
<1> QED BY <1>1, <1>3, <1>4

\* every place is taken: there are as many places as rows
LEMMA PlacesAreTaken ==
    ASSUME NEW rows \in SUBSET Rows, NEW k \in 1..Cardinality(rows)
    PROVE  \E r \in rows : Place(rows, r) = k
<1> DEFINE n == Cardinality(rows)
           place == [r \in rows |-> Place(rows, r)]
<1>1. IsFiniteSet(rows) /\ n \in Nat
  BY ReadersAssumption, FS_Subset, FS_CardinalityType DEF ReadersAssumption
<1>2. place \in [rows -> 1..n]
  BY PlacesAreInOrder
<1>3. ASSUME NEW r \in rows, NEW q \in rows, place[r] = place[q]
      PROVE  r = q
  <2>1. /\ Place(rows, r) = Place(rows, q)
        /\ Place(rows, r) \in Nat
    BY <1>1, <1>3, PlacesAreInOrder
  <2> QED BY <2>1, PlacesAreInOrder, BeforeIsAnOrder
<1>4. place \in Injection(rows, 1..n)
  BY <1>2, <1>3 DEF Injection, IsInjective
<1>5. IsFiniteSet(1..n) /\ Cardinality(1..n) = n
  <2>1. 1 \in Int /\ n \in Int
    BY <1>1
  <2>2. /\ IsFiniteSet(1..n)
        /\ Cardinality(1..n) = IF 1 > n THEN 0 ELSE n - 1 + 1
    BY <2>1, FS_Interval
  <2> QED BY <1>1, <2>2
<1>6. place \in Surjection(rows, 1..n)
  BY <1>4, <1>5, FS_Injection
<1> QED BY <1>6 DEF Surjection

\* InOrder lists the rows, each once, in their order
LEMMA InOrderSorts ==
    ASSUME NEW rows \in SUBSET Rows
    PROVE  /\ InOrder(rows) \in Seq(rows)
           /\ \A k, l \in 1..Len(InOrder(rows)) :
                 k < l => Before(InOrder(rows)[k], InOrder(rows)[l])
           /\ \A r \in rows : \E k \in 1..Len(InOrder(rows)) : InOrder(rows)[k] = r
<1> DEFINE n == Cardinality(rows)
           s == InOrder(rows)
<1>1. IsFiniteSet(rows) /\ n \in Nat
  BY ReadersAssumption, FS_Subset, FS_CardinalityType DEF ReadersAssumption
<1>2. ASSUME NEW k \in 1..n
      PROVE  s[k] \in rows /\ Place(rows, s[k]) = k
  <2>1. \A r \in rows : Cardinality(Preceding(rows, r)) \in Int
    <3> TAKE r \in rows
    <3>1. Preceding(rows, r) \in SUBSET rows
      BY DEF Preceding
    <3>2. IsFiniteSet(Preceding(rows, r))
      BY <1>1, <3>1, FS_Subset
    <3> QED BY <3>2, FS_CardinalityType
  <2>2. \E r \in rows : Cardinality(Preceding(rows, r)) = k - 1
    BY <2>1, PlacesAreTaken DEF Place
  <2>3. s[k] = CHOOSE r \in rows : Cardinality(Preceding(rows, r)) = k - 1
    BY DEF InOrder, Preceding
  <2>4. s[k] \in rows /\ Cardinality(Preceding(rows, s[k])) = k - 1
    BY <2>2, <2>3
  <2> QED BY <2>4 DEF Place
<1>3. s \in [1..n -> rows]
  BY <1>2 DEF InOrder
<1>4. s \in Seq(rows) /\ Len(s) = n
  BY <1>1, <1>3
<1> HIDE DEF s, n
<1>5. ASSUME NEW k \in 1..n, NEW l \in 1..n, k < l
      PROVE  Before(s[k], s[l])
  <2>1. /\ s[k] \in rows /\ Place(rows, s[k]) = k
        /\ s[l] \in rows /\ Place(rows, s[l]) = l
    BY <1>2
  <2>2. ~ Before(s[l], s[k]) /\ s[l] # s[k]
    BY <1>1, <1>5, <2>1, PlacesAreInOrder
  <2> QED BY <2>1, <2>2, BeforeIsAnOrder
<1>6. ASSUME NEW r \in rows
      PROVE  \E k \in 1..n : s[k] = r
  <2>1. Place(rows, r) \in 1..n
    BY PlacesAreInOrder DEF n
  <2>2. /\ s[Place(rows, r)] \in rows
        /\ Place(rows, s[Place(rows, r)]) = Place(rows, r)
    BY <1>2, <2>1
  <2>3. ~ Before(r, s[Place(rows, r)]) /\ ~ Before(s[Place(rows, r)], r)
    BY <1>1, <2>1, <2>2, PlacesAreInOrder
  <2>4. s[Place(rows, r)] = r
    BY <2>2, <2>3, BeforeIsAnOrder
  <2> QED BY <2>1, <2>4
<1> QED BY <1>4, <1>5, <1>6 DEF s

-----------------------------------------------------------------------------
(* A page *)

Ascending(s) == \A k, l \in 1..Len(s) : k < l => Before(s[k], s[l])
Listed(s) == {s[k] : k \in 1..Len(s)}

\* what a page may show: all there is behind the cursor
Behind(cursor) == {r \in evidence : cursor = <<>> \/ Before(cursor, r)}

\* a page shows rows behind the cursor in order, no more than asked for; without a
\* next cursor it shows all of them, with one everything left out is behind that
LEMMA PagesAreExact ==
    ASSUME NEW limit \in Nat \ {0}, NEW cursor \in Rows \union {<<>>},
           evidence \in SUBSET Rows
    PROVE  LET page == Page(limit, cursor) IN
           /\ page.rows \in Seq(Behind(cursor)) /\ Len(page.rows) <= limit
           /\ Ascending(page.rows)
           /\ page.next = <<>> => Listed(page.rows) = Behind(cursor)
           /\ page.next # <<>> =>
                 /\ Len(page.rows) > 0 /\ page.next = page.rows[Len(page.rows)]
                 /\ \A r \in Behind(cursor) \ Listed(page.rows) : Before(page.next, r)
<1> DEFINE page == Page(limit, cursor)
           match == {r \in evidence : cursor = <<>> \/ After(r, cursor)}
           rows == InOrder(match)
           bounded == IF limit > PageSize THEN PageSize ELSE limit
<1>1. match = Behind(cursor) /\ match \in SUBSET Rows
  BY AfterIsBehind DEF Behind
<1>2. bounded \in Nat \ {0} /\ bounded <= limit
  BY ReadersAssumption DEF ReadersAssumption
<1>3. /\ rows \in Seq(match)
      /\ \A k, l \in 1..Len(rows) : k < l => Before(rows[k], rows[l])
      /\ \A r \in match : \E k \in 1..Len(rows) : rows[k] = r
  BY <1>1, InOrderSorts
<1>4. page = IF Len(rows) > bounded
             THEN [rows |-> SubSeq(rows, 1, bounded), next |-> rows[bounded]]
             ELSE [rows |-> rows, next |-> <<>>]
  BY DEF Page
<1> HIDE DEF page, match, rows, bounded
<1>5. CASE Len(rows) > bounded
  <2>1. /\ page.rows = SubSeq(rows, 1, bounded) /\ page.next = rows[bounded]
        /\ bounded \in 1..Len(rows) /\ Len(rows) \in Nat
    BY <1>2, <1>3, <1>4, <1>5
  <2>2. /\ page.rows \in Seq(match) /\ Len(page.rows) = bounded
        /\ \A k \in 1..bounded : page.rows[k] = rows[k]
    BY <1>2, <1>3, <2>1
  <2>3. page.next \in Rows /\ page.next # <<>>
    BY <1>1, <1>3, <2>1, RowsAreNumbers
  <2>4. Ascending(page.rows)
    <3>1. ASSUME NEW k \in 1..bounded, NEW l \in 1..bounded, k < l
          PROVE  Before(page.rows[k], page.rows[l])
      <4>1. k \in 1..Len(rows) /\ l \in 1..Len(rows)
        BY <1>2, <2>1
      <4>2. Before(rows[k], rows[l])
        BY <1>3, <3>1, <4>1
      <4> QED BY <2>2, <4>2
    <3> QED BY <2>2, <3>1 DEF Ascending
  <2>5. ASSUME NEW r \in match \ Listed(page.rows)
        PROVE  Before(page.next, r)
    <3>1. PICK k \in 1..Len(rows) : rows[k] = r
      BY <1>3
    <3>2. k \notin 1..bounded
      BY <2>2, <2>5, <3>1 DEF Listed
    <3>3. bounded < k
      BY <1>2, <2>1, <3>1, <3>2
    <3> QED BY <1>3, <2>1, <3>1, <3>3
  <2>6. Len(page.rows) > 0 /\ page.next = page.rows[Len(page.rows)]
    BY <1>2, <2>1, <2>2
  <2> QED BY <1>1, <1>2, <2>2, <2>3, <2>4, <2>5, <2>6 DEF page
<1>6. CASE ~ Len(rows) > bounded
  <2>1. page.rows = rows /\ page.next = <<>> /\ Len(rows) \in Nat
    BY <1>3, <1>4, <1>6
  <2>2. Len(rows) <= limit
    BY <1>2, <1>6, <2>1
  <2>3. Listed(rows) = match
    BY <1>3 DEF Listed
  <2> QED BY <1>1, <1>3, <2>1, <2>2, <2>3 DEF Ascending, page
<1> QED BY <1>5, <1>6

-----------------------------------------------------------------------------
(* The states *)

Statuses == {"created", "running", "completed", "partial", "failed", "halted", "deleted"}
TaskStates == {"pending", "running", "succeeded", "failed", "cancelled"}

Links == Hypotheses \X Rows
Shown == UNION {Statuses, Nat, BOOLEAN, SUBSET Hypotheses, SUBSET Links, SUBSET Rows}
TableNames ==
    {"investigations", "findings", "reports", "hypotheses", "hypothesis_evidence",
     "hypothesis_gaps", "evidence", "tool_runs", "artifacts", "agent_runs"}
Parts == [table : TableNames, rows : Shown]
Told == [status : Statuses \union {"none"}, running : Nat, completed : Nat, total : Nat]

PageReaders ==
    [kind : {"pages", "all"}, limit : Nat \ {0}, cursor : Rows \union {<<>>},
     got : Seq(Rows), first : SUBSET Rows, cut : BOOLEAN, over : BOOLEAN]
DetailReaders == [kind : {"detail"}, answer : Seq(Parts), asOf : Nat, over : BOOLEAN]
ProvenanceReaders ==
    [kind : {"provenance"}, asked : Rows, answer : Seq(Parts), asOf : Nat, over : BOOLEAN]
StreamReaders ==
    [kind : {"stream"}, pc : {"sleep", "polled"}, status : Statuses \union {"none"},
     claims : Nat, told : Told, asOf : Nat, checks : Nat, done : BOOLEAN, over : BOOLEAN]

\* the tables; a purge leaves nothing
Tables ==
    /\ st \in [{Inv} -> Statuses]
    /\ busy \in SUBSET {Inv}
    /\ claims \in Nat
    /\ tasks \in Seq(TaskStates)
    /\ evidence \in SUBSET Rows
    /\ hypotheses \in SUBSET Hypotheses
    /\ gaps \in SUBSET Hypotheses
    /\ findings \in Nat
    /\ report \in BOOLEAN
    /\ Follows("deleted") => tasks = <<>> /\ evidence = {}

ReaderShape == reader \in PageReaders \union DetailReaders \union ProvenanceReaders
                          \union StreamReaders

LEMMA KindsAreApart ==
    ASSUME ReaderShape
    PROVE  /\ reader.kind \in {"pages", "all"} => reader \in PageReaders
           /\ reader.kind = "detail" => reader \in DetailReaders
           /\ reader.kind = "provenance" => reader \in ProvenanceReaders
           /\ reader.kind = "stream" => reader \in StreamReaders
           /\ reader.kind \in Kinds
BY DEF ReaderShape, PageReaders, DetailReaders, ProvenanceReaders, StreamReaders, Kinds

\* what every write keeps, whoever reads
Kept ==
    /\ Follows("deleted") => Follows("deleted")'
    /\ evidence \subseteq evidence' \/ Follows("deleted")'
    /\ hypotheses \subseteq hypotheses' \/ Follows("deleted")'
    /\ claims <= claims'
    /\ ~ Follows("running") =>
          (/\ findings' = findings /\ report' = report
           /\ hypotheses' = hypotheses /\ gaps' = gaps) \/ Follows("deleted")'
    /\ claims' = claims /\ ~ Follows("running") => ~ Follows("running")'
    /\ Len(tasks) <= Len(tasks') \/ Follows("deleted")'
    /\ Len(tasks') = Len(tasks) /\ ~ Follows("running") => Completed' = Completed

LEMMA CountIsOfTasks ==
    ASSUME tasks \in Seq(TaskStates)
    PROVE  Completed \in Nat /\ Completed <= Len(tasks)
<1> DEFINE succeeded == {k \in DOMAIN tasks : tasks[k] = "succeeded"}
<1>1. DOMAIN tasks = 1..Len(tasks) /\ Len(tasks) \in Nat
  OBVIOUS
<1>2. succeeded \in SUBSET (1..Len(tasks))
  BY <1>1
<1>3. /\ IsFiniteSet(1..Len(tasks))
      /\ Cardinality(1..Len(tasks)) = IF 1 > Len(tasks) THEN 0 ELSE Len(tasks) - 1 + 1
  BY <1>1, FS_Interval
<1>4. IsFiniteSet(succeeded) /\ Cardinality(succeeded) <= Cardinality(1..Len(tasks))
  BY <1>2, <1>3, FS_Subset
<1>5. Cardinality(succeeded) \in Nat
  BY <1>4, FS_CardinalityType
<1> HIDE DEF succeeded
<1> QED BY <1>1, <1>3, <1>4, <1>5 DEF Completed, succeeded

\* the writes that move the status leave the rows alone
LEMMA StatusMoves ==
    ASSUME Tables, Claim \/ End \/ BreakOff \/ CloseOrphan \/ Halt
    PROVE  Tables' /\ Kept /\ reader' = reader
<1>1. /\ UNCHANGED <<tables, reader>>
      /\ Follows("deleted")' <=> Follows("deleted")
      /\ st' \in [{Inv} -> Statuses] /\ busy' \in SUBSET {Inv}
      /\ claims' \in Nat /\ claims <= claims'
      /\ claims' = claims /\ ~ Follows("running") => ~ Follows("running")'
  <2>1. CASE Claim
    BY <2>1 DEF Claim, Tables, Statuses, Follows, Contract!Claim, Contract!Become,
                Contract!Retryable
  <2>2. CASE End
    BY <2>2 DEF End, Tables, Statuses, Follows, Contract!End, Contract!Become,
                Contract!Terminal
  <2>3. CASE BreakOff
    BY <2>3 DEF BreakOff, Tables, Statuses, Follows, Contract!BreakOff
  <2>4. CASE CloseOrphan
    BY <2>4 DEF CloseOrphan, Tables, Statuses, Follows, Contract!CloseOrphan,
                Contract!Become
  <2>5. CASE Halt
    BY <2>5 DEF Halt, Tables, Statuses, Follows, Contract!Halt, Contract!Become,
                Contract!Terminal
  <2> QED BY <2>1, <2>2, <2>3, <2>4, <2>5
<1>2. /\ tasks' = tasks /\ evidence' = evidence /\ hypotheses' = hypotheses
      /\ gaps' = gaps /\ findings' = findings /\ report' = report /\ reader' = reader
  BY <1>1 DEF tables
<1>3. Completed' = Completed
  BY <1>2 DEF Completed
<1>4. Tables'
  BY <1>1, <1>2 DEF Tables
<1>5. Kept
  BY <1>1, <1>2, <1>3 DEF Kept, Tables
<1> QED BY <1>2, <1>4, <1>5

LEMMA PurgeMoves ==
    ASSUME Tables, Purge
    PROVE  Tables' /\ Kept /\ reader' = reader
<1>1. /\ st' \in [{Inv} -> Statuses] /\ Follows("deleted")' /\ st'[Inv] = "deleted"
      /\ busy' = busy /\ claims' = claims /\ reader' = reader
      /\ tasks' = <<>> /\ evidence' = {} /\ hypotheses' = {} /\ gaps' = {}
      /\ findings' = 0 /\ report' = FALSE
      /\ ~ Follows("deleted")
  BY DEF Purge, Tables, Statuses, Follows, Contract!Remove, Contract!Become
<1>2. Tables'
  <2>1. <<>> \in Seq(TaskStates) /\ 0 \in Nat /\ FALSE \in BOOLEAN
    OBVIOUS
  <2>2. /\ tasks' \in Seq(TaskStates) /\ evidence' \in SUBSET Rows
        /\ hypotheses' \in SUBSET Hypotheses /\ gaps' \in SUBSET Hypotheses
        /\ findings' \in Nat /\ report' \in BOOLEAN
    BY <1>1, <2>1
  <2> QED BY <1>1, <2>2 DEF Tables
<1>3. Len(tasks') = Len(tasks) => Completed' = Completed
  <2>1. Len(tasks') = 0 /\ Completed' = Cardinality({})
    <3>1. {k \in DOMAIN tasks' : tasks'[k] = "succeeded"} = {}
      BY <1>1
    <3> QED BY <1>1, <3>1 DEF Completed
  <2>2. Completed' = 0
    BY <2>1, FS_EmptySet
  <2>3. Len(tasks) = 0 => Completed = 0
    BY CountIsOfTasks DEF Tables
  <2> QED BY <2>1, <2>2, <2>3
<1>4. Kept
  BY <1>1, <1>3 DEF Kept, Follows, Tables
<1> QED BY <1>1, <1>2, <1>4

\* agents add rows while the investigation runs
LEMMA AgentsAdd ==
    ASSUME Tables, Observe \/ Conjecture \/ Find \/ Report
    PROVE  Tables' /\ Kept /\ reader' = reader
<1>1. /\ UNCHANGED <<st, busy, claims, tasks, reader>>
      /\ Follows("running")
      /\ evidence \subseteq evidence' /\ evidence' \in SUBSET Rows
      /\ hypotheses \subseteq hypotheses' /\ hypotheses' \in SUBSET Hypotheses
      /\ gaps' \in SUBSET Hypotheses /\ findings' \in Nat
      /\ report' \in BOOLEAN
  <2>1. CASE Observe
    BY <2>1 DEF Observe, Working, Tables
  <2>2. CASE Conjecture
    BY <2>2 DEF Conjecture, Working, Tables
  <2>3. CASE Find
    BY <2>3 DEF Find, Working, Tables
  <2>4. CASE Report
    BY <2>4 DEF Report, Working, Tables
  <2> QED BY <2>1, <2>2, <2>3, <2>4
<1>2. Completed' = Completed
  BY <1>1 DEF Completed
<1>3. ~ Follows("deleted") /\ ~ Follows("deleted")'
  BY <1>1 DEF Follows
<1>4. Tables'
  BY <1>1, <1>3 DEF Tables
<1>5. Kept
  BY <1>1, <1>2, <1>3 DEF Kept, Tables
<1> QED BY <1>1, <1>4, <1>5

LEMMA AddedTaskIsPending ==
    ASSUME Tables, AddTask
    PROVE  Tables' /\ Kept /\ reader' = reader
<1>1. /\ tasks' = Append(tasks, "pending") /\ ~ Follows("deleted")
      /\ UNCHANGED <<st, busy, claims, evidence, hypotheses, gaps, findings, report, reader>>
      /\ UNCHANGED <<st, busy, claims, evidence, hypotheses, gaps, findings, report, reader>>
      /\ ~ Follows("deleted")'
      /\ Follows("running")' <=> Follows("running")
  BY DEF AddTask, Follows
<1>2. tasks' \in Seq(TaskStates) /\ Len(tasks') = Len(tasks) + 1 /\ Len(tasks) \in Nat
  BY <1>1 DEF Tables, TaskStates
<1>3. Tables'
  BY <1>1, <1>2 DEF Tables
<1>4. Kept
  BY <1>1, <1>2 DEF Kept, Tables
<1> QED BY <1>1, <1>3, <1>4

LEMMA MovedTaskRuns ==
    ASSUME Tables, MoveTask
    PROVE  Tables' /\ Kept /\ reader' = reader
<1>1. /\ Follows("running") /\ ~ Follows("deleted") /\ ~ Follows("deleted")'
      /\ UNCHANGED <<st, busy, claims, evidence, hypotheses, gaps, findings, report, reader>>
  BY DEF MoveTask, Working, Follows
<1>2. PICK k \in DOMAIN tasks, s \in TaskStates : tasks' = [tasks EXCEPT ![k] = s]
  BY DEF MoveTask, TaskStates
<1>3. tasks' \in Seq(TaskStates) /\ Len(tasks') = Len(tasks) /\ Len(tasks) \in Nat
  BY <1>2 DEF Tables
<1>4. Tables'
  BY <1>1, <1>3 DEF Tables
<1>5. Kept
  BY <1>1, <1>3 DEF Kept, Tables
<1> QED BY <1>1, <1>4, <1>5

LEMMA WritersKeep ==
    ASSUME Tables, Writer
    PROVE  Tables' /\ Kept /\ reader' = reader
BY StatusMoves, PurgeMoves, AgentsAdd, AddedTaskIsPending, MovedTaskRuns DEF Writer

\* reading changes no table
LEMMA ReadersKeep ==
    ASSUME Tables, UNCHANGED <<st, busy, claims, tables>>
    PROVE  Tables' /\ Kept
<1>1. /\ st' = st /\ busy' = busy /\ claims' = claims /\ tasks' = tasks
      /\ evidence' = evidence /\ hypotheses' = hypotheses /\ gaps' = gaps
      /\ findings' = findings /\ report' = report
  BY DEF tables
<1>2. Completed' = Completed
  BY <1>1 DEF Completed
<1> QED BY <1>1, <1>2 DEF Tables, Kept, Follows

-----------------------------------------------------------------------------
(* Pages and all of the evidence *)

\* what was got is in order; what was there from the start and is not got is behind the
\* cursor, and there is none of it at the end of a read that was not cut
PagesInv ==
    reader.kind \in {"pages", "all"} =>
        /\ Ascending(reader.got)
        /\ reader.first \subseteq evidence \/ Follows("deleted")
        /\ ~ reader.over =>
              IF reader.got = <<>> THEN reader.cursor = <<>>
              ELSE /\ reader.cursor = reader.got[Len(reader.got)]
                   /\ \A r \in reader.first \intersect evidence :
                         r \in Listed(reader.got) \/ Before(reader.cursor, r)
        /\ reader.over /\ ~ reader.cut =>
              reader.first \intersect evidence \subseteq Listed(reader.got)
        /\ reader.kind = "all" => Len(reader.got) <= reader.limit
        /\ reader.cut => reader.over /\ Len(reader.got) = reader.limit

LEMMA AscendingJoins ==
    ASSUME NEW s \in Seq(Rows), NEW t \in Seq(Rows), Ascending(s), Ascending(t),
           s # <<>> => \A k \in 1..Len(t) : Before(s[Len(s)], t[k])
    PROVE  /\ s \o t \in Seq(Rows) /\ Len(s \o t) = Len(s) + Len(t)
           /\ Listed(s \o t) = Listed(s) \union Listed(t)
           /\ Ascending(s \o t)
           /\ Len(t) > 0 => /\ Len(s \o t) > 0
                            /\ (s \o t)[Len(s \o t)] = t[Len(t)]
<1> DEFINE j == s \o t
           m == Len(s)
           n == Len(t)
<1>1. /\ j \in Seq(Rows) /\ Len(j) = m + n /\ m \in Nat /\ n \in Nat
      /\ \A k \in 1..m : j[k] = s[k] /\ s[k] \in Rows
      /\ \A k \in (m + 1)..(m + n) : j[k] = t[k - m]
      /\ \A k \in 1..n : t[k] \in Rows
      /\ s # <<>> <=> m > 0
  OBVIOUS
<1> HIDE DEF j, m, n
<1>2. \A k \in 1..n : k + m \in (m + 1)..(m + n) /\ j[k + m] = t[k]
  BY <1>1
<1>3. Listed(j) = Listed(s) \union Listed(t)
  <2>1. ASSUME NEW k \in 1..(m + n)
        PROVE  j[k] \in Listed(s) \union Listed(t)
    <3>1. k \in 1..m \/ (k - m \in 1..n /\ k \in (m + 1)..(m + n))
      BY <1>1
    <3> QED BY <1>1, <3>1 DEF Listed, m, n
  <2>2. ASSUME NEW k \in 1..m PROVE s[k] \in Listed(j)
    <3>1. k \in 1..(m + n) BY <1>1
    <3> QED BY <1>1, <3>1 DEF Listed
  <2>3. ASSUME NEW k \in 1..n PROVE t[k] \in Listed(j)
    <3>1. k + m \in 1..(m + n) BY <1>1
    <3> QED BY <1>1, <1>2, <3>1 DEF Listed
  <2> QED BY <1>1, <2>1, <2>2, <2>3 DEF Listed, m, n
<1>4. ASSUME NEW k \in 1..(m + n), NEW l \in 1..(m + n), k < l
      PROVE  Before(j[k], j[l])
  <2>1. CASE l <= m
    <3>1. k \in 1..m /\ l \in 1..m BY <1>1, <1>4, <2>1
    <3>2. Before(s[k], s[l]) BY <1>4, <3>1 DEF Ascending, m
    <3> QED BY <1>1, <3>1, <3>2
  <2>2. CASE k > m
    <3>1. /\ k - m \in 1..n /\ l - m \in 1..n /\ k - m < l - m
          /\ k \in (m + 1)..(m + n) /\ l \in (m + 1)..(m + n)
      BY <1>1, <1>4, <2>2
    <3>2. Before(t[k - m], t[l - m]) BY <3>1 DEF Ascending, n
    <3> QED BY <1>1, <3>1, <3>2
  <2>3. CASE k <= m /\ l > m
    <3>1. k \in 1..m /\ m \in 1..m /\ l - m \in 1..n /\ l \in (m + 1)..(m + n)
      BY <1>1, <1>4, <2>3
    <3>2. Before(s[m], t[l - m]) BY <1>1, <3>1 DEF m, n
    <3>3. k = m \/ Before(s[k], s[m])
      <4>1. k = m \/ k < m BY <1>1, <3>1
      <4> QED BY <3>1, <4>1 DEF Ascending, m
    <3>4. s[k] \in Rows /\ s[m] \in Rows /\ t[l - m] \in Rows BY <1>1, <3>1
    <3>5. Before(s[k], t[l - m]) BY <3>2, <3>3, <3>4, BeforeIsAnOrder
    <3> QED BY <1>1, <3>1, <3>5
  <2> QED BY <1>1, <2>1, <2>2, <2>3
<1>5. Ascending(j)
  BY <1>1, <1>4 DEF Ascending
<1>6. n > 0 => m + n > 0 /\ j[m + n] = t[n]
  <2>1. n > 0 => m + n > 0 /\ n \in 1..n /\ n + m = m + n
    BY <1>1
  <2> QED BY <1>2, <2>1
<1> QED BY <1>1, <1>3, <1>5, <1>6 DEF j, m, n

LEMMA TurnReads ==
    ASSUME Tables, ReaderShape, PagesInv, Turn
    PROVE  ReaderShape' /\ PagesInv'
<1> DEFINE page == Page(Limit, reader.cursor)
           got == reader.got \o page.rows
           first == IF reader.got = <<>> THEN evidence ELSE reader.first
           shown == Behind(reader.cursor)
<1>1. /\ reader \in PageReaders /\ reader.kind \in {"pages", "all"} /\ ~ reader.over
      /\ evidence \in SUBSET Rows
      /\ reader.got \in Seq(Rows) /\ reader.cursor \in Rows \union {<<>>}
      /\ reader.first \in SUBSET Rows
  BY KindsAreApart DEF Turn, Paging, Tables, PageReaders
<1>2. /\ reader' = [reader EXCEPT !.got = got, !.cursor = page.next, !.first = first,
                                  !.over = (page.next = <<>>)]
      /\ evidence' = evidence /\ st' = st
  BY DEF Turn, tables
<1>3. /\ Limit \in Nat \ {0}
      /\ reader.kind = "all" => Limit = reader.limit - Len(reader.got)
  BY <1>1, SMTT(30) DEF Turn, Limit, PageReaders, PagesInv
<1>4. /\ page.rows \in Seq(shown) /\ Len(page.rows) <= Limit
      /\ Ascending(page.rows)
      /\ page.next = <<>> => Listed(page.rows) = shown
      /\ page.next # <<>> =>
            /\ Len(page.rows) > 0 /\ page.next = page.rows[Len(page.rows)]
            /\ \A r \in shown \ Listed(page.rows) : Before(page.next, r)
  BY <1>1, <1>3, PagesAreExact
<1> HIDE DEF page
<1>5. shown \in SUBSET Rows
  BY <1>1 DEF Behind
<1>6. page.rows \in Seq(Rows) /\ page.next \in Rows \union {<<>>}
  BY <1>4, <1>5
<1>7. reader.got # <<>> => \A k \in 1..Len(page.rows) :
                              Before(reader.got[Len(reader.got)], page.rows[k])
  <2>1. ASSUME reader.got # <<>>
        PROVE  reader.cursor = reader.got[Len(reader.got)] /\ reader.cursor # <<>>
    <3>1. reader.got[Len(reader.got)] \in Rows
      BY <1>1, <2>1
    <3> QED BY <1>1, <2>1, <3>1, RowsAreNumbers DEF PagesInv
  <2>2. \A k \in 1..Len(page.rows) : page.rows[k] \in shown
    BY <1>4
  <2> QED BY <2>1, <2>2 DEF Behind
<1>8. /\ got \in Seq(Rows) /\ Len(got) = Len(reader.got) + Len(page.rows)
      /\ Listed(got) = Listed(reader.got) \union Listed(page.rows)
      /\ Ascending(got)
      /\ Len(page.rows) > 0 => Len(got) > 0 /\ got[Len(got)] = page.rows[Len(page.rows)]
  BY <1>1, <1>4, <1>6, <1>7, AscendingJoins DEF PagesInv
<1>9. page.next # <<>> => Len(got) > 0 /\ page.next = got[Len(got)]
  BY <1>4, <1>8
<1>10. \A r \in first \intersect evidence : r \in Listed(reader.got) \/ r \in shown
  BY <1>1 DEF PagesInv, Behind
<1>11. first \in SUBSET Rows /\ (first \subseteq evidence \/ Follows("deleted"))
  BY <1>1 DEF PagesInv
<1> HIDE DEF got, first, shown
<1>12. reader.kind = "all" => Len(got) <= reader.limit
  <2>1. Len(reader.got) \in Nat /\ Len(page.rows) \in Nat
    BY <1>1, <1>6
  <2>2. reader.limit \in Nat
    BY <1>1 DEF PageReaders
  <2> SUFFICES ASSUME reader.kind = "all" PROVE Len(got) <= reader.limit
    OBVIOUS
  <2>3. /\ Len(got) = Len(reader.got) + Len(page.rows)
        /\ Len(page.rows) <= reader.limit - Len(reader.got)
    BY <1>3, <1>4, <1>8
  <2>4. \A a, b, d \in Nat : b <= d - a => a + b <= d
    OBVIOUS
  <2> QED BY <2>1, <2>2, <2>3, <2>4, Zenon
<1>13. /\ reader' \in PageReaders
       /\ reader'.kind = reader.kind /\ reader'.limit = reader.limit
       /\ reader'.cut = reader.cut /\ reader'.got = got /\ reader'.first = first
       /\ reader'.cursor = page.next /\ reader'.over = (page.next = <<>>)
  <2>1. (page.next = <<>>) \in BOOLEAN
    OBVIOUS
  <2> QED BY <1>1, <1>2, <1>6, <1>8, <1>11, <2>1 DEF PageReaders
<1>14. ~ reader.cut
  BY <1>1 DEF PagesInv
<1>15. \A r \in first \intersect evidence :
          r \in Listed(got) \/ (page.next # <<>> /\ Before(page.next, r))
  BY <1>4, <1>8, <1>10
<1>16. PagesInv'
  <2>1. page.next # <<>> => got # <<>>
    <3>1. Len(<<>>) = 0
      OBVIOUS
    <3> QED BY <1>9, <3>1
  <2>2. reader'.first \subseteq evidence' \/ Follows("deleted")'
    BY <1>2, <1>11, <1>13 DEF Follows
  <2>3. ~ reader'.over =>
           IF reader'.got = <<>> THEN reader'.cursor = <<>>
           ELSE /\ reader'.cursor = reader'.got[Len(reader'.got)]
                /\ \A r \in reader'.first \intersect evidence' :
                      r \in Listed(reader'.got) \/ Before(reader'.cursor, r)
    <3>1. /\ page.next # <<>> => page.next = got[Len(got)]
          /\ reader'.over = (page.next = <<>>) /\ evidence' = evidence
          /\ reader'.got = got /\ reader'.first = first /\ reader'.cursor = page.next
      BY <1>2, <1>9, <1>13
    <3> QED BY ONLY <1>15, <2>1, <3>1
  <2>4. reader'.over => reader'.first \intersect evidence' \subseteq Listed(reader'.got)
    BY <1>2, <1>13, <1>15
  <2> QED BY <1>8, <1>12, <1>13, <1>14, <2>2, <2>3, <2>4 DEF PagesInv
<1> QED BY <1>13, <1>16 DEF ReaderShape

LEMMA CutReads ==
    ASSUME Tables, ReaderShape, PagesInv, Cut
    PROVE  ReaderShape' /\ PagesInv'
<1>1. /\ reader \in PageReaders /\ reader.kind \in {"pages", "all"} /\ ~ reader.over
      /\ reader' = [reader EXCEPT !.over = TRUE, !.cut = TRUE]
      /\ evidence' = evidence /\ st' = st
  BY KindsAreApart DEF Cut, Paging, tables
<1>2. /\ reader' \in PageReaders
      /\ reader'.kind = reader.kind /\ reader'.limit = reader.limit
      /\ reader'.got = reader.got /\ reader'.first = reader.first
      /\ reader'.over /\ reader'.cut
  BY <1>1 DEF PageReaders
<1>3. Len(reader.got) = reader.limit
  <2>1. Len(reader.got) \in Nat /\ reader.limit \in Nat \ {0}
    BY <1>1 DEF PageReaders
  <2>2. CASE reader.kind = "pages"
    BY <2>1, <2>2 DEF Cut, Limit
  <2>3. CASE reader.kind = "all"
    <3>1. reader.limit - Len(reader.got) <= 0 /\ Len(reader.got) <= reader.limit
      BY <1>1, <2>3 DEF Cut, Limit, PagesInv
    <3>2. \A a, b \in Nat : b - a <= 0 /\ a <= b => a = b
      OBVIOUS
    <3> QED BY <2>1, <3>1, <3>2
  <2> QED BY <1>1, <2>2, <2>3
<1>4. PagesInv'
  BY <1>1, <1>2, <1>3 DEF PagesInv, Follows
<1> QED BY <1>2, <1>4 DEF ReaderShape

\* rows that are added are not asked for, those that were there stay until the purge
LEMMA WritersLeavePages ==
    ASSUME Tables, Tables', Kept, reader' = reader, ReaderShape, PagesInv
    PROVE  PagesInv'
<1> SUFFICES ASSUME reader.kind \in {"pages", "all"}
             PROVE  PagesInv'
  BY DEF PagesInv
<1>1. evidence' = {} \/ (evidence \subseteq evidence' /\ ~ Follows("deleted")')
  BY DEF Kept, Tables
<1>2. reader.first \subseteq evidence' \/ Follows("deleted")'
  BY <1>1 DEF PagesInv, Kept
<1>3. reader.first \intersect evidence' \subseteq reader.first \intersect evidence
  BY <1>1 DEF PagesInv, Kept
<1> QED BY <1>2, <1>3 DEF PagesInv

-----------------------------------------------------------------------------
(* Details and provenance *)

\* the parts come in the order of the SELECTs, all of them or, after 404, none
PartsInv(count) ==
    /\ Len(reader.answer) <= count
    /\ ~ reader.over => Len(reader.answer) < count
    /\ reader.over => reader.answer = <<>> \/ Len(reader.answer) = count
    /\ \A k \in 1..Len(reader.answer) : reader.answer[k].table = Selects(reader.kind)[k]

\* the parts of the record that an answer has are what the tables hold now
Matches(answer) ==
    /\ Len(answer) >= 2 => answer[2].rows = findings
    /\ Len(answer) >= 3 => answer[3].rows = report
    /\ Len(answer) >= 4 => answer[4].rows = hypotheses
    /\ Len(answer) >= 6 => answer[6].rows = gaps

\* an answer that opens with a finished status, and no execution was claimed since
Finished(answer) ==
    Len(answer) >= 1 /\ answer[1].rows \in Terminal /\ claims = reader.asOf

\* what an earlier part shows is still so when a later one is read
DetailInv ==
    reader.kind = "detail" =>
        /\ PartsInv(6)
        /\ reader.asOf <= claims
        /\ ~ Follows("deleted") =>
              /\ Finished(reader.answer) =>
                    ~ Follows("running") /\ Matches(reader.answer)
              /\ Len(reader.answer) >= 4 => reader.answer[4].rows \subseteq hypotheses
              /\ Len(reader.answer) >= 5 =>
                    \A h \in reader.answer[4].rows : \A r \in Cites[h] :
                        <<h, r>> \in reader.answer[5].rows

ProvenanceInv ==
    reader.kind = "provenance" =>
        /\ PartsInv(4)
        /\ ~ Follows("deleted") =>
              /\ Len(reader.answer) >= 1 => reader.asked \in evidence
              /\ \A k \in 2..Len(reader.answer) :
                    reader.asked \in reader.answer[k].rows <=>
                        Selects("provenance")[k] \in Origin[reader.asked]

LEMMA DetailSelects ==
    /\ Selects("detail")[1] = "investigations" /\ Selects("detail")[2] = "findings"
    /\ Selects("detail")[3] = "reports" /\ Selects("detail")[4] = "hypotheses"
    /\ Selects("detail")[5] = "hypothesis_evidence"
    /\ Selects("detail")[6] = "hypothesis_gaps"
    /\ Len(Selects("detail")) = 6
BY DEF Selects

LEMMA ProvenanceSelects ==
    /\ Selects("provenance")[1] = "evidence" /\ Selects("provenance")[2] = "tool_runs"
    /\ Selects("provenance")[3] = "artifacts" /\ Selects("provenance")[4] = "agent_runs"
    /\ Len(Selects("provenance")) = 4
BY DEF Selects

LEMMA ContentOfTables ==
    /\ Content("investigations") = st[Inv]
    /\ Content("findings") = findings
    /\ Content("reports") = report
    /\ Content("hypotheses") = hypotheses
    /\ Content("hypothesis_evidence") =
          {p \in hypotheses \X Rows : p[2] \in Cites[p[1]]}
    /\ Content("hypothesis_gaps") = gaps
    /\ Content("evidence") = evidence
    /\ \A t \in {"tool_runs", "artifacts", "agent_runs"} :
          Content(t) = {r \in evidence : t \in Origin[r]}
<1>1. Content("investigations") = st[Inv] BY DEF Content
<1>2. Content("findings") = findings BY DEF Content
<1>3. Content("reports") = report BY Zenon DEF Content
<1>4. Content("hypotheses") = hypotheses BY DEF Content
<1>5. Content("hypothesis_evidence") = {p \in hypotheses \X Rows : p[2] \in Cites[p[1]]}
  BY DEF Content
<1>6. Content("hypothesis_gaps") = gaps BY DEF Content
<1>7. Content("evidence") = evidence BY DEF Content
<1>8. ASSUME NEW t \in {"tool_runs", "artifacts", "agent_runs"}
      PROVE  Content(t) = {r \in evidence : t \in Origin[r]}
  BY DEF Content
<1> QED BY <1>1, <1>2, <1>3, <1>4, <1>5, <1>6, <1>7, <1>8

LEMMA PartsAreTyped ==
    ASSUME Tables, NEW t \in TableNames
    PROVE  [table |-> t, rows |-> Content(t)] \in Parts
<1>1. Content(t) \in Shown
  <2>1. /\ st[Inv] \in Statuses /\ findings \in Nat /\ report \in BOOLEAN
        /\ hypotheses \in SUBSET Hypotheses /\ gaps \in SUBSET Hypotheses
        /\ evidence \in SUBSET Rows
    BY DEF Tables
  <2>2. /\ st[Inv] \in Shown /\ findings \in Shown
        /\ hypotheses \in Shown /\ gaps \in Shown /\ evidence \in Shown
    BY <2>1 DEF Shown
  <2>3. report \in Shown
    BY <2>1, Zenon DEF Shown
  <2>4. {p \in hypotheses \X Rows : p[2] \in Cites[p[1]]} \in Shown
    <3>1. {p \in hypotheses \X Rows : p[2] \in Cites[p[1]]} \in SUBSET Links
      BY <2>1 DEF Links
    <3> QED BY <3>1 DEF Shown
  <2>5. \A u \in {"tool_runs", "artifacts", "agent_runs"} :
           {r \in evidence : u \in Origin[r]} \in Shown
    BY <2>1 DEF Shown
  <2> QED BY <2>2, <2>3, <2>4, <2>5, ContentOfTables DEF TableNames
<1> QED BY <1>1 DEF Parts

LEMMA PartIsAdded ==
    ASSUME NEW answer \in Seq(Parts), NEW part \in Parts
    PROVE  /\ Append(answer, part) \in Seq(Parts)
           /\ Len(Append(answer, part)) = Len(answer) + 1 /\ Len(answer) \in Nat
           /\ \A k \in 1..Len(answer) : Append(answer, part)[k] = answer[k]
           /\ Append(answer, part)[Len(answer) + 1] = part
           /\ Append(answer, part) # <<>>
           /\ answer = <<>> <=> Len(answer) = 0
OBVIOUS

LEMMA SelectReadsDetail ==
    ASSUME Tables, ReaderShape, DetailInv, Select, reader.kind = "detail"
    PROVE  ReaderShape' /\ DetailInv'
<1> DEFINE n == Len(reader.answer)
           part == [table |-> Due, rows |-> Content(Due)]
           answer == Append(reader.answer, part)
           asOf == IF reader.answer = <<>> THEN claims ELSE reader.asOf
<1>1. /\ reader \in DetailReaders /\ reader.answer \in Seq(Parts) /\ ~ reader.over
      /\ reader' = [reader EXCEPT !.answer = answer, !.asOf = asOf, !.over = (n + 1 = 6)]
      /\ n \in Nat /\ n < 6 /\ asOf \in Nat /\ asOf <= claims
      /\ n = 0 => asOf = claims
      /\ n > 0 => asOf = reader.asOf
      /\ findings' = findings /\ hypotheses' = hypotheses /\ report' = report
      /\ gaps' = gaps /\ st' = st /\ claims' = claims
  <2>1. /\ reader \in DetailReaders /\ reader.answer \in Seq(Parts) /\ ~ reader.over
        /\ findings' = findings /\ hypotheses' = hypotheses /\ report' = report
        /\ gaps' = gaps /\ st' = st /\ claims' = claims
    BY KindsAreApart DEF Select, Asking, DetailReaders, tables
  <2>2. n \in Nat /\ n < 6 /\ reader.asOf <= claims
    BY <2>1 DEF DetailInv, PartsInv
  <2>3. reader' = [reader EXCEPT !.answer = answer, !.asOf = asOf, !.over = (n + 1 = 6)]
    BY DetailSelects, Zenon DEF Select
  <2>4. /\ asOf \in Nat /\ asOf <= claims
        /\ n = 0 => asOf = claims
        /\ n > 0 => asOf = reader.asOf
    <3>1. reader.answer = <<>> <=> n = 0
      BY <2>1
    <3>2. reader.asOf \in Nat /\ claims \in Nat
      BY <2>1 DEF DetailReaders, Tables
    <3> QED BY <2>2, <3>1, <3>2
  <2> QED BY <2>1, <2>2, <2>3, <2>4
<1>2. n + 1 \in {1, 2, 3, 4, 5, 6} /\ Due = Selects("detail")[n + 1]
  BY <1>1 DEF Due
<1>3. /\ part \in Parts
      /\ part.table = Selects("detail")[n + 1]
      /\ n + 1 = 1 => part.rows = st[Inv]
      /\ n + 1 = 2 => part.rows = findings
      /\ n + 1 = 3 => part.rows = report
      /\ n + 1 = 4 => part.rows = hypotheses
      /\ n + 1 = 6 => part.rows = gaps
      /\ n + 1 = 5 => part.rows = {p \in hypotheses \X Rows : p[2] \in Cites[p[1]]}
  <2>1. Due \in TableNames
    BY <1>2, DetailSelects DEF TableNames
  <2>2. part \in Parts
    BY <2>1, PartsAreTyped
  <2>3. n + 1 = 3 => part.rows = report
    BY <1>2, DetailSelects, ContentOfTables, Zenon
  <2> QED BY <1>2, <2>2, <2>3, DetailSelects, ContentOfTables
<1> HIDE DEF n, part
<1>4. /\ answer \in Seq(Parts) /\ Len(answer) = n + 1 /\ answer # <<>>
      /\ \A k \in 1..n : answer[k] = reader.answer[k]
      /\ answer[n + 1] = part
  BY <1>1, <1>3, PartIsAdded DEF n
<1> HIDE DEF answer, asOf
<1>5. /\ reader' \in DetailReaders
      /\ reader'.kind = reader.kind /\ reader'.answer = answer
      /\ reader'.asOf = asOf /\ reader'.over = (n + 1 = 6)
  BY <1>1, <1>4 DEF DetailReaders
<1>6. PartsInv(6)'
  <2>1. \A k \in 1..(n + 1) : k \in 1..n \/ k = n + 1
    BY <1>1
  <2>2. \A k \in 1..Len(answer) : answer[k].table = Selects("detail")[k]
    BY <1>1, <1>3, <1>4, <2>1 DEF DetailInv, PartsInv, n
  <2>3. n + 1 <= 6 /\ (n + 1 = 6 \/ n + 1 < 6)
    BY <1>1
  <2> QED BY <1>4, <1>5, <2>2, <2>3 DEF PartsInv
<1>7. ASSUME ~ Follows("deleted")'
      PROVE  /\ Len(answer) >= 1 /\ answer[1].rows \in Terminal /\ claims = asOf =>
                   ~ Follows("running") /\ Matches(answer)
             /\ Len(answer) >= 4 => answer[4].rows \subseteq hypotheses
             /\ Len(answer) >= 5 =>
                   \A h \in answer[4].rows : \A r \in Cites[h] : <<h, r>> \in answer[5].rows
  <2>1. ~ Follows("deleted")
    BY <1>1, <1>7 DEF Follows
  <2>2. ASSUME answer[1].rows \in Terminal, claims = asOf
        PROVE  ~ Follows("running") /\ Matches(answer)
    <3>1. CASE n = 0
      <4>1. answer[1] = part /\ part.rows = st[Inv] /\ Len(answer) = 1
        BY <1>3, <1>4, <3>1
      <4>2. ~ Follows("running")
        BY <2>2, <4>1 DEF Follows, Terminal, Contract!Terminal
      <4>3. ~ (1 >= 2) /\ ~ (1 >= 3) /\ ~ (1 >= 4) /\ ~ (1 >= 6)
        OBVIOUS
      <4> QED BY <4>1, <4>2, <4>3, Zenon DEF Matches
    <3>2. CASE n > 0
      <4>1. 1 \in 1..n /\ n >= 1
        BY <1>1, <3>2
      <4>2. Finished(reader.answer)
        BY <1>1, <1>4, <2>2, <3>2, <4>1 DEF Finished, n
      <4>3. ~ Follows("running") /\ Matches(reader.answer)
        BY <2>1, <4>2, Zenon DEF DetailInv
      <4>4. \A k \in {2, 3, 4, 6} : Len(answer) >= k =>
               \/ n >= k /\ answer[k] = reader.answer[k]
               \/ n + 1 = k /\ answer[k] = part
        <5> TAKE k \in {2, 3, 4, 6}
        <5>1. n + 1 >= k => n >= k \/ n + 1 = k
          BY <1>1
        <5>2. n >= k => k \in 1..n
          BY <1>1
        <5> QED BY <1>4, <5>1, <5>2, Zenon
      <4>5. Matches(answer)
        <5>1. 2 \in {2, 3, 4, 6} /\ 3 \in {2, 3, 4, 6} /\ 4 \in {2, 3, 4, 6}
              /\ 6 \in {2, 3, 4, 6}
          OBVIOUS
        <5>2. Len(answer) >= 2 => answer[2].rows = findings
          BY <1>3, <4>3, <4>4, <5>1, Zenon DEF Matches, n
        <5>3. Len(answer) >= 3 => answer[3].rows = report
          BY <1>3, <4>3, <4>4, <5>1, Zenon DEF Matches, n
        <5>4. Len(answer) >= 4 => answer[4].rows = hypotheses
          BY <1>3, <4>3, <4>4, <5>1, Zenon DEF Matches, n
        <5>5. Len(answer) >= 6 => answer[6].rows = gaps
          BY <1>3, <4>3, <4>4, <5>1, Zenon DEF Matches, n
        <5> QED BY <5>2, <5>3, <5>4, <5>5, Zenon DEF Matches
      <4> QED BY <4>3, <4>5
    <3> QED BY <1>1, <3>1, <3>2
  <2>4. ASSUME Len(answer) >= 4 PROVE answer[4].rows \subseteq hypotheses
    <3>1. CASE n = 3
      BY <1>3, <1>4, <3>1
    <3>2. CASE n > 3
      BY <1>1, <1>4, <2>1, <3>2 DEF DetailInv, n
    <3> QED BY <1>1, <1>4, <2>4, <3>1, <3>2
  <2>5. ASSUME Len(answer) >= 5, NEW h \in answer[4].rows, NEW r \in Cites[h]
        PROVE  <<h, r>> \in answer[5].rows
    <3>1. h \in hypotheses /\ r \in Rows
      BY <1>1, <1>4, <2>4, <2>5, ReadersAssumption DEF Tables, ReadersAssumption
    <3>2. CASE n = 4
      BY <1>3, <1>4, <2>5, <3>1, <3>2
    <3>3. CASE n > 4
      BY SMTT(60), <1>1, <1>4, <2>1, <2>5, <3>3 DEF DetailInv, n
    <3> QED BY <1>1, <1>4, <2>5, <3>2, <3>3
  <2> QED BY <2>2, <2>4, <2>5
<1>8. DetailInv'
  <2>1. /\ hypotheses' = hypotheses /\ claims' = claims
        /\ Follows("running")' <=> Follows("running")
        /\ Follows("deleted")' <=> Follows("deleted")
    BY <1>1 DEF Follows
  <2>2. Matches(reader.answer)' <=> Matches(answer)
    BY <1>1, <1>5, Zenon DEF Matches
  <2>3. Finished(reader.answer)' <=>
           Len(answer) >= 1 /\ answer[1].rows \in Terminal /\ claims = asOf
    BY <1>5, <2>1, Zenon DEF Finished, Terminal
  <2>4. (reader.asOf <= claims)'
    BY <1>1, <1>5
  <2> QED BY <1>5, <1>6, <1>7, <2>1, <2>2, <2>3, <2>4, Zenon DEF DetailInv
<1> QED BY <1>5, <1>8 DEF ReaderShape

LEMMA SelectReadsProvenance ==
    ASSUME Tables, ReaderShape, ProvenanceInv, Select, reader.kind = "provenance"
    PROVE  ReaderShape' /\ ProvenanceInv'
<1> DEFINE n == Len(reader.answer)
           part == [table |-> Due, rows |-> Content(Due)]
           answer == Append(reader.answer, part)
           asOf == IF reader.answer = <<>> THEN claims ELSE reader.asOf
<1>1. /\ reader \in ProvenanceReaders /\ reader.answer \in Seq(Parts) /\ ~ reader.over
      /\ reader' = [reader EXCEPT !.answer = answer, !.asOf = asOf, !.over = (n + 1 = 4)]
      /\ n \in Nat /\ n < 4 /\ asOf \in Nat
      /\ evidence' = evidence /\ st' = st
      /\ n = 0 => reader.asked \in evidence
  <2>1. /\ reader \in ProvenanceReaders /\ reader.answer \in Seq(Parts) /\ ~ reader.over
        /\ evidence' = evidence /\ st' = st /\ asOf \in Nat
    BY KindsAreApart DEF Select, Asking, ProvenanceReaders, tables, Tables
  <2>2. n \in Nat /\ n < 4 /\ (n = 0 => reader.answer = <<>>)
    BY <2>1 DEF ProvenanceInv, PartsInv
  <2>3. reader' = [reader EXCEPT !.answer = answer, !.asOf = asOf, !.over = (n + 1 = 4)]
    BY ProvenanceSelects, Zenon DEF Select
  <2>4. reader.answer = <<>> => reader.asked \in evidence
    BY DEF Select
  <2> QED BY <2>1, <2>2, <2>3, <2>4
<1>2. n + 1 \in {1, 2, 3, 4} /\ Due = Selects("provenance")[n + 1]
  BY <1>1 DEF Due
<1>3. /\ part \in Parts
      /\ part.table = Selects("provenance")[n + 1]
      /\ n + 1 >= 2 =>
            part.rows = {r \in evidence : Selects("provenance")[n + 1] \in Origin[r]}
  <2>1. Due \in TableNames
    BY <1>2, ProvenanceSelects DEF TableNames
  <2>2. part \in Parts
    BY <2>1, PartsAreTyped
  <2> QED BY <1>2, <2>2, ProvenanceSelects, ContentOfTables
<1> HIDE DEF n, part
<1>4. /\ answer \in Seq(Parts) /\ Len(answer) = n + 1 /\ answer # <<>>
      /\ \A k \in 1..n : answer[k] = reader.answer[k]
      /\ answer[n + 1] = part
  BY <1>1, <1>3, PartIsAdded DEF n
<1> HIDE DEF answer, asOf
<1>5. /\ reader' \in ProvenanceReaders
      /\ reader'.kind = reader.kind /\ reader'.answer = answer
      /\ reader'.asked = reader.asked /\ reader'.over = (n + 1 = 4)
  BY <1>1, <1>4 DEF ProvenanceReaders
<1>6. \A k \in 1..(n + 1) : k \in 1..n \/ k = n + 1
  BY <1>1
<1>7. PartsInv(4)'
  <2>1. \A k \in 1..Len(answer) : answer[k].table = Selects("provenance")[k]
    BY <1>1, <1>3, <1>4, <1>6 DEF ProvenanceInv, PartsInv, n
  <2>2. n + 1 <= 4 /\ (n + 1 = 4 \/ n + 1 < 4)
    BY <1>1
  <2> QED BY <1>4, <1>5, <2>1, <2>2 DEF PartsInv
<1>8. ASSUME ~ Follows("deleted")'
      PROVE  /\ reader.asked \in evidence
             /\ \A k \in 2..Len(answer) :
                   reader.asked \in answer[k].rows <=>
                       Selects("provenance")[k] \in Origin[reader.asked]
  <2>1. ~ Follows("deleted")
    BY <1>1, <1>8 DEF Follows
  <2>2. reader.asked \in evidence
    BY <1>1, <2>1 DEF ProvenanceInv, n
  <2>3. ASSUME NEW k \in 2..Len(answer)
        PROVE  reader.asked \in answer[k].rows <=>
                   Selects("provenance")[k] \in Origin[reader.asked]
    <3>1. CASE k = n + 1
      BY <1>1, <1>3, <1>4, <2>2, <3>1
    <3>2. CASE k # n + 1
      <4>1. k \in 1..n /\ k \in 2..n
        BY <1>1, <1>4, <3>2
      <4> QED BY <1>4, <2>1, <4>1 DEF ProvenanceInv, n
    <3> QED BY <3>1, <3>2
  <2> QED BY <2>2, <2>3
<1>9. ProvenanceInv'
  BY <1>1, <1>5, <1>7, <1>8 DEF ProvenanceInv
<1> QED BY <1>5, <1>9 DEF ReaderShape

\* 404: the answer stays empty
LEMMA NotFoundAnswers ==
    ASSUME Tables, ReaderShape, DetailInv, ProvenanceInv, NotFound
    PROVE  ReaderShape' /\ DetailInv' /\ ProvenanceInv'
<1>1. /\ reader.kind \in {"detail", "provenance"}
      /\ reader \in DetailReaders \union ProvenanceReaders
      /\ reader' = [reader EXCEPT !.over = TRUE] /\ reader.answer = <<>>
  BY KindsAreApart DEF NotFound, Asking
<1>2. /\ reader' \in DetailReaders \union ProvenanceReaders
      /\ reader'.answer = <<>> /\ reader'.over /\ reader'.asOf = reader.asOf
      /\ reader'.kind = reader.kind /\ claims' = claims
  BY <1>1 DEF NotFound, DetailReaders, ProvenanceReaders
<1>3. Len(reader'.answer) = 0
  BY <1>2
<1>4. PartsInv(4)' /\ PartsInv(6)'
  BY <1>2, <1>3 DEF PartsInv
<1> QED BY <1>2, <1>3, <1>4 DEF ReaderShape, DetailInv, ProvenanceInv, Finished

\* rows that an answer shows stay until the purge
LEMMA WritersLeaveAnswers ==
    ASSUME Tables, Tables', Kept, reader' = reader, ReaderShape, DetailInv, ProvenanceInv
    PROVE  DetailInv' /\ ProvenanceInv'
<1>1. PartsInv(4)' <=> PartsInv(4)
  BY DEF PartsInv
<1>2. PartsInv(6)' <=> PartsInv(6)
  BY DEF PartsInv
<1>3. DetailInv'
  <2> SUFFICES ASSUME reader.kind = "detail" PROVE DetailInv'
    BY DEF DetailInv
  <2>1. claims \in Nat /\ claims' \in Nat /\ reader.asOf \in Nat
    BY KindsAreApart DEF Tables, DetailReaders
  <2>2. reader.asOf <= claims /\ claims <= claims'
    BY DEF DetailInv, Kept
  <2>3. (reader.asOf <= claims)'
    BY <2>1, <2>2
  <2>4. claims' = reader.asOf => claims' = claims /\ claims = reader.asOf
    BY <2>1, <2>2
  <2>5. ASSUME ~ Follows("deleted")', Finished(reader.answer)'
        PROVE  ~ Follows("running")' /\ Matches(reader.answer)'
    <3>1. /\ Len(reader.answer) >= 1 /\ reader.answer[1].rows \in Terminal
          /\ claims' = reader.asOf
      BY <2>5, Zenon DEF Finished, Terminal
    <3>2. ~ Follows("deleted")
      BY <2>5, Zenon DEF Kept
    <3>3. claims' = claims /\ Finished(reader.answer)
      BY <2>4, <3>1, Zenon DEF Finished
    <3>4. ~ Follows("running") /\ Matches(reader.answer)
      BY <3>2, <3>3, Zenon DEF DetailInv
    <3>5. /\ findings' = findings /\ report' = report
          /\ hypotheses' = hypotheses /\ gaps' = gaps /\ ~ Follows("running")'
      BY <2>5, <3>3, <3>4, Zenon DEF Kept
    <3> QED BY <3>4, <3>5, Zenon DEF Matches
  <2> QED BY <1>2, <2>3, <2>5, Zenon DEF DetailInv, Kept
<1>4. ProvenanceInv'
  BY <1>1 DEF ProvenanceInv, Kept
<1> QED BY <1>3, <1>4

-----------------------------------------------------------------------------
(* The event stream *)

\* no execution is under way that started before the count of claims was read
Rests(count) == claims = count => ~ Follows("running")

\* what was told of a finished investigation is so as long as nobody starts it or adds a
\* task; between the two SELECTs of a poll the same holds of the status that was read
StreamInv ==
    reader.kind = "stream" =>
        /\ reader.pc = "sleep" => reader.told.status = reader.status
        /\ reader.asOf <= reader.claims /\ reader.claims <= claims
        /\ reader.told.completed <= reader.told.total
        /\ reader.told.total <= Len(tasks) \/ Follows("deleted")
        /\ reader.told.status \in Terminal =>
              /\ Rests(reader.asOf)
              /\ claims = reader.asOf /\ Len(tasks) = reader.told.total =>
                    reader.told.completed = Completed
        /\ reader.pc = "polled" /\ reader.status \in Terminal => Rests(reader.claims)
        /\ ~ reader.over => reader.checks < 2
        /\ reader.done => /\ reader.over /\ reader.pc = "sleep"
                          /\ reader.status \in Terminal

LEMMA PollAsks ==
    ASSUME Tables, ReaderShape, StreamInv, Poll
    PROVE  ReaderShape' /\ StreamInv'
<1>1. /\ reader \in StreamReaders /\ ~ reader.over /\ reader.pc = "sleep"
      /\ reader.kind = "stream"
      /\ UNCHANGED <<st, claims, tasks>>
      /\ st[Inv] \in Statuses /\ claims \in Nat
  BY KindsAreApart DEF Poll, Streaming, tables, Tables
<1>2. Completed' = Completed
  BY <1>1 DEF Completed
<1>3. CASE Follows("deleted")
  <2>1. reader' = [reader EXCEPT !.over = TRUE]
    BY <1>3 DEF Poll
  <2>2. /\ reader' \in StreamReaders /\ reader'.over /\ reader'.kind = reader.kind
        /\ reader'.pc = reader.pc /\ reader'.status = reader.status
        /\ reader'.claims = reader.claims /\ reader'.told = reader.told
        /\ reader'.asOf = reader.asOf /\ reader'.checks = reader.checks
        /\ reader'.done = reader.done
    BY <1>1, <2>1 DEF StreamReaders
  <2>3. StreamInv'
    BY <1>1, <1>2, <2>2 DEF StreamInv, Rests, Follows
  <2> QED BY <2>2, <2>3 DEF ReaderShape
<1>4. CASE ~ Follows("deleted")
  <2>1. reader' = [reader EXCEPT !.pc = "polled", !.status = st[Inv], !.claims = claims]
    BY <1>4 DEF Poll
  <2>2. /\ reader' \in StreamReaders /\ reader'.kind = reader.kind
        /\ reader'.pc = "polled" /\ reader'.status = st[Inv] /\ reader'.claims = claims
        /\ reader'.told = reader.told /\ reader'.asOf = reader.asOf
        /\ reader'.checks = reader.checks /\ reader'.done = reader.done
        /\ reader'.over = reader.over
    BY <1>1, <2>1 DEF StreamReaders
  <2>3. ~ reader.done
    BY <1>1 DEF StreamInv
  <2>4. st[Inv] \in Terminal => ~ Follows("running")
    BY DEF Terminal, Contract!Terminal, Follows
  <2>5. reader.asOf <= claims
    BY <1>1 DEF StreamInv, StreamReaders
  <2>6. StreamInv'
    BY <1>1, <1>2, <2>2, <2>3, <2>4, <2>5 DEF StreamInv, Rests, Follows
  <2> QED BY <2>2, <2>6 DEF ReaderShape
<1> QED BY <1>3, <1>4

LEMMA TellSends ==
    ASSUME Tables, ReaderShape, StreamInv, Tell
    PROVE  ReaderShape' /\ StreamInv'
<1>1. /\ reader \in StreamReaders /\ ~ reader.over /\ reader.pc = "polled"
      /\ reader.kind = "stream"
      /\ UNCHANGED <<st, claims, tasks>> /\ tasks \in Seq(TaskStates)
  BY KindsAreApart DEF Tell, Streaming, tables, Tables
<1>2. Completed' = Completed
  BY <1>1 DEF Completed
<1>3. PICK running \in Running :
         reader' = [reader EXCEPT
              !.pc = "sleep",
              !.told = IF Changed(running) THEN Progress(reader.status, running) ELSE @,
              !.asOf = IF Changed(running) THEN reader.claims ELSE @,
              !.checks = Checks(running),
              !.done = Checks(running) = 2, !.over = Checks(running) = 2]
  BY DEF Tell
<1>4. running \in Nat
  BY <1>1 DEF Running
<1>5. /\ Completed \in Nat /\ Completed <= Len(tasks) /\ Len(tasks) \in Nat
  BY <1>1, CountIsOfTasks
<1>6. /\ Progress(reader.status, running) \in Told
      /\ Progress(reader.status, running).status = reader.status
      /\ Progress(reader.status, running).completed = Completed
      /\ Progress(reader.status, running).total = Len(tasks)
  BY <1>1, <1>4, <1>5 DEF Progress, Told, StreamReaders
<1>7. /\ Checks(running) \in Nat /\ (Checks(running) = 2 => reader.status \in Terminal)
      /\ Checks(running) # 2 => Checks(running) < 2
  <2>1. reader.checks \in Nat /\ reader.checks < 2
    BY <1>1 DEF StreamInv, StreamReaders
  <2> QED BY <2>1 DEF Checks
<1>8. /\ reader' \in StreamReaders /\ reader'.kind = reader.kind
      /\ reader'.pc = "sleep" /\ reader'.status = reader.status
      /\ reader'.claims = reader.claims /\ reader'.checks = Checks(running)
      /\ reader'.done = (Checks(running) = 2) /\ reader'.over = (Checks(running) = 2)
      /\ reader'.told = IF Changed(running) THEN Progress(reader.status, running)
                        ELSE reader.told
      /\ reader'.asOf = IF Changed(running) THEN reader.claims ELSE reader.asOf
  BY <1>1, <1>3, <1>6, <1>7 DEF StreamReaders
<1>9. reader'.told.status = reader.status
  BY <1>6, <1>8 DEF Changed
<1>10. /\ reader'.asOf <= reader.claims /\ reader.claims <= claims
       /\ reader'.told.completed <= reader'.told.total
       /\ reader'.told.total <= Len(tasks) \/ Follows("deleted")
  BY <1>1, <1>5, <1>6, <1>8 DEF StreamInv, StreamReaders
<1>11. reader'.told.status \in Terminal =>
          /\ Rests(reader'.asOf)
          /\ claims = reader'.asOf /\ Len(tasks) = reader'.told.total =>
                reader'.told.completed = Completed
  <2>1. CASE Changed(running)
    BY <1>1, <1>6, <1>8, <1>9, <2>1 DEF StreamInv
  <2>2. CASE ~ Changed(running)
    BY <1>1, <1>8, <2>2 DEF StreamInv
  <2> QED BY <2>1, <2>2
<1>12. StreamInv'
  BY <1>1, <1>2, <1>7, <1>8, <1>9, <1>10, <1>11 DEF StreamInv, Rests, Follows
<1> QED BY <1>8, <1>12 DEF ReaderShape

\* the count moves only while an execution runs, and then it was claimed later
LEMMA WritersLeaveStreams ==
    ASSUME Tables, Tables', Kept, reader' = reader, ReaderShape, StreamInv
    PROVE  StreamInv'
<1> SUFFICES ASSUME reader.kind = "stream"
             PROVE  StreamInv'
  BY DEF StreamInv
<1>1. /\ reader.asOf \in Nat /\ reader.claims \in Nat /\ claims \in Nat /\ claims' \in Nat
      /\ reader.told.total \in Nat /\ reader.told.completed \in Nat
      /\ Len(tasks) \in Nat /\ Len(tasks') \in Nat
  BY KindsAreApart DEF StreamReaders, Told, Tables
<1>2. reader.claims <= claims'
  BY <1>1 DEF StreamInv, Kept
<1>3. \A count \in Nat : count <= claims /\ Rests(count) => Rests(count)'
  BY <1>1 DEF Rests, Kept
<1>4. reader.told.total <= Len(tasks') \/ Follows("deleted")'
  BY <1>1 DEF StreamInv, Kept
<1>5. ASSUME reader.told.status \in Terminal, claims' = reader.asOf,
             Len(tasks') = reader.told.total
      PROVE  reader.told.completed = Completed'
  <2>1. claims' = claims /\ ~ Follows("running")
    BY <1>1, <1>5 DEF StreamInv, Kept, Rests
  <2>2. CASE Len(tasks') = Len(tasks)
    BY <1>5, <2>1, <2>2 DEF StreamInv, Kept
  <2>3. CASE Len(tasks') # Len(tasks)
    <3>1. Follows("deleted")'
      BY <1>1, <1>5, <2>3 DEF StreamInv, Kept
    <3>2. tasks' = <<>>
      BY <3>1 DEF Tables
    <3>3. Len(tasks') = 0 /\ Completed' = 0
      <4>1. {k \in DOMAIN tasks' : tasks'[k] = "succeeded"} = {}
        BY <3>2
      <4> QED BY <3>2, <4>1, FS_EmptySet DEF Completed
    <3> QED BY <1>1, <1>5, <3>2, <3>3 DEF StreamInv
  <2> QED BY <2>2, <2>3
<1>6. Rests(reader.claims) => Rests(reader.claims)'
  BY <1>1, <1>3 DEF StreamInv
<1>7. Rests(reader.asOf) => Rests(reader.asOf)'
  <2>1. reader.asOf <= claims
    BY <1>1 DEF StreamInv
  <2> QED BY <1>1, <1>3, <2>1
<1> QED BY <1>2, <1>4, <1>5, <1>6, <1>7 DEF StreamInv

-----------------------------------------------------------------------------
(* The theorems *)

ReadersInv ==
    /\ Tables /\ ReaderShape
    /\ PagesInv /\ DetailInv /\ ProvenanceInv /\ StreamInv

LEMMA ReadersStart ==
    Init => ReadersInv
<1> SUFFICES ASSUME Init PROVE ReadersInv
  OBVIOUS
<1>1. <<>> \in Seq(TaskStates) /\ <<>> \in Seq(Rows) /\ <<>> \in Seq(Parts)
      /\ Len(<<>>) = 0
  OBVIOUS
<1>2. /\ st[Inv] = "created" /\ tasks = <<>> /\ evidence = {} /\ hypotheses = {}
      /\ busy = {} /\ gaps = {} /\ claims = 0 /\ findings = 0 /\ report = FALSE
      /\ st = [i \in {Inv} |-> "created"]
  BY DEF Init
<1>3. Tables
  BY <1>1, <1>2 DEF Tables, Statuses, Follows
<1>4. CASE reader.kind \in {"pages", "all"}
  <2>1. /\ reader.cursor = <<>> /\ reader.got = <<>> /\ reader.first = {}
        /\ ~ reader.cut /\ ~ reader.over /\ reader.limit \in Nat \ {0}
        /\ reader \in PageReaders
    <3>1. PICK n \in Nat \ {0}, k \in {"pages", "all"} :
             reader = [kind |-> k, limit |-> n, cursor |-> <<>>, got |-> <<>>,
                       first |-> {}, cut |-> FALSE, over |-> FALSE]
      BY <1>4, ReadersAssumption DEF Init, Clients, ReadersAssumption
    <3>2. {} \in SUBSET Rows /\ <<>> \in Rows \union {<<>>} /\ FALSE \in BOOLEAN
      OBVIOUS
    <3> QED BY <1>1, <3>1, <3>2 DEF PageReaders
  <2>2. Ascending(reader.got)
    BY <1>1, <2>1 DEF Ascending
  <2>3. PagesInv
    BY <1>1, <2>1, <2>2 DEF PagesInv
  <2> QED BY <1>3, <1>4, <2>1, <2>3
             DEF ReadersInv, ReaderShape, DetailInv, ProvenanceInv, StreamInv
<1>5. CASE reader.kind \in {"detail", "provenance"}
  <2>1. /\ reader.answer = <<>> /\ ~ reader.over /\ reader.asOf = 0
        /\ reader \in DetailReaders \union ProvenanceReaders
    <3>1. \/ reader = [kind |-> "detail", answer |-> <<>>, asOf |-> 0, over |-> FALSE]
          \/ \E r \in Rows : reader = [kind |-> "provenance", asked |-> r,
                                       answer |-> <<>>, asOf |-> 0, over |-> FALSE]
      BY <1>5 DEF Init, Clients
    <3>2. CASE reader = [kind |-> "detail", answer |-> <<>>, asOf |-> 0, over |-> FALSE]
      BY <1>1, <3>2 DEF DetailReaders
    <3>3. ASSUME NEW r \in Rows,
                 reader = [kind |-> "provenance", asked |-> r, answer |-> <<>>,
                           asOf |-> 0, over |-> FALSE]
          PROVE  /\ reader.answer = <<>> /\ ~ reader.over /\ reader.asOf = 0
                 /\ reader \in ProvenanceReaders
      BY <1>1, <3>3 DEF ProvenanceReaders
    <3> QED BY <3>1, <3>2, <3>3
  <2>2. PartsInv(4) /\ PartsInv(6)
    BY <1>1, <2>1 DEF PartsInv
  <2>3. DetailInv /\ ProvenanceInv
    BY <1>1, <1>2, <2>1, <2>2 DEF DetailInv, ProvenanceInv, Finished
  <2> QED BY <1>3, <1>5, <2>1, <2>3 DEF ReadersInv, ReaderShape, PagesInv, StreamInv
<1>6. CASE reader.kind = "stream"
  <2>1. reader = [kind |-> "stream", pc |-> "sleep", status |-> "none", claims |-> 0,
                  told |-> [status |-> "none", running |-> 0, completed |-> 0, total |-> 0],
                  asOf |-> 0, checks |-> 0, done |-> FALSE, over |-> FALSE]
    BY <1>6 DEF Init, Clients
  <2>2. reader \in StreamReaders
    BY <2>1 DEF StreamReaders, Told
  <2>3. "none" \notin Terminal
    BY DEF Terminal, Contract!Terminal
  <2>4. StreamInv
    BY <1>1, <1>2, <2>1, <2>3 DEF StreamInv
  <2> QED BY <1>3, <1>6, <2>2, <2>4
             DEF ReadersInv, ReaderShape, PagesInv, DetailInv, ProvenanceInv
<1>7. reader.kind \in Kinds
  BY DEF Init, Clients, Kinds
<1> QED BY <1>4, <1>5, <1>6, <1>7 DEF Kinds

LEMMA ReadersStep ==
    ReadersInv /\ [Next]_vars => ReadersInv'
<1> SUFFICES ASSUME ReadersInv, [Next]_vars PROVE ReadersInv'
  OBVIOUS
<1> USE DEF ReadersInv
<1>1. CASE Writer
  <2>1. Tables' /\ Kept /\ reader' = reader
    BY <1>1, WritersKeep
  <2>2. ReaderShape'
    BY <2>1 DEF ReaderShape
  <2> QED BY <2>1, <2>2, WritersLeavePages, WritersLeaveAnswers, WritersLeaveStreams
<1>2. ASSUME UNCHANGED <<st, busy, claims, tables>>
      PROVE  Tables' /\ Kept
  BY <1>2, ReadersKeep
<1>3. CASE Turn \/ Cut
  <2>1. Tables'
    BY <1>2, <1>3 DEF Turn, Cut
  <2>2. ReaderShape' /\ PagesInv'
    BY <1>3, TurnReads, CutReads
  <2>3. reader.kind \in {"pages", "all"} /\ reader'.kind = reader.kind
    BY <1>3, KindsAreApart DEF Turn, Cut, Paging, PageReaders
  <2> QED BY <2>1, <2>2, <2>3 DEF DetailInv, ProvenanceInv, StreamInv
<1>4. CASE Select \/ NotFound
  <2>1. Tables'
    BY <1>2, <1>4 DEF Select, NotFound
  <2>2. reader.kind \in {"detail", "provenance"} /\ reader'.kind = reader.kind
    BY <1>4, KindsAreApart
       DEF Select, NotFound, Asking, DetailReaders, ProvenanceReaders
  <2>3. ReaderShape' /\ DetailInv' /\ ProvenanceInv'
    <3>1. CASE NotFound
      BY <3>1, NotFoundAnswers
    <3>2. CASE Select /\ reader.kind = "detail"
      BY <2>2, <3>2, SelectReadsDetail DEF ProvenanceInv
    <3>3. CASE Select /\ reader.kind = "provenance"
      BY <2>2, <3>3, SelectReadsProvenance DEF DetailInv
    <3> QED BY <1>4, <2>2, <3>1, <3>2, <3>3
  <2> QED BY <2>1, <2>2, <2>3 DEF PagesInv, StreamInv
<1>5. CASE Poll \/ Tell
  <2>1. Tables'
    BY <1>2, <1>5 DEF Poll, Tell
  <2>2. ReaderShape' /\ StreamInv'
    BY <1>5, PollAsks, TellSends
  <2>3. reader.kind = "stream" /\ reader'.kind = reader.kind
    BY <1>5, KindsAreApart DEF Poll, Tell, Streaming, StreamReaders
  <2> QED BY <2>1, <2>2, <2>3 DEF PagesInv, DetailInv, ProvenanceInv
<1>6. CASE UNCHANGED vars
  <2>1. Tables' /\ Kept /\ reader' = reader
    BY <1>2, <1>6 DEF vars
  <2>2. ReaderShape'
    BY <2>1 DEF ReaderShape
  <2> QED BY <2>1, <2>2, WritersLeavePages, WritersLeaveAnswers, WritersLeaveStreams
<1> QED BY <1>1, <1>3, <1>4, <1>5, <1>6 DEF Next, Reader

(* Whatever is written between two reads, the tables and the part of an answer that
   is read fit each other: the inductive invariant of the readers. *)
THEOREM ReadersHold == Spec => []ReadersInv
BY ReadersStart, ReadersStep, PTL DEF Spec

(* A client that follows the cursors, and an agent that reads up to its cap, get the
   rows in order, none twice and, unless cut off with the cap filled, none missed, for
   any rows, any page size and any cap, however many are committed meanwhile. *)
THEOREM NoRowIsSkipped == Spec => []ReadsSkipNothing
<1>1. ReadersInv => ReadsSkipNothing
  <2> SUFFICES ASSUME ReadersInv, reader.kind \in {"pages", "all"}
               PROVE  /\ \A k \in 1..(Len(reader.got) - 1) :
                            Before(reader.got[k], reader.got[k + 1])
                      /\ reader.over /\ ~reader.cut =>
                            reader.first \intersect evidence \subseteq ToSet(reader.got)
                      /\ reader.cut => Len(reader.got) = reader.limit
    BY DEF ReadsSkipNothing
  <2>1. reader.got \in Seq(Rows) /\ Len(reader.got) \in Nat
    BY KindsAreApart DEF ReadersInv, PageReaders
  <2>2. ASSUME NEW k \in 1..(Len(reader.got) - 1)
        PROVE  Before(reader.got[k], reader.got[k + 1])
    <3>1. k \in 1..Len(reader.got) /\ k + 1 \in 1..Len(reader.got) /\ k < k + 1
      BY <2>1
    <3> QED BY <3>1 DEF ReadersInv, PagesInv, Ascending
  <2>3. ToSet(reader.got) = Listed(reader.got)
    BY <2>1 DEF ToSet, Listed
  <2> QED BY <2>2, <2>3 DEF ReadersInv, PagesInv
<1> QED BY <1>1, ReadersHold, PTL

\* an answer that is complete has each of its tables once
LEMMA AnswerIsThePart ==
    ASSUME ReaderShape, reader.kind \in {"detail", "provenance"},
           NEW count \in Nat, PartsInv(count), Len(reader.answer) = count,
           \A k, l \in 1..count : Selects(reader.kind)[k] = Selects(reader.kind)[l] => k = l
    PROVE  \A k \in 1..count : Answer(Selects(reader.kind)[k]) = reader.answer[k].rows
<1> TAKE k \in 1..count
<1> DEFINE parts == {l \in DOMAIN reader.answer :
                        reader.answer[l].table = Selects(reader.kind)[k]}
<1>1. DOMAIN reader.answer = 1..count
  BY KindsAreApart DEF DetailReaders, ProvenanceReaders
<1>2. parts = {k}
  BY <1>1 DEF PartsInv
<1>3. (CHOOSE l \in parts : TRUE) = k
  BY <1>2
<1> QED BY <1>3 DEF Answer

(* Details that call an investigation finished are its final record unless it was
   started again, every hypothesis that details list comes with its evidence, and the
   gaps of a provenance chain are those of the record, whatever agents commit between
   the SELECTs, unless it was purged. *)
THEOREM AnswersFit == Spec => []AnswersHangTogether
<1>1. ReadersInv => AnswersHangTogether
  <2> SUFFICES ASSUME ReadersInv, ~ Follows("deleted")
               PROVE  /\ Answered("detail") =>
                            /\ Answer("investigations") \in Terminal /\ claims = reader.asOf =>
                                  <<Answer("findings"), Answer("reports"),
                                    Answer("hypotheses"), Answer("hypothesis_gaps")>> = Record
                            /\ \A h \in Answer("hypotheses") : \A r \in Cites[h] :
                                  <<h, r>> \in Answer("hypothesis_evidence")
                      /\ Answered("provenance") =>
                            \A t \in {"tool_runs", "artifacts", "agent_runs"} :
                                reader.asked \in Answer(t) <=> t \in Origin[reader.asked]
    BY DEF AnswersHangTogether
  <2>1. ASSUME Answered("detail")
        PROVE  /\ Answer("investigations") \in Terminal /\ claims = reader.asOf =>
                     <<Answer("findings"), Answer("reports"), Answer("hypotheses"),
                       Answer("hypothesis_gaps")>> = Record
               /\ \A h \in Answer("hypotheses") : \A r \in Cites[h] :
                     <<h, r>> \in Answer("hypothesis_evidence")
    <3>1. reader.kind = "detail" /\ PartsInv(6) /\ Len(reader.answer) = 6
      BY <2>1 DEF Answered, ReadersInv, DetailInv, PartsInv
    <3>2. \A k \in 1..6 : k \in {1, 2, 3, 4, 5, 6}
      OBVIOUS
    <3>3. \A k, l \in 1..6 : Selects("detail")[k] = Selects("detail")[l] => k = l
      BY <3>2, DetailSelects
    <3>4. \A k \in 1..6 : Answer(Selects("detail")[k]) = reader.answer[k].rows
      BY <3>1, <3>3, AnswerIsThePart DEF ReadersInv
    <3>5. /\ Answer("investigations") = reader.answer[1].rows
          /\ Answer("findings") = reader.answer[2].rows
          /\ Answer("reports") = reader.answer[3].rows
          /\ Answer("hypotheses") = reader.answer[4].rows
          /\ Answer("hypothesis_evidence") = reader.answer[5].rows
          /\ Answer("hypothesis_gaps") = reader.answer[6].rows
      <4>1. /\ 1 \in 1..6 /\ 2 \in 1..6 /\ 3 \in 1..6 /\ 4 \in 1..6 /\ 5 \in 1..6
            /\ 6 \in 1..6
        OBVIOUS
      <4> QED BY <3>4, <4>1, DetailSelects, Zenon
    <3>6. 6 >= 1 /\ 6 >= 2 /\ 6 >= 3 /\ 6 >= 4 /\ 6 >= 5 /\ 6 >= 6
      OBVIOUS
    <3>7. ASSUME Answer("investigations") \in Terminal, claims = reader.asOf
          PROVE  <<Answer("findings"), Answer("reports"), Answer("hypotheses"),
                   Answer("hypothesis_gaps")>> = Record
      <4>1. Finished(reader.answer)
        BY <3>1, <3>5, <3>6, <3>7, Zenon DEF Finished
      <4>2. Matches(reader.answer)
        BY <3>1, <4>1, Zenon DEF ReadersInv, DetailInv
      <4>3. /\ Answer("findings") = findings /\ Answer("reports") = report
            /\ Answer("hypotheses") = hypotheses /\ Answer("hypothesis_gaps") = gaps
        BY <3>1, <3>5, <3>6, <4>2, Zenon DEF Matches
      <4> QED BY <4>3, Zenon DEF Record
    <3>8. \A h \in Answer("hypotheses") : \A r \in Cites[h] :
             <<h, r>> \in Answer("hypothesis_evidence")
      BY <3>1, <3>5, <3>6 DEF ReadersInv, DetailInv
    <3> QED BY <3>7, <3>8
  <2>2. ASSUME Answered("provenance"), NEW t \in {"tool_runs", "artifacts", "agent_runs"}
        PROVE  reader.asked \in Answer(t) <=> t \in Origin[reader.asked]
    <3>1. reader.kind = "provenance" /\ PartsInv(4) /\ Len(reader.answer) = 4
      BY <2>2 DEF Answered, ReadersInv, ProvenanceInv, PartsInv
    <3>2. \A k \in 1..4 : k \in {1, 2, 3, 4}
      OBVIOUS
    <3>3. \A k, l \in 1..4 : Selects("provenance")[k] = Selects("provenance")[l] => k = l
      BY <3>2, ProvenanceSelects
    <3>4. \A k \in 1..4 : Answer(Selects("provenance")[k]) = reader.answer[k].rows
      BY <3>1, <3>3, AnswerIsThePart DEF ReadersInv
    <3>5. PICK k \in 2..4 : t = Selects("provenance")[k]
      <4>1. 2 \in 2..4 /\ 3 \in 2..4 /\ 4 \in 2..4
        OBVIOUS
      <4> QED BY <4>1, ProvenanceSelects
    <3>6. k \in 1..4
      OBVIOUS
    <3>7. Answer(t) = reader.answer[k].rows
      BY <3>4, <3>5, <3>6
    <3> QED BY <3>1, <3>5, <3>7 DEF ReadersInv, ProvenanceInv
  <2> QED BY <2>1, <2>2
<1> QED BY <1>1, ReadersHold, PTL

(* A stream that says done has told that status, a finished one, and its last count of
   completed tasks is the true one unless the investigation was started again or given
   another task: for any number of executions and tasks. *)
THEOREM StreamsTellTheEnd == Spec => []DoneIsTold
<1>1. ReadersInv => DoneIsTold
  BY DEF ReadersInv, DoneIsTold, StreamInv
<1> QED BY <1>1, ReadersHold, PTL
=============================================================================
