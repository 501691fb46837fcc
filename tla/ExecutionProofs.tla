-------------------------- MODULE ExecutionProofs --------------------------
(***************************************************************************)
(* Proofs about Execution for every set of agents, every order of them,    *)
(* every limit and every sequence of proposals.                            *)
(***************************************************************************)
EXTENDS Execution, TLAPS

----------------------------------------------------------------------------
(* The operators the plans are made of.                                    *)

\* A prefix of a sequence is one over the same set, no longer than asked for.
LEMMA TakeIsPrefix ==
  ASSUME NEW S, NEW s \in Seq(S), NEW n \in Nat
  PROVE  /\ Take(s, n) \in Seq(S)
         /\ Len(Take(s, n)) <= n
         /\ Len(Take(s, n)) <= Len(s)
<1> DEFINE m == IF n < Len(s) THEN n ELSE Len(s)
<1>1. m \in Nat /\ m <= n /\ m <= Len(s) OBVIOUS
<1>2. SubSeq(s, 1, m) \in Seq(S) /\ Len(SubSeq(s, 1, m)) = m BY <1>1
<1> QED BY <1>1, <1>2 DEF Take

\* What is kept of a sequence is a sequence over the same set.
LEMMA KeptIsSequence ==
  ASSUME NEW S, NEW s \in Seq(S), NEW K, K \subseteq DOMAIN s, NEW new \in Kept(s, K)
  PROVE  new \in Seq(S)
<1>1. PICK n \in 0..Len(s) : \E f \in [1..n -> K] : new = [k \in DOMAIN f |-> s[f[k]]]
  BY DEF Kept
<1>2. PICK f \in [1..n -> K] : new = [k \in DOMAIN f |-> s[f[k]]] BY <1>1
<1>3. \A k \in 1..n : s[f[k]] \in S BY <1>2
<1>4. new \in [1..n -> S] BY <1>2, <1>3
<1> QED BY <1>4

LEMMA NumbersAreTasks == Triage \in Agents /\ Report \in Agents /\ LastNo \in Nat
  BY DEF Agents, LastNo

LEMMA InitialPlansAreTasks ==
  ASSUME NEW p, NEW plan \in InitialPlans(p)
  PROVE  plan \in Seq(Tasks) /\ Len(plan) <= MaxTasks
<1>1. CASE p = "dynamic"
  <2>1. plan = <<Task(1, Triage)>> BY <1>1 DEF InitialPlans
  <2>2. Task(1, Triage) \in Tasks BY NumbersAreTasks DEF Task, Tasks
  <2> QED BY <2>1, <2>2, ExecutionAssumption
<1>2. CASE p # "dynamic"
  <2>1. PICK wanted \in SUBSET Optional : \E names \in Chosen(wanted) :
          plan = Take(Numbered(p, names), MaxTasks)
    BY <1>2 DEF InitialPlans
  <2>2. PICK names \in Chosen(wanted) : plan = Take(Numbered(p, names), MaxTasks) BY <2>1
  <2>3. names \in Seq(Agents)
    <3> DEFINE K == {k \in DOMAIN Order : Order[k] \notin Optional \ wanted}
    <3>1. K \subseteq DOMAIN Order /\ names \in Kept(Order, K) BY <2>2 DEF Chosen
    <3>2. Order \in Seq(Agents) BY ExecutionAssumption
    <3> HIDE DEF K
    <3> QED BY <3>1, <3>2, KeptIsSequence
  <2>4. Numbered(p, names) \in Seq(Tasks)
    <3>1. \A k \in DOMAIN names :
            Task(IF p = "static" /\ names[k] = Report THEN LastNo ELSE k, names[k]) \in Tasks
      BY <2>3, NumbersAreTasks DEF Task, Tasks
    <3>2. Numbered(p, names) \in [1..Len(names) -> Tasks] BY <2>3, <3>1 DEF Numbered
    <3> QED BY <2>3, <3>2
  <2> QED BY <2>2, <2>4, TakeIsPrefix, ExecutionAssumption
<1> QED BY <1>1, <1>2

LEMMA ProposedAreTasks ==
  ASSUME NEW proposals \in Proposals
  PROVE  Proposed(proposals) \in Seq(Tasks)
<1> DEFINE numbered == [k \in DOMAIN proposals |-> Task(k + 1, proposals[k])]
<1>1. PICK n \in 0..MaxProposals : proposals \in [1..n -> Agents \ {Triage}]
  BY DEF Proposals
<1>2. n \in Nat BY ExecutionAssumption
<1>3. \A k \in 1..n : Task(k + 1, proposals[k]) \in Tasks BY <1>1, <1>2 DEF Task, Tasks
<1>4. numbered \in [1..n -> Tasks] BY <1>1, <1>3
<1>5. numbered \in Seq(Tasks) BY <1>2, <1>4
<1>6. Task(LastNo, Report) \in Tasks BY NumbersAreTasks DEF Task, Tasks
<1>7. Append(numbered, Task(LastNo, Report)) \in Seq(Tasks) BY <1>5, <1>6
<1> QED BY <1>5, <1>7 DEF Proposed

LEMMA FollowUpsAreTasks ==
  ASSUME tasks \in Seq(Tasks), WithinTaskLimit,
         NEW proposals \in Proposals, NEW new \in FollowUps(proposals)
  PROVE  new \in Seq(Tasks) /\ Len(new) <= MaxTasks - Len(tasks)
<1> DEFINE created == Proposed(proposals)
           K == {k \in DOMAIN created : created[k].agent \notin Scheduled}
<1>1. created \in Seq(Tasks) BY ProposedAreTasks
<1>2. PICK fresh \in Kept(created, K) : new = Take(fresh, MaxTasks - Len(tasks))
  BY DEF FollowUps, Fresh
<1>3. K \subseteq DOMAIN created OBVIOUS
<1> HIDE DEF created, K
<1>4. fresh \in Seq(Tasks) BY <1>1, <1>2, <1>3, KeptIsSequence
<1>5. MaxTasks - Len(tasks) \in Nat BY ExecutionAssumption DEF WithinTaskLimit
<1> QED BY <1>2, <1>4, <1>5, TakeIsPrefix

LEMMA PendingAreRows ==
  ASSUME NEW ts \in Seq(Tasks)
  PROVE  Pending(ts) \in Seq(Row)
<1>1. \A k \in 1..Len(ts) : [task |-> ts[k], st |-> "pending"] \in Row BY DEF Row, TaskStatus
<1>2. Pending(ts) \in [1..Len(ts) -> Row] BY <1>1 DEF Pending
<1>3. Len(ts) \in Nat OBVIOUS
<1> HIDE DEF Pending
<1> QED BY <1>2, <1>3

----------------------------------------------------------------------------
(* Types.                                                                  *)

\* Where the loop stands in the plan, and how many outcomes it has.
Position ==
  /\ pc = "begin" => idx = 1 /\ outcomes = <<>> /\ tasks = <<>> /\ ~halted
  /\ pc \in {"loop", "agent", "close"} => Len(outcomes) = idx - 1
  /\ pc = "follow" => Len(outcomes) = idx
  /\ pc \in {"agent", "close", "follow"} => idx <= Len(tasks)
  /\ pc \in {"agent", "close"} => Len(runs) > 0
  /\ pc = "close" => result # "none"

TypeInv == TypeOK /\ WithinTaskLimit /\ Position

LEMMA Empty == \A S : <<>> \in Seq(S) /\ Len(<<>>) = 0
OBVIOUS

LEMMA TypeInit == Init => TypeInv
<1> SUFFICES ASSUME Init PROVE TypeInv
  OBVIOUS
<1>1. TypeOK
  <2>1. tasks \in Seq(Tasks) /\ rows \in Seq(Row) /\ runs \in Seq(Run)
        /\ outcomes \in Seq(RunStatus \ {"running"})
    BY Empty DEF Init
  <2>2. idx \in 1..(Len(tasks) + 1) BY <2>1 DEF Init
  <2>3. attempt \in 0..MaxAttempts BY ExecutionAssumption DEF Init
  <2> QED BY <2>1, <2>2, <2>3 DEF Init, TypeOK
<1>2. WithinTaskLimit BY Empty, ExecutionAssumption DEF Init, WithinTaskLimit
<1>3. Position BY DEF Init, Position
<1> QED BY <1>1, <1>2, <1>3 DEF TypeInv

LEMMA TypeStart == TypeInv /\ (Create \/ Claim) => TypeInv'
<1>1. TypeInv /\ Create => TypeInv'
  BY DEF Create, TypeInv, TypeOK, WithinTaskLimit, Position, Busy, attemptVars, loopVars
<1>2. ASSUME TypeInv, Claim PROVE TypeInv'
  <2>1. TypeOK'
    <3>1. tasks' \in Seq(Tasks) /\ outcomes' \in Seq(RunStatus \ {"running"})
      BY <1>2, Empty DEF Claim
    <3>2. idx' \in 1..(Len(tasks') + 1) BY <1>2, <3>1 DEF Claim
    <3>3. attempt' \in 0..MaxAttempts
      BY <1>2, ExecutionAssumption DEF Claim, TypeInv, TypeOK
    <3> QED BY <1>2, <3>1, <3>2, <3>3 DEF Claim, TypeInv, TypeOK, Busy
  <2>2. WithinTaskLimit' BY <1>2, Empty, ExecutionAssumption DEF Claim, WithinTaskLimit
  <2>3. Position' BY <1>2 DEF Claim, Position
  <2> QED BY <2>1, <2>2, <2>3 DEF TypeInv
<1> QED BY <1>1, <1>2

LEMMA TypeBegin == TypeInv /\ Begin => TypeInv'
<1> SUFFICES ASSUME TypeInv, Begin PROVE TypeInv'
  OBVIOUS
<1>1. PICK plan \in InitialPlans(planner') : tasks' = plan /\ rows' = rows \o Pending(plan)
  BY DEF Begin
<1>2. plan \in Seq(Tasks) /\ Len(plan) <= MaxTasks BY InitialPlansAreTasks
<1>3. Pending(plan) \in Seq(Row) BY <1>2, PendingAreRows
<1>4. rows' \in Seq(Row) BY <1>1, <1>3 DEF TypeInv, TypeOK
<1>5. idx' \in 1..(Len(tasks') + 1) BY <1>1, <1>2 DEF Begin, TypeInv, Position
<1> QED BY <1>1, <1>2, <1>4, <1>5 DEF Begin, TypeInv, TypeOK, WithinTaskLimit, Position, Busy

LEMMA TypeFollow == TypeInv /\ Follow => TypeInv'
<1> SUFFICES ASSUME TypeInv, Follow PROVE TypeInv'
  OBVIOUS
<1>1. PICK proposals \in Proposals : \E new \in FollowUps(proposals) :
        tasks' = tasks \o new /\ rows' = rows \o Pending(new)
  BY DEF Follow
<1>2. PICK new \in FollowUps(proposals) : tasks' = tasks \o new /\ rows' = rows \o Pending(new)
  BY <1>1
<1>3. new \in Seq(Tasks) /\ Len(new) <= MaxTasks - Len(tasks)
  BY FollowUpsAreTasks DEF TypeInv, TypeOK
<1>4. Pending(new) \in Seq(Row) BY <1>3, PendingAreRows
<1>5. rows' \in Seq(Row) BY <1>2, <1>4 DEF TypeInv, TypeOK
<1>6. tasks' \in Seq(Tasks) /\ Len(tasks') = Len(tasks) + Len(new)
  BY <1>2, <1>3 DEF TypeInv, TypeOK
<1>7. Len(tasks') <= MaxTasks BY <1>3, <1>6, ExecutionAssumption DEF TypeInv, TypeOK
<1>8. idx' \in 1..(Len(tasks') + 1)
  BY <1>3, <1>6 DEF Follow, TypeInv, TypeOK, Position
<1>9. Position' BY DEF Follow, TypeInv, TypeOK, Position
<1>10. TypeOK' BY <1>5, <1>6, <1>8 DEF Follow, TypeInv, TypeOK, Busy, attemptVars
<1> QED BY <1>7, <1>9, <1>10 DEF TypeInv, WithinTaskLimit

\* Replacing an element of a sequence.
LEMMA Replaced ==
  ASSUME NEW S, NEW s \in Seq(S), NEW k \in 1..Len(s), NEW v \in S
  PROVE  /\ [s EXCEPT ![k] = v] \in Seq(S)
         /\ Len([s EXCEPT ![k] = v]) = Len(s)
         /\ [s EXCEPT ![k] = v][k] = v
         /\ \A j \in 1..Len(s) : j # k => [s EXCEPT ![k] = v][j] = s[j]
OBVIOUS

\* A row that is updated keeps its shape.
LEMMA SetRowKeepsRows ==
  ASSUME NEW s \in TaskStatus, rows \in Seq(Row), SetRow(s)
  PROVE  rows' \in Seq(Row)
<1>1. PICK k \in DOMAIN rows : rows' = [rows EXCEPT ![k].st = s] BY DEF SetRow
<1>2. k \in 1..Len(rows) /\ rows[k] \in Row BY <1>1
<1>3. [rows[k] EXCEPT !.st = s] \in Row BY <1>2 DEF Row
<1>4. rows' = [rows EXCEPT ![k] = [rows[k] EXCEPT !.st = s]] BY <1>1
<1> QED BY <1>2, <1>3, <1>4, Replaced

\* The last run gets a field set: Close sets the status, a commit sets kept.
LEMMA LastRunChanges ==
  ASSUME TypeInv, Len(runs) > 0,
         NEW r \in Run, runs' = [runs EXCEPT ![Len(runs)] = r]
  PROVE  /\ runs' \in Seq(Run) /\ Len(runs') = Len(runs)
         /\ runs'[Len(runs)] = r
         /\ \A k \in 1..Len(runs) : k # Len(runs) => runs'[k] = runs[k]
<1>1. runs \in Seq(Run) /\ Len(runs) \in 1..Len(runs) BY DEF TypeInv, TypeOK
<1> QED BY <1>1, Replaced

LEMMA CommitKeepsRun ==
  ASSUME TypeInv, AgentCommits
  PROVE  [runs[Len(runs)] EXCEPT !.kept = TRUE] \in Run
<1>1. runs[Len(runs)] \in Run BY DEF AgentCommits, TypeInv, TypeOK, Position
<1> QED BY <1>1 DEF Run

LEMMA CloseKeepsRun ==
  ASSUME TypeInv, Close
  PROVE  /\ result \in {"succeeded", "skipped", "failed"}
         /\ [runs[Len(runs)] EXCEPT !.st = result] \in Run
<1>1. result \in {"succeeded", "skipped", "failed"} BY DEF Close, TypeInv, TypeOK, Position
<1>2. runs[Len(runs)] \in Run BY DEF Close, TypeInv, TypeOK, Position
<1> QED BY <1>1, <1>2 DEF Run, RunStatus

LEMMA RunsGrow ==
  ASSUME TypeInv, NEW s \in RunStatus, idx <= Len(tasks), runs' = Append(runs, AgentRun(s))
  PROVE  /\ runs' \in Seq(Run) /\ Len(runs') = Len(runs) + 1
         /\ \A k \in 1..Len(runs) : runs'[k] = runs[k]
         /\ runs'[Len(runs) + 1] = AgentRun(s)
<1>1. AgentRun(s) \in Run BY DEF TypeInv, TypeOK, AgentRun, Current, Run
<1> QED BY <1>1 DEF TypeInv, TypeOK

LEMMA TypeSkip == TypeInv /\ Skip => TypeInv'
<1> SUFFICES ASSUME TypeInv, Skip PROVE TypeInv'
  OBVIOUS
<1>1. rows' \in Seq(Row) BY SetRowKeepsRows DEF Skip, TypeInv, TypeOK, TaskStatus
<1>2. runs' \in Seq(Run) BY RunsGrow DEF Skip, AtTask, RunStatus
<1>3. outcomes' \in Seq(RunStatus \ {"running"}) /\ Len(outcomes') = Len(outcomes) + 1
  BY DEF Skip, TypeInv, TypeOK, RunStatus
<1> QED BY <1>1, <1>2, <1>3
     DEF Skip, AtTask, TypeInv, TypeOK, WithinTaskLimit, Position, Busy, attemptVars

LEMMA TypeOpen == TypeInv /\ Open => TypeInv'
<1> SUFFICES ASSUME TypeInv, Open PROVE TypeInv'
  OBVIOUS
<1>1. rows' \in Seq(Row) BY SetRowKeepsRows DEF Open, TypeInv, TypeOK, TaskStatus
<1>2. runs' \in Seq(Run) /\ Len(runs') = Len(runs) + 1 BY RunsGrow DEF Open, AtTask, RunStatus
<1>3. Len(runs') > 0 BY <1>2 DEF TypeInv, TypeOK
<1> QED BY <1>1, <1>2, <1>3
     DEF Open, AtTask, TypeInv, TypeOK, WithinTaskLimit, Position, Busy, attemptVars, loopVars

LEMMA TypeAgent == TypeInv /\ (AgentCommits \/ CommitFails \/ AgentFails) => TypeInv'
<1> SUFFICES ASSUME TypeInv, AgentCommits \/ CommitFails \/ AgentFails PROVE TypeInv'
  OBVIOUS
<1>1. result' \in {"succeeded", "skipped", "failed"}
  BY DEF AgentCommits, CommitFails, AgentFails, Returns
<1>2. runs' \in Seq(Run) /\ Len(runs') = Len(runs)
  <2>1. CASE AgentCommits
    BY <2>1, CommitKeepsRun, LastRunChanges DEF AgentCommits, TypeInv, Position
  <2>2. CASE CommitFails \/ AgentFails
    BY <2>2 DEF CommitFails, AgentFails, TypeInv, TypeOK
  <2> QED BY <2>1, <2>2
<1> QED BY <1>1, <1>2
     DEF AgentCommits, CommitFails, AgentFails, TypeInv, TypeOK, WithinTaskLimit, Position, Busy,
         attemptVars, loopVars

LEMMA TypeClose == TypeInv /\ Close => TypeInv'
<1> SUFFICES ASSUME TypeInv, Close PROVE TypeInv'
  OBVIOUS
<1>1. result \in {"succeeded", "skipped", "failed"} BY CloseKeepsRun
<1>2. rows' \in Seq(Row)
  BY SetRowKeepsRows DEF Close, TypeInv, TypeOK, TaskStatus
<1>3. runs' \in Seq(Run)
  BY CloseKeepsRun, LastRunChanges DEF Close, TypeInv, Position
<1>4. outcomes' \in Seq(RunStatus \ {"running"}) /\ Len(outcomes') = Len(outcomes) + 1
  BY <1>1 DEF Close, TypeInv, TypeOK, RunStatus
<1> QED BY <1>1, <1>2, <1>3, <1>4
     DEF Close, TypeInv, TypeOK, WithinTaskLimit, Position, Busy, attemptVars

LEMMA DeriveIsTerminal == halted \in BOOLEAN => Derive \in Terminal
BY DEF Derive, Terminal

LEMMA TypeEnd ==
  TypeInv /\ (Expire \/ Finish \/ Cancelled \/ Raised \/ Kill \/ Recover) => TypeInv'
BY DeriveIsTerminal
   DEF Expire, Finish, Cancelled, Raised, BreakOff, Kill, Recover, TypeInv, TypeOK, WithinTaskLimit,
       Position, Busy, Terminal, attemptVars, loopVars

LEMMA TypeStep == TypeInv /\ [Next]_vars => TypeInv'
<1>1. TypeInv /\ UNCHANGED vars => TypeInv'
  BY DEF vars, attemptVars, loopVars, TypeInv, TypeOK, WithinTaskLimit, Position
<1> QED BY <1>1, TypeStart, TypeBegin, TypeFollow, TypeSkip, TypeOpen, TypeAgent, TypeClose, TypeEnd
     DEF Next, Work

LEMMA TypeInvariant == Spec => []TypeInv
BY TypeInit, TypeStep, PTL DEF Spec

\* Every reachable state of an investigation's attempts is type correct.
THEOREM TypeCorrect == Spec => []TypeOK
BY TypeInvariant, PTL DEF TypeInv

\* No triage and no planner brings more tasks into an attempt than the limit.
THEOREM TaskLimitHolds == Spec => []WithinTaskLimit
BY TypeInvariant, PTL DEF TypeInv
----------------------------------------------------------------------------
(* The execution trace.                                                    *)

\* TraceMatchesOutcomes with what makes it inductive: no run is of an attempt
\* still to come, so that the runs of a new attempt begin where the table ends.
TraceInv ==
  /\ \A k \in 1..Len(runs) : runs[k].attempt <= attempt
  /\ TraceMatchesOutcomes

LEMMA TraceInit == Init => TraceInv
BY DEF Init, TraceInv, TraceMatchesOutcomes, Busy

LEMMA TraceStart == TypeInv /\ TraceInv /\ (Create \/ Claim) => TraceInv'
<1>1. TraceInv /\ Create => TraceInv'
  BY DEF Create, TraceInv, TraceMatchesOutcomes, Before, Opened, Current, Busy, attemptVars, loopVars
<1>2. ASSUME TypeInv, TraceInv, Claim PROVE TraceInv'
  <2>1. /\ Len(runs) \in Nat /\ DOMAIN runs = 1..Len(runs) /\ attempt \in Nat
        /\ \A k \in 1..Len(runs) : runs[k].attempt \in Nat
    <3>1. runs \in Seq(Run) /\ attempt \in Nat BY <1>2, ExecutionAssumption DEF TypeInv, TypeOK
    <3>2. \A k \in 1..Len(runs) : runs[k] \in Run BY <3>1
    <3>3. \A r \in Run : r.attempt \in Nat BY DEF Run
    <3> QED BY <3>1, <3>2, <3>3
  <2>2. /\ runs' = runs /\ pc' = "begin" /\ attempt' = attempt + 1
        /\ outcomes' = <<>> /\ Len(outcomes') = 0
    BY <1>2 DEF Claim
  <2>3. Before' = Len(runs) /\ ~Opened' BY <2>1, <2>2 DEF Before, Opened
  <2>4. \A k \in 1..Len(runs) : runs[k].attempt < attempt + 1
    BY <1>2, <2>1 DEF TraceInv
  <2>5. TraceMatchesOutcomes' BY <2>1, <2>2, <2>3, <2>4 DEF TraceMatchesOutcomes
  <2> QED BY <2>1, <2>2, <2>3, <2>4, <2>5 DEF TraceInv
<1> QED BY <1>1, <1>2

LEMMA TraceBegin == TypeInv /\ TraceInv /\ Begin => TraceInv'
<1> SUFFICES ASSUME TypeInv, TraceInv, Begin PROVE TraceInv'
  OBVIOUS
<1>1. /\ outcomes = <<>> /\ DOMAIN outcomes = {} /\ outcomes' = outcomes
      /\ runs' = runs /\ attempt' = attempt /\ pc = "begin" /\ pc' = "loop"
  BY DEF Begin, TypeInv, Position
<1>2. Before' = Before /\ ~Opened' BY <1>1 DEF Before, Opened
<1> QED BY <1>1, <1>2 DEF TraceInv, TraceMatchesOutcomes, Busy

LEMMA TraceFollow == TypeInv /\ TraceInv /\ Follow => TraceInv'
<1> SUFFICES ASSUME TypeInv, TraceInv, Follow PROVE TraceInv'
  OBVIOUS
<1>1. PICK proposals \in Proposals : \E new \in FollowUps(proposals) : tasks' = tasks \o new
  BY DEF Follow
<1>2. PICK new \in FollowUps(proposals) : tasks' = tasks \o new
  BY <1>1
<1>3. new \in Seq(Tasks) BY FollowUpsAreTasks DEF TypeInv, TypeOK
<1>4. \A k \in 1..Len(tasks) : tasks'[k] = tasks[k]
  BY <1>2, <1>3 DEF TypeInv, TypeOK
<1>5. DOMAIN outcomes = 1..Len(outcomes) /\ Len(outcomes) <= Len(tasks)
      /\ Len(tasks) \in Nat /\ Len(outcomes) \in Nat
  BY DEF Follow, TypeInv, TypeOK, Position
<1>6. \A k \in DOMAIN outcomes : tasks'[k] = tasks[k] BY <1>4, <1>5
<1>7. /\ outcomes' = outcomes /\ runs' = runs /\ attempt' = attempt
      /\ pc = "follow" /\ pc' = "loop"
  BY DEF Follow, attemptVars
<1>8. Before' = Before /\ ~Opened' BY <1>7 DEF Before, Opened
<1> QED BY <1>6, <1>7, <1>8 DEF TraceInv, TraceMatchesOutcomes, Busy

LEMMA TraceSkip == TypeInv /\ TraceInv /\ Skip => TraceInv'
<1> SUFFICES ASSUME TypeInv, TraceInv, Skip PROVE TraceInv'
  OBVIOUS
<1>1. /\ runs' \in Seq(Run) /\ Len(runs') = Len(runs) + 1
      /\ \A k \in 1..Len(runs) : runs'[k] = runs[k]
      /\ runs'[Len(runs) + 1] = AgentRun("skipped")
  BY RunsGrow DEF Skip, AtTask, RunStatus
<1>2. /\ Len(outcomes') = Len(outcomes) + 1 /\ DOMAIN outcomes' = 1..Len(outcomes')
      /\ \A k \in 1..Len(outcomes) : outcomes'[k] = outcomes[k]
      /\ outcomes'[Len(outcomes) + 1] = "skipped"
  BY DEF Skip, TypeInv, TypeOK
<1>3. /\ Len(runs) \in Nat /\ Len(outcomes) \in Nat /\ idx = Len(outcomes) + 1
      /\ DOMAIN runs = 1..Len(runs) /\ DOMAIN runs' = 1..Len(runs')
      /\ DOMAIN outcomes = 1..Len(outcomes)
  BY <1>1 DEF Skip, AtTask, TypeInv, TypeOK, Position
<1>4. pc = "loop" /\ pc' = "loop" /\ attempt' = attempt /\ tasks' = tasks /\ ~Opened /\ ~Opened'
  BY DEF Skip, AtTask, attemptVars, Opened
<1>5. Before = Len(runs) - Len(outcomes) /\ Before' = Before
  BY <1>1, <1>2, <1>3, <1>4 DEF Before
<1>6. Before >= 0 /\ Before \in Int BY <1>3, <1>4, <1>5 DEF TraceInv, TraceMatchesOutcomes, Busy
<1>7. AgentRun("skipped").attempt = attempt /\ AgentRun("skipped").st = "skipped"
      /\ AgentRun("skipped").task = tasks[idx]
  BY DEF AgentRun, Current
<1>8. \A k \in DOMAIN runs' : runs'[k].attempt = attempt <=> k > Before
  <2> TAKE k \in DOMAIN runs'
  <2>1. CASE k \in 1..Len(runs)
    BY <2>1, <1>1, <1>3, <1>4 DEF TraceInv, TraceMatchesOutcomes, Busy
  <2>2. CASE k = Len(runs) + 1
    BY <2>2, <1>1, <1>3, <1>5, <1>6, <1>7
  <2> QED BY <2>1, <2>2, <1>1, <1>3
<1>9. \A k \in DOMAIN outcomes' :
        runs'[Before + k].st = outcomes'[k] /\ runs'[Before + k].task = tasks[k]
  <2> TAKE k \in DOMAIN outcomes'
  <2>1. CASE k \in 1..Len(outcomes)
    <3>1. Before + k \in 1..Len(runs) BY <2>1, <1>3, <1>5, <1>6
    <3> QED BY <2>1, <3>1, <1>1, <1>2, <1>3, <1>4 DEF TraceInv, TraceMatchesOutcomes, Busy
  <2>2. CASE k = Len(outcomes) + 1
    <3>1. Before + k = Len(runs) + 1 BY <2>2, <1>3, <1>5
    <3> QED BY <2>2, <3>1, <1>1, <1>2, <1>3, <1>7
  <2> QED BY <2>1, <2>2, <1>2, <1>3
<1>10. \A k \in 1..Len(runs') : runs'[k].attempt <= attempt'
  <2>1. attempt \in Nat BY DEF TypeInv, TypeOK
  <2> QED BY <2>1, <1>1, <1>3, <1>4, <1>7 DEF TraceInv
<1> QED BY <1>4, <1>5, <1>6, <1>8, <1>9, <1>10 DEF TraceInv, TraceMatchesOutcomes

LEMMA TraceOpen == TypeInv /\ TraceInv /\ Open => TraceInv'
<1> SUFFICES ASSUME TypeInv, TraceInv, Open PROVE TraceInv'
  OBVIOUS
<1>1. /\ runs' \in Seq(Run) /\ Len(runs') = Len(runs) + 1
      /\ \A k \in 1..Len(runs) : runs'[k] = runs[k]
      /\ runs'[Len(runs) + 1] = AgentRun("running")
  BY RunsGrow DEF Open, AtTask, RunStatus
<1>2. /\ Len(runs) \in Nat /\ Len(outcomes) \in Nat
      /\ DOMAIN runs = 1..Len(runs) /\ DOMAIN runs' = 1..Len(runs')
      /\ DOMAIN outcomes = 1..Len(outcomes)
  BY <1>1 DEF TypeInv, TypeOK
<1>3. /\ pc = "loop" /\ pc' = "agent" /\ attempt' = attempt /\ tasks' = tasks
      /\ outcomes' = outcomes /\ idx' = idx /\ ~Opened /\ Opened'
  BY DEF Open, AtTask, attemptVars, loopVars, Opened
<1>4. Before = Len(runs) - Len(outcomes) /\ Before' = Before
  BY <1>1, <1>2, <1>3 DEF Before
<1>5. Before >= 0 /\ Before \in Int BY <1>2, <1>3, <1>4 DEF TraceInv, TraceMatchesOutcomes, Busy
<1>6. AgentRun("running").attempt = attempt /\ AgentRun("running").st = "running"
      /\ AgentRun("running").task = tasks[idx]
  BY DEF AgentRun, Current
<1>7. \A k \in DOMAIN runs' : runs'[k].attempt = attempt <=> k > Before
  <2> TAKE k \in DOMAIN runs'
  <2>1. CASE k \in 1..Len(runs)
    BY <2>1, <1>1, <1>2, <1>3 DEF TraceInv, TraceMatchesOutcomes, Busy
  <2>2. CASE k = Len(runs) + 1
    BY <2>2, <1>1, <1>2, <1>4, <1>5, <1>6
  <2> QED BY <2>1, <2>2, <1>1, <1>2
<1>8. \A k \in DOMAIN outcomes :
        runs'[Before + k].st = outcomes[k] /\ runs'[Before + k].task = tasks[k]
  <2> TAKE k \in DOMAIN outcomes
  <2>1. Before + k \in 1..Len(runs) BY <1>2, <1>4, <1>5
  <2> QED BY <2>1, <1>1, <1>2, <1>3 DEF TraceInv, TraceMatchesOutcomes, Busy
<1>9. \A k \in 1..Len(runs') : runs'[k].attempt <= attempt'
  <2>1. attempt \in Nat BY DEF TypeInv, TypeOK
  <2> QED BY <2>1, <1>1, <1>2, <1>3, <1>6 DEF TraceInv
<1>10. runs'[Len(runs')].st = "running" /\ runs'[Len(runs')].task = Current'
  BY <1>1, <1>3, <1>6 DEF Current
<1> QED BY <1>3, <1>4, <1>5, <1>7, <1>8, <1>9, <1>10 DEF TraceInv, TraceMatchesOutcomes

LEMMA TraceAgent == TypeInv /\ TraceInv /\ (AgentCommits \/ CommitFails \/ AgentFails) => TraceInv'
<1> SUFFICES ASSUME TypeInv, TraceInv, AgentCommits \/ CommitFails \/ AgentFails PROVE TraceInv'
  OBVIOUS
<1>1. /\ pc = "agent" /\ pc' = "close" /\ attempt' = attempt /\ tasks' = tasks
      /\ outcomes' = outcomes /\ idx' = idx /\ Opened /\ Opened'
  BY DEF AgentCommits, CommitFails, AgentFails, attemptVars, loopVars, Opened
<1>2. /\ Len(runs') = Len(runs) /\ Len(runs) \in Nat
      /\ DOMAIN runs = 1..Len(runs) /\ DOMAIN runs' = 1..Len(runs')
      /\ \A k \in 1..Len(runs) : /\ runs'[k].st = runs[k].st
                                 /\ runs'[k].task = runs[k].task
                                 /\ runs'[k].attempt = runs[k].attempt
  <2>1. CASE AgentCommits
    <3> DEFINE r == [runs[Len(runs)] EXCEPT !.kept = TRUE]
    <3>1. runs[Len(runs)] \in Run BY <2>1 DEF AgentCommits, TypeInv, TypeOK, Position
    <3>2. r \in Run /\ r.st = runs[Len(runs)].st /\ r.task = runs[Len(runs)].task
          /\ r.attempt = runs[Len(runs)].attempt
      BY <3>1 DEF Run
    <3>3. Len(runs) > 0 /\ runs' = [runs EXCEPT ![Len(runs)] = r]
      BY <2>1 DEF AgentCommits, TypeInv, Position
    <3> HIDE DEF r
    <3>4. /\ runs' \in Seq(Run) /\ Len(runs') = Len(runs) /\ runs'[Len(runs)] = r
          /\ \A k \in 1..Len(runs) : k # Len(runs) => runs'[k] = runs[k]
      BY <3>2, <3>3, LastRunChanges
    <3>5. runs \in Seq(Run) BY DEF TypeInv, TypeOK
    <3> QED BY <3>2, <3>4, <3>5
  <2>2. CASE CommitFails \/ AgentFails
    BY <2>2 DEF CommitFails, AgentFails, TypeInv, TypeOK
  <2> QED BY <2>1, <2>2
<1>3. Before' = Before BY <1>1, <1>2 DEF Before
<1>4. DOMAIN outcomes = 1..Len(outcomes) /\ Len(outcomes) \in Nat BY DEF TypeInv, TypeOK
<1>5. Before + Len(outcomes) + 1 = Len(runs) /\ Before >= 0 /\ Before \in Int
  BY <1>1, <1>2, <1>4 DEF Before, TraceInv, TraceMatchesOutcomes, Busy
<1>6. \A k \in DOMAIN outcomes : Before + k \in 1..Len(runs) BY <1>2, <1>4, <1>5
<1>7. Len(runs) \in 1..Len(runs) /\ Current' = Current BY <1>1, <1>2, <1>4, <1>5 DEF Current
<1> QED BY <1>1, <1>2, <1>3, <1>5, <1>6, <1>7 DEF TraceInv, TraceMatchesOutcomes, Busy

LEMMA TraceClose == TypeInv /\ TraceInv /\ Close => TraceInv'
<1> SUFFICES ASSUME TypeInv, TraceInv, Close PROVE TraceInv'
  OBVIOUS
<1>1. /\ pc = "close" /\ pc' \in {"follow", "loop"} /\ attempt' = attempt /\ tasks' = tasks
      /\ Opened /\ ~Opened'
  BY DEF Close, attemptVars, Opened
<1>2. /\ Len(outcomes') = Len(outcomes) + 1 /\ DOMAIN outcomes' = 1..Len(outcomes')
      /\ \A k \in 1..Len(outcomes) : outcomes'[k] = outcomes[k]
      /\ outcomes'[Len(outcomes) + 1] = result
      /\ DOMAIN outcomes = 1..Len(outcomes) /\ Len(outcomes) \in Nat
  BY DEF Close, TypeInv, TypeOK
<1> DEFINE r == [runs[Len(runs)] EXCEPT !.st = result]
<1>3. runs[Len(runs)] \in Run BY DEF Close, TypeInv, TypeOK, Position
<1>4. r \in Run /\ r.st = result /\ r.task = runs[Len(runs)].task
      /\ r.attempt = runs[Len(runs)].attempt
  BY <1>3, CloseKeepsRun DEF Run
<1>5. Len(runs) > 0 /\ runs' = [runs EXCEPT ![Len(runs)] = r]
  BY DEF Close, TypeInv, Position
<1> HIDE DEF r
<1>6. /\ runs' \in Seq(Run) /\ Len(runs') = Len(runs) /\ runs'[Len(runs)] = r
      /\ \A k \in 1..Len(runs) : k # Len(runs) => runs'[k] = runs[k]
  BY <1>4, <1>5, LastRunChanges
<1>7. /\ Len(runs) \in Nat /\ DOMAIN runs = 1..Len(runs) /\ DOMAIN runs' = 1..Len(runs)
  BY <1>6 DEF TypeInv, TypeOK
<1>8. Before = Len(runs) - Len(outcomes) - 1 /\ Before' = Before
  <2>1. Before = Len(runs) - Len(outcomes) - 1 BY <1>1 DEF Before
  <2>2. Before' = Len(runs) - (Len(outcomes) + 1) - 0 BY <1>1, <1>2, <1>6 DEF Before
  <2> QED BY <2>1, <2>2, <1>2, <1>7
<1>9. Before >= 0 /\ Before \in Int BY <1>1, <1>2, <1>7, <1>8 DEF TraceInv, TraceMatchesOutcomes, Busy
<1>10. \A k \in 1..Len(runs) : runs'[k].attempt = runs[k].attempt BY <1>4, <1>6
<1>11. \A k \in DOMAIN runs' : runs'[k].attempt = attempt <=> k > Before
  BY <1>1, <1>7, <1>10 DEF TraceInv, TraceMatchesOutcomes, Busy
<1>12. runs[Len(runs)].task = tasks[Len(outcomes) + 1]
  <2>1. idx = Len(outcomes) + 1 BY <1>1, <1>2 DEF TypeInv, TypeOK, Position
  <2>2. runs[Len(runs)].task = Current BY <1>1 DEF TraceInv, TraceMatchesOutcomes, Busy
  <2> QED BY <2>1, <2>2 DEF Current
<1>13. \A k \in DOMAIN outcomes' :
         runs'[Before + k].st = outcomes'[k] /\ runs'[Before + k].task = tasks[k]
  <2> TAKE k \in DOMAIN outcomes'
  <2>1. CASE k \in 1..Len(outcomes)
    <3>1. Before + k \in 1..Len(runs) /\ Before + k # Len(runs) BY <2>1, <1>2, <1>7, <1>8, <1>9
    <3>2. runs'[Before + k] = runs[Before + k] BY <3>1, <1>6
    <3> QED BY <2>1, <3>2, <1>1, <1>2 DEF TraceInv, TraceMatchesOutcomes, Busy
  <2>2. CASE k = Len(outcomes) + 1
    <3>1. Before + k = Len(runs) BY <2>2, <1>2, <1>7, <1>8
    <3> QED BY <2>2, <3>1, <1>2, <1>4, <1>6, <1>12
  <2> QED BY <2>1, <2>2, <1>2
<1>14. \A k \in 1..Len(runs') : runs'[k].attempt <= attempt'
  BY <1>1, <1>6, <1>7, <1>10 DEF TraceInv
<1> QED BY <1>1, <1>8, <1>9, <1>11, <1>13, <1>14 DEF TraceInv, TraceMatchesOutcomes

LEMMA TraceEnd ==
  TypeInv /\ TraceInv /\ (Expire \/ Finish \/ Cancelled \/ Raised \/ Kill \/ Recover) => TraceInv'
<1>1. TraceInv /\ Expire => TraceInv'
  BY DEF Expire, TraceInv, TraceMatchesOutcomes, Before, Opened, Current, Busy, attemptVars
<1>2. TraceInv /\ (Finish \/ Cancelled \/ Raised \/ Kill \/ Recover) => TraceInv'
  BY DEF Finish, Cancelled, Raised, BreakOff, Kill, Recover, TraceInv, TraceMatchesOutcomes, Busy,
         attemptVars, loopVars
<1> QED BY <1>1, <1>2

LEMMA TraceStep == TypeInv /\ TraceInv /\ [Next]_vars => TraceInv'
<1>1. TraceInv /\ UNCHANGED vars => TraceInv'
  BY DEF vars, attemptVars, loopVars, TraceInv, TraceMatchesOutcomes, Before, Opened, Current
<1> QED BY <1>1, TraceStart, TraceBegin, TraceFollow, TraceSkip, TraceOpen, TraceAgent, TraceClose,
           TraceEnd
     DEF Next, Work

LEMMA TraceInvariant == Spec => [](TypeInv /\ TraceInv)
BY TypeInit, TypeStep, TraceInit, TraceStep, PTL DEF Spec

\* The agent_runs rows of the attempt under way are always the record of what
\* it has done, row by row and in order, whatever earlier attempts left behind.
THEOREM TraceIsFaithful == Spec => []TraceMatchesOutcomes
BY TraceInvariant, PTL DEF TraceInv

----------------------------------------------------------------------------
(* What a failed agent wrote is rolled back.                               *)

\* The run of an agent that has not committed yet, or never will, is not kept.
KeepInv ==
  /\ FailedLeavesNothing
  /\ pc = "agent" => ~runs[Len(runs)].kept
  /\ pc = "close" /\ result = "failed" => ~runs[Len(runs)].kept

LEMMA KeepGrows ==
  ASSUME TypeInv, KeepInv, NEW s \in RunStatus, idx <= Len(tasks),
         runs' = Append(runs, AgentRun(s)), pc' # "close"
  PROVE  KeepInv'
<1>1. /\ runs' \in Seq(Run) /\ Len(runs') = Len(runs) + 1
      /\ \A k \in 1..Len(runs) : runs'[k] = runs[k]
      /\ runs'[Len(runs) + 1] = AgentRun(s)
  BY RunsGrow
<1>2. Len(runs) \in Nat /\ DOMAIN runs = 1..Len(runs) /\ DOMAIN runs' = 1..Len(runs')
  BY <1>1 DEF TypeInv, TypeOK
<1>3. ~AgentRun(s).kept BY DEF AgentRun
<1> QED BY <1>1, <1>2, <1>3 DEF KeepInv, FailedLeavesNothing

LEMMA KeepCommits == TypeInv /\ TraceInv /\ KeepInv /\ AgentCommits => KeepInv'
<1> SUFFICES ASSUME TypeInv, TraceInv, KeepInv, AgentCommits PROVE KeepInv'
  OBVIOUS
<1> DEFINE r == [runs[Len(runs)] EXCEPT !.kept = TRUE]
<1>1. runs[Len(runs)] \in Run BY DEF AgentCommits, TypeInv, TypeOK, Position
<1>2. runs[Len(runs)].st = "running"
  BY DEF AgentCommits, TraceInv, TraceMatchesOutcomes, Busy, Opened
<1>3. r \in Run /\ r.st = "running" BY <1>1, <1>2 DEF Run
<1>4. Len(runs) > 0 /\ runs' = [runs EXCEPT ![Len(runs)] = r]
  BY DEF AgentCommits, TypeInv, Position
<1> HIDE DEF r
<1>5. /\ runs' \in Seq(Run) /\ Len(runs') = Len(runs) /\ runs'[Len(runs)] = r
      /\ \A k \in 1..Len(runs) : k # Len(runs) => runs'[k] = runs[k]
  BY <1>3, <1>4, LastRunChanges
<1>6. DOMAIN runs = 1..Len(runs) /\ DOMAIN runs' = 1..Len(runs)
  BY <1>5 DEF TypeInv, TypeOK
<1>7. pc' = "close" /\ result' # "failed" BY DEF AgentCommits, Returns
<1> QED BY <1>3, <1>5, <1>6, <1>7 DEF KeepInv, FailedLeavesNothing

LEMMA KeepClose == TypeInv /\ KeepInv /\ Close => KeepInv'
<1> SUFFICES ASSUME TypeInv, KeepInv, Close PROVE KeepInv'
  OBVIOUS
<1> DEFINE r == [runs[Len(runs)] EXCEPT !.st = result]
<1>1. runs[Len(runs)] \in Run BY DEF Close, TypeInv, TypeOK, Position
<1>2. r \in Run /\ r.st = result /\ r.kept = runs[Len(runs)].kept
  BY <1>1, CloseKeepsRun DEF Run
<1>3. Len(runs) > 0 /\ runs' = [runs EXCEPT ![Len(runs)] = r]
  BY DEF Close, TypeInv, Position
<1> HIDE DEF r
<1>4. /\ runs' \in Seq(Run) /\ Len(runs') = Len(runs) /\ runs'[Len(runs)] = r
      /\ \A k \in 1..Len(runs) : k # Len(runs) => runs'[k] = runs[k]
  BY <1>2, <1>3, LastRunChanges
<1>5. DOMAIN runs = 1..Len(runs) /\ DOMAIN runs' = 1..Len(runs)
  BY <1>4 DEF TypeInv, TypeOK
<1>6. pc = "close" /\ pc' \in {"loop", "follow"} BY DEF Close
<1> QED BY <1>2, <1>4, <1>5, <1>6 DEF KeepInv, FailedLeavesNothing

LEMMA KeepStep == TypeInv /\ TraceInv /\ KeepInv /\ [Next]_vars => KeepInv'
<1> SUFFICES ASSUME TypeInv, TraceInv, KeepInv, [Next]_vars PROVE KeepInv'
  OBVIOUS
<1>1. CASE Create \/ Claim \/ Begin \/ Follow
  BY <1>1 DEF Create, Claim, Begin, Follow, KeepInv, FailedLeavesNothing
<1>2. CASE Skip
  BY <1>2, KeepGrows DEF Skip, AtTask, RunStatus
<1>3. CASE Open
  BY <1>3, KeepGrows DEF Open, AtTask, RunStatus
<1>4. CASE AgentCommits
  BY <1>4, KeepCommits
<1>5. CASE CommitFails \/ AgentFails
  BY <1>5 DEF CommitFails, AgentFails, Returns, KeepInv, FailedLeavesNothing
<1>6. CASE Close
  BY <1>6, KeepClose
<1>7. CASE Expire \/ Finish \/ Cancelled \/ Raised \/ Kill \/ Recover \/ UNCHANGED vars
  BY <1>7 DEF Expire, Finish, Cancelled, Raised, BreakOff, Kill, Recover, vars, attemptVars, loopVars,
              KeepInv, FailedLeavesNothing
<1> QED BY <1>1, <1>2, <1>3, <1>4, <1>5, <1>6, <1>7 DEF Next, Work

\* A run that ended FAILED left nothing in the database, in this attempt and in
\* every one before it.
THEOREM FailedWorkIsGone == Spec => []FailedLeavesNothing
<1>1. Init => KeepInv BY DEF Init, KeepInv, FailedLeavesNothing
<1>2. KeepInv => FailedLeavesNothing BY DEF KeepInv
<1> QED BY <1>1, <1>2, TraceInvariant, KeepStep, PTL DEF Spec

----------------------------------------------------------------------------
(* What the final status promises.                                         *)

\* Where a skipped outcome comes from, while the attempt runs.
SkipInv ==
  /\ \A k \in DOMAIN outcomes :
       outcomes[k] = "skipped" =>
         /\ tasks[k].agent # Report
         /\ halted \/ tasks[k].agent \in Skippers
  /\ pc = "close" /\ result = "skipped" => Current.agent \in Skippers

LEMMA SkipStep == TypeInv /\ SkipInv /\ [Next]_vars => SkipInv'
<1> SUFFICES ASSUME TypeInv, SkipInv, [Next]_vars PROVE SkipInv'
  OBVIOUS
<1>1. CASE Create \/ Expire \/ Finish \/ Cancelled \/ Raised \/ Kill \/ Recover \/ UNCHANGED vars
  BY <1>1 DEF Create, Expire, Finish, Cancelled, Raised, BreakOff, Kill, Recover, vars, attemptVars,
              loopVars, SkipInv, Current
<1>2. CASE Claim
  BY <1>2 DEF Claim, SkipInv
<1>3. CASE Begin
  BY <1>3 DEF Begin, TypeInv, Position, SkipInv
<1>4. CASE Follow
  <2>1. PICK proposals \in Proposals : \E new \in FollowUps(proposals) : tasks' = tasks \o new
    BY <1>4 DEF Follow
  <2>2. PICK new \in FollowUps(proposals) : tasks' = tasks \o new
    BY <2>1
  <2>3. new \in Seq(Tasks) BY FollowUpsAreTasks DEF TypeInv, TypeOK
  <2>4. \A k \in 1..Len(tasks) : tasks'[k] = tasks[k]
    BY <2>2, <2>3 DEF TypeInv, TypeOK
  <2>5. DOMAIN outcomes = 1..Len(outcomes) /\ Len(outcomes) <= Len(tasks)
        /\ Len(tasks) \in Nat /\ Len(outcomes) \in Nat
    BY <1>4 DEF Follow, TypeInv, TypeOK, Position
  <2>6. \A k \in DOMAIN outcomes : tasks'[k] = tasks[k] BY <2>4, <2>5
  <2> QED BY <1>4, <2>6 DEF Follow, SkipInv
<1>5. CASE Skip
  <2>1. /\ Len(outcomes) \in Nat /\ DOMAIN outcomes' = 1..(Len(outcomes) + 1)
        /\ \A k \in 1..Len(outcomes) : outcomes'[k] = outcomes[k]
        /\ DOMAIN outcomes = 1..Len(outcomes) /\ idx = Len(outcomes) + 1
    BY <1>5 DEF Skip, AtTask, TypeInv, TypeOK, Position
  <2>2. tasks[idx].agent # Report /\ tasks' = tasks /\ halted' /\ pc' # "close"
    BY <1>5 DEF Skip, AtTask, Current
  <2> QED BY <2>1, <2>2 DEF SkipInv
<1>6. CASE Open
  BY <1>6 DEF Open, loopVars, SkipInv
<1>7. CASE AgentCommits \/ CommitFails \/ AgentFails
  BY <1>7 DEF AgentCommits, CommitFails, AgentFails, Returns, loopVars, SkipInv, Current
<1>8. CASE Close
  <2>1. /\ Len(outcomes) \in Nat /\ DOMAIN outcomes' = 1..(Len(outcomes) + 1)
        /\ \A k \in 1..Len(outcomes) : outcomes'[k] = outcomes[k]
        /\ outcomes'[Len(outcomes) + 1] = result
        /\ DOMAIN outcomes = 1..Len(outcomes) /\ idx = Len(outcomes) + 1
    BY <1>8 DEF Close, TypeInv, TypeOK, Position
  <2>2. result = "skipped" => tasks[idx].agent \in Skippers /\ tasks[idx].agent # Report
    BY <1>8, ExecutionAssumption DEF Close, SkipInv, Current
  <2>3. tasks' = tasks /\ halted' = halted /\ pc' # "close" BY <1>8 DEF Close
  <2> QED BY <2>1, <2>2, <2>3 DEF SkipInv
<1> QED BY <1>1, <1>2, <1>3, <1>4, <1>5, <1>6, <1>7, <1>8 DEF Next, Work

LEMMA SkipInvariant == Spec => [](TypeInv /\ TraceInv /\ SkipInv)
<1>1. Init => SkipInv BY DEF Init, SkipInv
<1> QED BY <1>1, TraceInvariant, SkipStep, PTL DEF Spec

\* An attempt at the end of its plan has an outcome, and a run, for every task.
LEMMA PlanDone ==
  ASSUME TypeInv, TraceInv, pc = "loop", idx > Len(tasks)
  PROVE  /\ Before \in Nat /\ Len(runs) = Before + Len(tasks)
         /\ DOMAIN outcomes = 1..Len(tasks) /\ DOMAIN tasks = 1..Len(tasks)
         /\ DOMAIN runs = 1..Len(runs)
         /\ \A t \in 1..Len(tasks) : /\ Before + t \in DOMAIN runs
                                     /\ runs[Before + t].attempt = attempt
                                     /\ runs[Before + t].task = tasks[t]
                                     /\ runs[Before + t].st = outcomes[t]
<1>1. /\ Len(runs) \in Nat /\ Len(tasks) \in Nat /\ Len(outcomes) = Len(tasks)
      /\ DOMAIN outcomes = 1..Len(outcomes) /\ DOMAIN tasks = 1..Len(tasks)
      /\ DOMAIN runs = 1..Len(runs)
  BY DEF TypeInv, TypeOK, Position
<1>2. Before = Len(runs) - Len(tasks) BY <1>1 DEF Before, Opened
<1>3. Before >= 0 BY DEF TraceInv, TraceMatchesOutcomes, Busy
<1>4. \A t \in 1..Len(tasks) : Before + t \in 1..Len(runs) /\ Before + t > Before
  BY <1>1, <1>2, <1>3
<1>5. /\ \A k \in DOMAIN runs : runs[k].attempt = attempt <=> k > Before
      /\ \A k \in DOMAIN outcomes :
           runs[Before + k].st = outcomes[k] /\ runs[Before + k].task = tasks[k]
  BY DEF TraceInv, TraceMatchesOutcomes, Busy
<1>6. Before \in Nat /\ Len(runs) = Before + Len(tasks) BY <1>1, <1>2, <1>3
<1>7. \A t \in 1..Len(tasks) : /\ Before + t \in DOMAIN runs
                               /\ runs[Before + t].attempt = attempt
                               /\ runs[Before + t].task = tasks[t]
                               /\ runs[Before + t].st = outcomes[t]
  BY <1>1, <1>4, <1>5
<1> QED BY <1>1, <1>6, <1>7

ReportTried ==
  halted /\ idx > Len(tasks) /\ Report \in Scheduled =>
    \E k \in DOMAIN runs :
      runs[k].attempt = attempt /\ runs[k].task.agent = Report /\ runs[k].st # "skipped"

LEMMA BusyTried ==
  ASSUME TypeInv, TraceInv, SkipInv, pc \in Busy PROVE ReportTried
<1> SUFFICES ASSUME halted, idx > Len(tasks), Report \in Scheduled
             PROVE  \E k \in DOMAIN runs : /\ runs[k].attempt = attempt
                                           /\ runs[k].task.agent = Report
                                           /\ runs[k].st # "skipped"
  BY DEF ReportTried
<1>1. pc = "loop"
  <2>1. ~(idx <= Len(tasks)) BY DEF TypeInv, TypeOK
  <2> QED BY <2>1 DEF Busy, TypeInv, Position
<1>2. PICK t \in DOMAIN tasks : tasks[t].agent = Report BY DEF Scheduled
<1>3. t \in 1..Len(tasks) /\ t \in DOMAIN outcomes BY <1>1, PlanDone
<1>4. outcomes[t] # "skipped" BY <1>2, <1>3 DEF SkipInv
<1>5. /\ Before + t \in DOMAIN runs
      /\ runs[Before + t].attempt = attempt
      /\ runs[Before + t].task = tasks[t]
      /\ runs[Before + t].st = outcomes[t]
  BY <1>1, <1>3, PlanDone
<1> QED BY <1>2, <1>4, <1>5

LEMMA CompletionRan == TypeInv /\ TraceInv /\ SkipInv /\ Finish => CompletedRanEverything'
<1> SUFFICES ASSUME TypeInv, TraceInv, SkipInv, Finish, status' = "completed"
             PROVE  /\ \A t \in DOMAIN tasks : \E k \in DOMAIN runs : RunOf(k, tasks[t])
                    /\ \A k \in DOMAIN runs : runs[k].attempt = attempt =>
                         \/ runs[k].st = "succeeded"
                         \/ runs[k].st = "skipped" /\ runs[k].task.agent \in Skippers
                    /\ ~halted
  BY DEF Finish, CompletedRanEverything, RunOf, attemptVars, loopVars
<1>1. pc = "loop" /\ idx > Len(tasks) BY DEF Finish
<1>2. ~halted /\ ~Failed
  <2>1. Derive = "completed" BY DEF Finish
  <2> QED BY <2>1 DEF Derive, TypeInv, TypeOK
<1>3. \A t \in DOMAIN tasks : \E k \in DOMAIN runs : RunOf(k, tasks[t])
  <2> TAKE t \in DOMAIN tasks
  <2>1. /\ Before + t \in DOMAIN runs /\ runs[Before + t].attempt = attempt
        /\ runs[Before + t].task = tasks[t]
    BY <1>1, PlanDone
  <2> QED BY <2>1 DEF RunOf
<1>4. ASSUME NEW k \in DOMAIN runs, runs[k].attempt = attempt
      PROVE  \/ runs[k].st = "succeeded"
             \/ runs[k].st = "skipped" /\ runs[k].task.agent \in Skippers
  <2>1. k > Before BY <1>1, <1>4 DEF TraceInv, TraceMatchesOutcomes, Busy
  <2> DEFINE t == k - Before
  <2>2. t \in 1..Len(tasks) /\ Before + t = k
    <3>1. Before \in Nat /\ Len(runs) = Before + Len(tasks) /\ k \in 1..Len(runs)
          /\ Len(tasks) \in Nat
      BY <1>1, PlanDone DEF TypeInv, TypeOK
    <3> QED BY <2>1, <3>1
  <2> HIDE DEF t
  <2>3. runs[k].task = tasks[t] /\ runs[k].st = outcomes[t] /\ t \in DOMAIN outcomes
    BY <1>1, <2>2, PlanDone
  <2>4. outcomes[t] \in RunStatus \ {"running"} BY <2>3 DEF TypeInv, TypeOK
  <2>5. outcomes[t] # "failed" BY <1>2, <2>3 DEF Failed
  <2>6. outcomes[t] = "skipped" => tasks[t].agent \in Skippers BY <1>2, <2>3 DEF SkipInv
  <2> QED BY <2>3, <2>4, <2>5, <2>6 DEF RunStatus
<1> QED BY <1>2, <1>3, <1>4

\* A status that is not RUNNING is looked at only when no attempt is under way.
EndInv ==
  /\ pc \in Busy \union {"down"} => status = "running"
  /\ CompletedRanEverything
  /\ pc \in {"idle", "down"} => ReportTried

LEMMA EndInit == Init => EndInv
BY DEF Init, EndInv, Busy, CompletedRanEverything, ReportTried

LEMMA EndStep ==
  ASSUME TypeInv, TraceInv, SkipInv, EndInv, [Next]_vars PROVE EndInv'
<1>1. CASE Create \/ Claim
  <2>1. CASE Create
    BY <2>1 DEF Create, attemptVars, loopVars, EndInv, CompletedRanEverything, RunOf, ReportTried,
                Scheduled, Busy
  <2>2. CASE Claim
    BY <2>2 DEF Claim, EndInv, CompletedRanEverything, Busy
  <2> QED BY <1>1, <2>1, <2>2
<1>2. CASE (Work /\ ~Finish) \/ Expire
  <2>1. pc \in Busy /\ pc' \in Busy /\ status' = "running"
    BY <1>2 DEF Work, Begin, Follow, Skip, Open, AtTask, AgentCommits, CommitFails, AgentFails, Close,
                Expire, EndInv, Busy
  <2> QED BY <2>1 DEF EndInv, CompletedRanEverything, Busy
<1>3. CASE Finish \/ Cancelled \/ Raised \/ Kill
  <2>1. pc \in Busy /\ pc' \in {"idle", "down"} /\ (pc' = "down" => status' = "running")
    BY <1>3 DEF Finish, Cancelled, Raised, BreakOff, Kill, Busy, EndInv
  <2>2. ReportTried' = ReportTried
    BY <1>3 DEF Finish, Cancelled, Raised, BreakOff, Kill, attemptVars, loopVars, ReportTried, Scheduled
  <2>3. ReportTried' BY <2>1, <2>2, BusyTried
  <2>4. CompletedRanEverything'
    <3>1. CASE Finish BY <3>1, CompletionRan
    <3>2. CASE Cancelled \/ Raised \/ Kill
      BY <3>2 DEF Cancelled, Raised, BreakOff, Kill, EndInv, Busy, CompletedRanEverything
    <3> QED BY <1>3, <3>1, <3>2
  <2> QED BY <2>1, <2>3, <2>4 DEF EndInv, Busy
<1>4. CASE Recover \/ UNCHANGED vars
  BY <1>4 DEF Recover, vars, attemptVars, loopVars, EndInv, CompletedRanEverything, RunOf, ReportTried,
              Scheduled, Busy
<1> QED BY <1>1, <1>2, <1>3, <1>4 DEF Next, Work

LEMMA EndInvariant == Spec => []EndInv
BY SkipInvariant, EndInit, EndStep, PTL DEF Spec

\* An investigation reported COMPLETED ran all it had planned.
THEOREM CompletionIsEarned == Spec => []CompletedRanEverything
BY EndInvariant, PTL DEF EndInv

\* The budget that halts an attempt never takes the report with it.
THEOREM HaltLeavesAReport == Spec => []HaltedStillReports
<1>1. EndInv => HaltedStillReports BY DEF EndInv, ReportTried, HaltedStillReports, Ended
<1> QED BY <1>1, EndInvariant, PTL

----------------------------------------------------------------------------
(* The rows of a first attempt.                                            *)

Distinct(s) == \A j, k \in DOMAIN s : s[j] = s[k] => j = k

\* What is kept of a sequence is its elements at growing positions.
LEMMA KeptIsChosen ==
  ASSUME NEW S, NEW s \in Seq(S), NEW K, K \subseteq DOMAIN s, NEW new \in Kept(s, K)
  PROVE  \E n \in Nat : \E g \in [1..n -> K] :
           /\ new = [k \in 1..n |-> s[g[k]]]
           /\ \A j, k \in 1..n : g[j] = g[k] => j = k
<1>1. PICK n \in 0..Len(s) : \E g \in [1..n -> K] :
        /\ new = [k \in DOMAIN g |-> s[g[k]]]
        /\ \A j, k \in DOMAIN g : j < k => g[j] < g[k]
  BY DEF Kept
<1>2. PICK g \in [1..n -> K] : /\ new = [k \in DOMAIN g |-> s[g[k]]]
                               /\ \A j, k \in DOMAIN g : j < k => g[j] < g[k]
  BY <1>1
<1>3. DOMAIN g = 1..n /\ n \in Nat /\ K \subseteq Nat BY <1>2
<1>4. ASSUME NEW j \in 1..n, NEW k \in 1..n, g[j] = g[k] PROVE j = k
  <2>1. g[j] \in Nat /\ g[k] \in Nat BY <1>2, <1>3
  <2>2. ~(j < k) /\ ~(k < j) BY <1>2, <1>3, <1>4, <2>1
  <2> QED BY <2>2
<1> QED BY <1>2, <1>3, <1>4

LEMMA TakeTakes ==
  ASSUME NEW S, NEW s \in Seq(S), NEW n \in Nat
  PROVE  \A k \in DOMAIN Take(s, n) : k \in DOMAIN s /\ Take(s, n)[k] = s[k]
<1> DEFINE m == IF n < Len(s) THEN n ELSE Len(s)
<1>1. m \in Nat /\ m <= Len(s) OBVIOUS
<1>2. Take(s, n) = SubSeq(s, 1, m) BY DEF Take
<1> HIDE DEF m
<1>3. DOMAIN SubSeq(s, 1, m) = 1..m /\ \A k \in 1..m : SubSeq(s, 1, m)[k] = s[k] BY <1>1
<1> QED BY <1>1, <1>2, <1>3

\* No planner schedules an agent twice.
LEMMA InitialPlansAreDistinct ==
  ASSUME NEW p, NEW plan \in InitialPlans(p)
  PROVE  Distinct(plan)
<1>1. CASE p = "dynamic"
  BY <1>1 DEF InitialPlans, Distinct
<1>2. CASE p # "dynamic"
  <2>1. PICK wanted \in SUBSET Optional : \E names \in Chosen(wanted) :
          plan = Take(Numbered(p, names), MaxTasks)
    BY <1>2 DEF InitialPlans
  <2>2. PICK names \in Chosen(wanted) : plan = Take(Numbered(p, names), MaxTasks) BY <2>1
  <2> DEFINE K == {k \in DOMAIN Order : Order[k] \notin Optional \ wanted}
  <2>3. Order \in Seq(Agents) /\ K \subseteq DOMAIN Order /\ names \in Kept(Order, K)
    BY <2>2, ExecutionAssumption DEF Chosen
  <2> HIDE DEF K
  <2>4. PICK n \in Nat : \E g \in [1..n -> K] : /\ names = [k \in 1..n |-> Order[g[k]]]
                                                /\ \A j, k \in 1..n : g[j] = g[k] => j = k
    BY <2>3, KeptIsChosen
  <2>5. PICK g \in [1..n -> K] : /\ names = [k \in 1..n |-> Order[g[k]]]
                                 /\ \A j, k \in 1..n : g[j] = g[k] => j = k
    BY <2>4
  <2>6. \A j, k \in 1..n : names[j] = names[k] => j = k
    BY <2>3, <2>5, ExecutionAssumption
  <2> DEFINE numbered == Numbered(p, names)
  <2>7. DOMAIN numbered = 1..n /\ \A k \in 1..n : numbered[k].agent = names[k]
    BY <2>5 DEF Numbered, Task
  <2>8. \A j, k \in 1..n : numbered[j] = numbered[k] => j = k BY <2>6, <2>7
  <2>9. numbered \in Seq(Tasks)
    <3>1. names \in Seq(Agents) BY <2>3, KeptIsSequence
    <3>2. \A k \in 1..n : numbered[k] \in Tasks
      BY <2>5, <3>1, NumbersAreTasks DEF Numbered, Task, Tasks
    <3>3. numbered \in [1..n -> Tasks] BY <2>7, <3>2 DEF Numbered
    <3> HIDE DEF numbered
    <3> QED BY <3>3
  <2> HIDE DEF numbered
  <2>10. \A k \in DOMAIN plan : k \in 1..n /\ plan[k] = numbered[k]
    BY <2>2, <2>7, <2>9, TakeTakes, ExecutionAssumption DEF numbered
  <2> QED BY <2>8, <2>10 DEF Distinct
<1> QED BY <1>1, <1>2

\* What a triage proposes twice has two numbers; a report that it does not
\* propose is added once.
LEMMA ProposedAreDistinct ==
  ASSUME NEW proposals \in Proposals
  PROVE  Distinct(Proposed(proposals))
<1> DEFINE numbered == [k \in DOMAIN proposals |-> Task(k + 1, proposals[k])]
           wanted == \E k \in DOMAIN proposals : proposals[k] = Report
<1>1. PICK n \in 0..MaxProposals : proposals \in [1..n -> Agents \ {Triage}]
  BY DEF Proposals
<1>2. n \in Nat BY ExecutionAssumption
<1>3. DOMAIN numbered = 1..n /\ \A k \in 1..n : numbered[k].no = k + 1 /\ numbered[k].agent = proposals[k]
  BY <1>1 DEF Task
<1>4. \A j, k \in 1..n : numbered[j] = numbered[k] => j = k BY <1>2, <1>3
<1>5. CASE wanted
  BY <1>3, <1>4, <1>5 DEF Proposed, Distinct
<1>6. CASE ~wanted
  <2>1. numbered \in Seq(Tasks)
    <3>1. \A k \in 1..n : numbered[k] \in Tasks BY <1>1, <1>2 DEF Task, Tasks
    <3>2. numbered \in [1..n -> Tasks] BY <1>3, <3>1
    <3> HIDE DEF numbered
    <3> QED BY <1>2, <3>2
  <2>2. \A k \in 1..n : numbered[k].agent # Report BY <1>1, <1>3, <1>6
  <2>3. Len(numbered) = n BY <1>2, <1>3, <2>1
  <2> DEFINE last == Task(LastNo, Report)
  <2>4. last.agent = Report BY DEF Task
  <2>5. Proposed(proposals) = Append(numbered, last) BY <1>6 DEF Proposed
  <2> HIDE DEF numbered, last
  <2>6. /\ DOMAIN Append(numbered, last) = 1..(n + 1) /\ Append(numbered, last)[n + 1] = last
        /\ \A k \in 1..n : Append(numbered, last)[k] = numbered[k]
    BY <1>2, <2>1, <2>3
  <2>7. \A k \in 1..(n + 1) : k \in 1..n \/ k = n + 1 BY <1>2
  <2> QED BY <1>4, <2>2, <2>4, <2>5, <2>6, <2>7 DEF Distinct
<1> QED BY <1>5, <1>6

LEMMA FollowUpsAreDistinct ==
  ASSUME tasks \in Seq(Tasks), WithinTaskLimit,
         NEW proposals \in Proposals, NEW new \in FollowUps(proposals)
  PROVE  /\ Distinct(new)
         /\ \A k \in DOMAIN new : new[k].agent \notin Scheduled
<1> DEFINE created == Proposed(proposals)
           K == {k \in DOMAIN created : created[k].agent \notin Scheduled}
<1>1. created \in Seq(Tasks) /\ Distinct(created) BY ProposedAreTasks, ProposedAreDistinct
<1>2. PICK fresh \in Kept(created, K) : new = Take(fresh, MaxTasks - Len(tasks))
  BY DEF FollowUps, Fresh
<1>3. K \subseteq DOMAIN created /\ \A k \in K : created[k].agent \notin Scheduled OBVIOUS
<1> HIDE DEF created, K
<1>4. fresh \in Seq(Tasks) BY <1>1, <1>2, <1>3, KeptIsSequence
<1>5. PICK n \in Nat : \E g \in [1..n -> K] : /\ fresh = [k \in 1..n |-> created[g[k]]]
                                              /\ \A j, k \in 1..n : g[j] = g[k] => j = k
  <2>1. created \in Seq(Tasks) /\ K \subseteq DOMAIN created /\ fresh \in Kept(created, K)
    BY <1>1, <1>2, <1>3
  <2> QED BY ONLY <2>1, KeptIsChosen
<1>6. PICK g \in [1..n -> K] : /\ fresh = [k \in 1..n |-> created[g[k]]]
                               /\ \A j, k \in 1..n : g[j] = g[k] => j = k
  BY <1>5
<1>7. DOMAIN fresh = 1..n /\ \A k \in 1..n : g[k] \in K /\ fresh[k] = created[g[k]] BY <1>6
<1>8. \A j, k \in 1..n : fresh[j] = fresh[k] => j = k BY <1>1, <1>3, <1>6, <1>7 DEF Distinct
<1>9. MaxTasks - Len(tasks) \in Nat BY ExecutionAssumption DEF WithinTaskLimit
<1>10. \A k \in DOMAIN new : k \in 1..n /\ new[k] = fresh[k] BY <1>2, <1>4, <1>7, <1>9, TakeTakes
<1> QED BY <1>3, <1>7, <1>8, <1>10 DEF Distinct

\* FirstAttemptSettlesItsRows with what makes it inductive: until a retry the
\* table of the task rows is the plan, row by row, and no task is in it twice,
\* so that the update by task id finds the one row it means.
RowsInv ==
  attempt <= 1 =>
    /\ attempt = 0 => pc = "idle"
    /\ attempt = 0 \/ pc = "begin" => rows = <<>> /\ tasks = <<>>
    /\ Len(rows) = Len(tasks)
    /\ \A k \in 1..Len(tasks) : rows[k].task = tasks[k]
    /\ Distinct(tasks)
    /\ \A k \in 1..Len(tasks) :
         k < idx \/ (k = idx /\ pc = "follow") => rows[k].st \notin {"pending", "running"}

LEMMA RowsStart == TypeInv /\ RowsInv /\ (Create \/ Claim) => RowsInv'
<1>1. RowsInv /\ Create => RowsInv'
  BY DEF Create, RowsInv, Distinct, attemptVars, loopVars
<1>2. ASSUME TypeInv, RowsInv, Claim PROVE RowsInv'
  <2>1. attempt \in Nat BY <1>2, ExecutionAssumption DEF TypeInv, TypeOK
  <2>2. CASE attempt = 0
    <3>1. rows' = <<>> /\ tasks' = <<>> /\ Len(<<>>) = 0
      BY <1>2, <2>2, Empty DEF Claim, RowsInv
    <3>2. attempt' = 1 /\ idx' = 1 BY <1>2, <2>2 DEF Claim
    <3> QED BY <3>1, <3>2 DEF RowsInv, Distinct
  <2>3. CASE attempt # 0
    <3>1. ~(attempt' <= 1) BY <1>2, <2>1, <2>3 DEF Claim
    <3> QED BY <3>1 DEF RowsInv
  <2> QED BY <2>2, <2>3
<1> QED BY <1>1, <1>2

LEMMA PendingRows ==
  ASSUME NEW ts \in Seq(Tasks)
  PROVE  /\ Pending(ts) \in Seq(Row) /\ Len(Pending(ts)) = Len(ts)
         /\ \A k \in 1..Len(ts) : Pending(ts)[k].task = ts[k]
<1>1. DOMAIN Pending(ts) = 1..Len(ts) BY DEF Pending
<1>2. \A k \in 1..Len(ts) : Pending(ts)[k].task = ts[k] BY DEF Pending
<1>3. Pending(ts) \in Seq(Row) BY PendingAreRows
<1> HIDE DEF Pending
<1>4. Len(Pending(ts)) = Len(ts)
  <2>1. Len(ts) \in Nat OBVIOUS
  <2> QED BY <1>1, <1>3, <2>1
<1> QED BY <1>2, <1>3, <1>4

LEMMA RowsBegin == TypeInv /\ RowsInv /\ Begin => RowsInv'
<1> SUFFICES ASSUME TypeInv, RowsInv, Begin, attempt <= 1 PROVE RowsInv'
  BY DEF Begin, RowsInv
<1>1. PICK plan \in InitialPlans(planner') : tasks' = plan /\ rows' = rows \o Pending(plan)
  BY DEF Begin
<1>2. plan \in Seq(Tasks) /\ Distinct(plan) BY InitialPlansAreTasks, InitialPlansAreDistinct
<1>3. rows = <<>> /\ pc = "begin" /\ pc' = "loop" /\ attempt' = attempt BY DEF Begin, RowsInv
<1>4. /\ Pending(plan) \in Seq(Row) /\ Len(Pending(plan)) = Len(plan)
      /\ \A k \in 1..Len(plan) : Pending(plan)[k].task = plan[k]
  BY <1>2, PendingRows
<1>5. rows' = Pending(plan) BY <1>1, <1>3, <1>4
<1>6. idx' = 1 BY <1>3 DEF Begin, TypeInv, Position
<1>7. attempt # 0 BY <1>3 DEF RowsInv
<1> QED BY <1>1, <1>2, <1>3, <1>4, <1>5, <1>6, <1>7 DEF RowsInv

LEMMA Concatenated ==
  ASSUME NEW S, NEW s \in Seq(S), NEW t \in Seq(S)
  PROVE  /\ Len(s \o t) = Len(s) + Len(t)
         /\ \A k \in 1..Len(s) : (s \o t)[k] = s[k]
         /\ \A k \in 1..(Len(s) + Len(t)) : k > Len(s) => (s \o t)[k] = t[k - Len(s)]
OBVIOUS

LEMMA RowsFollow == TypeInv /\ RowsInv /\ Follow => RowsInv'
<1> SUFFICES ASSUME TypeInv, RowsInv, Follow, attempt <= 1 PROVE RowsInv'
  BY DEF Follow, RowsInv, attemptVars
<1>1. PICK proposals \in Proposals : \E new \in FollowUps(proposals) :
        tasks' = tasks \o new /\ rows' = rows \o Pending(new)
  BY DEF Follow
<1>2. PICK new \in FollowUps(proposals) : tasks' = tasks \o new /\ rows' = rows \o Pending(new)
  BY <1>1
<1>3. tasks \in Seq(Tasks) /\ rows \in Seq(Row) /\ idx \in Nat /\ WithinTaskLimit
  BY DEF TypeInv, TypeOK
<1>4. /\ new \in Seq(Tasks) /\ Distinct(new)
      /\ \A k \in DOMAIN new : new[k].agent \notin Scheduled
  BY <1>3, FollowUpsAreTasks, FollowUpsAreDistinct
<1>5. /\ Pending(new) \in Seq(Row) /\ Len(Pending(new)) = Len(new)
      /\ \A k \in 1..Len(new) : Pending(new)[k].task = new[k]
  BY <1>4, PendingRows
<1> DEFINE m == Len(tasks)
           n == Len(new)
<1>6. /\ m \in Nat /\ n \in Nat /\ Len(tasks') = m + n
      /\ \A k \in 1..m : tasks'[k] = tasks[k]
      /\ \A k \in 1..(m + n) : k > m => tasks'[k] = new[k - m]
  BY <1>2, <1>3, <1>4
<1>7. Len(rows) = m BY DEF RowsInv
<1>8. /\ Len(rows') = m + n
      /\ \A k \in 1..m : rows'[k] = rows[k]
      /\ \A k \in 1..(m + n) : k > m => rows'[k] = Pending(new)[k - m]
  <2>1. rows \in Seq(Row) /\ Pending(new) \in Seq(Row) BY <1>3, <1>5
  <2>2. /\ Len(rows \o Pending(new)) = Len(rows) + Len(Pending(new))
        /\ \A k \in 1..Len(rows) : (rows \o Pending(new))[k] = rows[k]
        /\ \A k \in 1..(Len(rows) + Len(Pending(new))) :
             k > Len(rows) => (rows \o Pending(new))[k] = Pending(new)[k - Len(rows)]
    BY ONLY <2>1, Concatenated
  <2> QED BY <1>2, <1>5, <1>7, <2>2
<1>9. DOMAIN tasks' = 1..(m + n) /\ DOMAIN tasks = 1..m /\ DOMAIN new = 1..n
  BY <1>2, <1>3, <1>4, <1>6
<1> HIDE DEF m, n
<1>10. \A k \in 1..m : tasks[k].agent \in Scheduled BY <1>9 DEF Scheduled
<1>11. Distinct(tasks')
  <2>1. ASSUME NEW j \in 1..(m + n), NEW k \in 1..(m + n), tasks'[j] = tasks'[k] PROVE j = k
    <3>1. CASE j <= m /\ k <= m
      <4>1. j \in 1..m /\ k \in 1..m BY <1>6, <3>1
      <4> QED BY <1>6, <1>9, <2>1, <4>1 DEF RowsInv, Distinct
    <3>2. CASE j > m /\ k > m
      <4>1. j - m \in 1..n /\ k - m \in 1..n BY <1>6, <3>2
      <4>2. new[j - m] = new[k - m] BY <1>6, <2>1, <3>2
      <4>3. j - m = k - m BY <1>4, <1>9, <4>1, <4>2 DEF Distinct
      <4> QED BY <1>6, <4>3
    <3>3. CASE j <= m /\ k > m
      <4>1. j \in 1..m /\ k - m \in 1..n BY <1>6, <3>3
      <4>2. tasks[j] = new[k - m] BY <1>6, <2>1, <3>3, <4>1
      <4> QED BY <1>4, <1>9, <1>10, <4>1, <4>2
    <3>4. CASE j > m /\ k <= m
      <4>1. k \in 1..m /\ j - m \in 1..n BY <1>6, <3>4
      <4>2. tasks[k] = new[j - m] BY <1>6, <2>1, <3>4, <4>1
      <4> QED BY <1>4, <1>9, <1>10, <4>1, <4>2
    <3> QED BY <1>6, <3>1, <3>2, <3>3, <3>4
  <2> QED BY <1>9, <2>1 DEF Distinct
<1>12. ASSUME NEW k \in 1..(m + n) PROVE rows'[k].task = tasks'[k]
  <2>1. CASE k <= m
    <3>1. k \in 1..m BY <1>6, <2>1
    <3> QED BY <1>6, <1>8, <3>1 DEF RowsInv, m
  <2>2. CASE k > m
    <3>1. k - m \in 1..n BY <1>6, <2>2
    <3> QED BY <1>5, <1>6, <1>8, <2>2, <3>1 DEF n
  <2> QED BY <1>6, <2>1, <2>2
<1>13. ASSUME NEW k \in 1..(m + n), k < idx' \/ (k = idx' /\ pc' = "follow")
       PROVE  rows'[k].st \notin {"pending", "running"}
  <2>1. idx' = idx + 1 /\ pc' = "loop" /\ pc = "follow" /\ idx <= m
    BY DEF Follow, TypeInv, Position, m
  <2>2. k < idx \/ k = idx BY <1>3, <1>6, <1>13, <2>1
  <2>3. k \in 1..m BY <1>3, <1>6, <2>1, <2>2
  <2> QED BY <1>8, <2>1, <2>2, <2>3 DEF RowsInv, m
<1>14. attempt # 0 /\ pc' # "begin" /\ attempt' = attempt
  BY DEF Follow, RowsInv, attemptVars
<1> QED BY <1>6, <1>8, <1>11, <1>12, <1>13, <1>14 DEF RowsInv

LEMMA RowIsSet ==
  ASSUME TypeInv, RowsInv, attempt <= 1, idx <= Len(tasks), NEW s, SetRow(s)
  PROVE  /\ Len(rows') = Len(tasks)
         /\ \A k \in 1..Len(tasks) : /\ rows'[k].task = tasks[k]
                                     /\ k # idx => rows'[k] = rows[k]
         /\ rows'[idx].st = s
<1>1. /\ rows \in Seq(Row) /\ tasks \in Seq(Tasks) /\ idx \in 1..Len(tasks)
      /\ Len(rows) = Len(tasks)
  BY DEF TypeInv, TypeOK, RowsInv
<1>2. PICK k \in DOMAIN rows : rows[k].task = Current /\ rows' = [rows EXCEPT ![k].st = s]
  BY DEF SetRow
<1>3. k \in 1..Len(tasks) /\ tasks[k] = tasks[idx] BY <1>1, <1>2 DEF Current, RowsInv
<1>4. k = idx BY <1>1, <1>3 DEF RowsInv, Distinct
<1>5. rows[idx] \in Row BY <1>1
<1>6. [rows[idx] EXCEPT !.st = s].task = tasks[idx] /\ [rows[idx] EXCEPT !.st = s].st = s
  BY <1>1, <1>5 DEF Row, RowsInv
<1>7. rows' = [rows EXCEPT ![idx] = [rows[idx] EXCEPT !.st = s]] BY <1>2, <1>4
<1>8. Len(rows') = Len(tasks) BY <1>1, <1>7
<1> QED BY <1>1, <1>6, <1>7, <1>8 DEF RowsInv

LEMMA RowsWork ==
  TypeInv /\ RowsInv /\ (Skip \/ Open \/ Close) => RowsInv'
<1> SUFFICES ASSUME TypeInv, RowsInv, Skip \/ Open \/ Close, attempt' <= 1 PROVE RowsInv'
  BY DEF RowsInv
<1>1. attempt' = attempt /\ tasks' = tasks /\ idx <= Len(tasks)
  BY DEF Skip, Open, Close, AtTask, TypeInv, Position, attemptVars, loopVars
<1>2. idx \in Nat /\ Len(tasks) \in Nat /\ attempt # 0 /\ pc' # "begin"
  BY <1>1 DEF Skip, Open, Close, AtTask, TypeInv, TypeOK, RowsInv
<1>3. CASE Skip
  <2>1. SetRow("cancelled") /\ idx' = idx + 1 /\ pc' = pc /\ pc = "loop"
    BY <1>3 DEF Skip, AtTask
  <2> QED BY <1>1, <1>2, <2>1, RowIsSet DEF RowsInv
<1>4. CASE Open
  <2>1. SetRow("running") /\ idx' = idx /\ pc' = "agent" BY <1>4 DEF Open, loopVars
  <2> QED BY <1>1, <1>2, <2>1, RowIsSet DEF RowsInv
<1>5. CASE Close
  <2>1. PICK s \in {"succeeded", "failed"} : SetRow(s) BY <1>5 DEF Close
  <2>2. (pc' = "follow" /\ idx' = idx) \/ (pc' = "loop" /\ idx' = idx + 1)
    BY <1>5 DEF Close
  <2> QED BY <1>1, <1>2, <2>1, <2>2, RowIsSet DEF RowsInv
<1> QED BY <1>3, <1>4, <1>5

LEMMA RowsStep == TypeInv /\ RowsInv /\ [Next]_vars => RowsInv'
<1>1. TypeInv /\ RowsInv /\ UNCHANGED vars => RowsInv'
  BY DEF vars, attemptVars, loopVars, RowsInv, Distinct
<1>2. TypeInv /\ RowsInv /\ (AgentCommits \/ CommitFails \/ AgentFails) => RowsInv'
  BY DEF AgentCommits, CommitFails, AgentFails, attemptVars, loopVars, RowsInv, Distinct
<1>3. TypeInv /\ RowsInv /\ (Expire \/ Finish) => RowsInv'
  BY DEF Expire, Finish, attemptVars, loopVars, RowsInv, Distinct
<1>4. TypeInv /\ RowsInv /\ (Cancelled \/ Raised \/ Kill \/ Recover) => RowsInv'
  BY DEF Cancelled, Raised, BreakOff, Kill, Recover, Busy, attemptVars, loopVars, RowsInv, Distinct
<1> QED BY <1>1, <1>2, <1>3, <1>4, RowsStart, RowsBegin, RowsFollow, RowsWork DEF Next, Work

LEMMA RowsInit == Init => RowsInv
<1> SUFFICES ASSUME Init PROVE RowsInv
  OBVIOUS
<1>1. rows = <<>> /\ tasks = <<>> /\ pc = "idle" BY DEF Init
<1> QED BY <1>1, Empty DEF RowsInv, Distinct

LEMMA RowsInvariant == Spec => [](TypeInv /\ RowsInv)
BY TypeInvariant, RowsInit, RowsStep, PTL DEF Spec

\* Whatever the planners schedule and a triage adds, an attempt that was not
\* retried and went through its plan leaves no task row pending or running.
THEOREM FirstAttemptIsSettled == Spec => []FirstAttemptSettlesItsRows
<1>1. TypeInv /\ RowsInv => FirstAttemptSettlesItsRows
  <2> SUFFICES ASSUME TypeInv, RowsInv, attempt = 1, idx > Len(tasks), NEW k \in DOMAIN rows
               PROVE  rows[k].st \notin {"pending", "running"}
    BY DEF FirstAttemptSettlesItsRows
  <2>1. k \in 1..Len(tasks) /\ k < idx BY DEF TypeInv, TypeOK, RowsInv
  <2> QED BY <2>1 DEF RowsInv
<1> QED BY <1>1, RowsInvariant, PTL

----------------------------------------------------------------------------
(* The execution implements the contract.                                  *)

LEMMA ContractInit == Init => Contract!Init
<1> SUFFICES ASSUME Init PROVE Contract!Init
  OBVIOUS
<1>1. {i \in {"it"} : pc \in Busy} = {} BY DEF Init, Busy
<1> QED BY <1>1 DEF Init, Contract!Init

LEMMA ContractStep ==
  ASSUME TypeInv, EndInv, [Next]_vars
  PROVE  [Contract!Next]_<<[i \in {"it"} |-> status], {i \in {"it"} : pc \in Busy}>>
<1> DEFINE st == [i \in {"it"} |-> status]
           busy == {i \in {"it"} : pc \in Busy}
<1>1. CASE Create
  <2>1. st["it"] = "absent" /\ st' = [st EXCEPT !["it"] = "created"] /\ busy' = busy
    BY <1>1 DEF Create
  <2> QED BY <2>1 DEF Contract!Next, Contract!Open, Contract!Become
<1>2. CASE Claim
  <2>1. /\ "it" \notin busy /\ st["it"] \in {"created"} \union Retryable
        /\ st' = [st EXCEPT !["it"] = "running"] /\ busy' = busy \union {"it"}
    BY <1>2 DEF Claim, Busy
  <2> QED BY <2>1 DEF Contract!Next, Contract!Claim, Contract!Become, Contract!Retryable, Retryable
<1>3. CASE (Work /\ ~Finish) \/ Expire \/ UNCHANGED vars
  <2>1. status' = status /\ (pc' \in Busy) = (pc \in Busy)
    BY <1>3 DEF Work, Begin, Follow, Skip, Open, AtTask, AgentCommits, CommitFails, AgentFails, Close,
                Expire, EndInv, Busy, vars
  <2> QED BY <2>1
<1>4. CASE Finish \/ Cancelled \/ Raised
  <2>1. pc \in Busy /\ pc' = "idle" /\ status' \in Terminal /\ status = "running"
    BY <1>4, DeriveIsTerminal
       DEF Finish, Cancelled, Raised, BreakOff, Terminal, Busy, EndInv, TypeInv, TypeOK
  <2>2. /\ "it" \in busy /\ st["it"] = "running"
        /\ st' = [st EXCEPT !["it"] = status'] /\ busy' = busy \ {"it"}
    BY <2>1 DEF Busy
  <2>3. status' \in Contract!Terminal BY <2>1 DEF Terminal, Contract!Terminal
  <2> QED BY <2>2, <2>3 DEF Contract!Next, Contract!End, Contract!Become
<1>5. CASE Kill
  <2>1. busy' = busy \ {"it"} /\ {"it"} \in SUBSET busy /\ st' = st
    BY <1>5 DEF Kill, Busy
  <2> QED BY <2>1 DEF Contract!Next, Contract!BreakOff
<1>6. CASE Recover
  <2>1. /\ "it" \notin busy /\ st["it"] = "running"
        /\ st' = [st EXCEPT !["it"] = "failed"] /\ busy' = busy
    BY <1>6 DEF Recover, Busy, EndInv
  <2> QED BY <2>1 DEF Contract!Next, Contract!CloseOrphan, Contract!Become
<1> QED BY <1>1, <1>2, <1>3, <1>4, <1>5, <1>6 DEF Next, Work

\* The attempts of an investigation, whatever happens inside them, look from
\* outside like the executions Lifecycle's clients rely on.
THEOREM ExecutionKeepsContract == Spec => KeepsContract
<1>1. Spec => [](TypeInv /\ EndInv) BY TypeInvariant, EndInvariant, PTL
<1> QED BY <1>1, ContractInit, ContractStep, PTL DEF Spec, KeepsContract, Contract!Spec

=============================================================================
