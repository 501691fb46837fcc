----------------------------- MODULE Execution -----------------------------
(***************************************************************************)
(* One investigation from its creation through every attempt to execute it *)
(* (core/orchestration/orchestrator.py): the plan, the loop over its tasks *)
(* under the wall-clock budget, the three transactions of a task, the      *)
(* follow-ups a successful triage adds, and the status derived at the end. *)
(*                                                                         *)
(* A step of the model is one committed or rolled back transaction, since  *)
(* every await of the loop is inside one.  Between two steps the attempt   *)
(* may be cancelled, may die of a database error or with the process.  The *)
(* interplay of several tasks and handlers is the subject of Lifecycle.    *)
(***************************************************************************)
EXTENDS Integers, Sequences

CONSTANTS
  Triage, Report,   \* the two agents the loop knows by name
  Others,           \* the other registered agents
  Order,            \* the agents in the order the planners schedule them
  Optional,         \* scheduled only when an artifact calls for them
  Skippers,         \* agents that may return SKIPPED: log_analysis
  MaxTasks,         \* max_tasks_per_investigation
  MaxProposals,     \* bound on the tasks a triage proposes
  MaxAttempts       \* bound on the claims, the first included

Agents == {Triage, Report} \union Others

ASSUME ExecutionAssumption ==
  /\ Triage # Report
  /\ {Triage, Report} \intersect Others = {}
  /\ Order \in Seq(Agents) /\ Len(Order) > 0 /\ Order[1] = Triage
  /\ \A j, k \in DOMAIN Order : Order[j] = Order[k] => j = k
  /\ Optional \subseteq Others
  /\ Skippers \subseteq Others
  /\ MaxTasks \in Nat \ {0}
  /\ MaxProposals \in Nat
  /\ MaxAttempts \in Nat

VARIABLES
  status,     \* the status column of the investigation
  pc,         \* where the attempt stands
  attempt,    \* how many times it was claimed
  planner,    \* the planner this attempt runs with
  tasks,      \* tasks_to_run
  idx,        \* task_idx
  outcomes,   \* the statuses of state.task_outcomes
  spent,      \* the deadline has passed
  halted,     \* halted_reason is set
  result,     \* what the agent at work came back with
  rows,       \* the task_runs table
  runs        \* the agent_runs table; kept: the agent's transaction committed

attemptVars == <<attempt, planner>>
loopVars    == <<tasks, idx, outcomes, spent, halted>>
vars == <<status, pc, attemptVars, loopVars, result, rows, runs>>

Terminal  == {"completed", "partial", "failed", "halted"}
Retryable == {"failed", "halted", "partial"}
Busy      == {"begin", "loop", "agent", "close", "follow"}

\* The number 9 stands in the id of a report that was not numbered in turn.
Task(n, a) == [no |-> n, agent |-> a]
LastNo == 9

Take(s, n) == SubSeq(s, 1, IF n < Len(s) THEN n ELSE Len(s))

\* What is left of s when only the indices in K are kept: the one sequence that
\* lists them all in order, as a set so that nothing has to be counted.
Kept(s, K) ==
  {[k \in DOMAIN f |-> s[f[k]]] :
     f \in {g \in UNION {[1..n -> K] : n \in 0..Len(s)} :
             /\ \A j, k \in DOMAIN g : j < k => g[j] < g[k]
             /\ \A i \in K : \E k \in DOMAIN g : g[k] = i}}

Scheduled == {tasks[k].agent : k \in DOMAIN tasks}
Pending(ts) == [k \in DOMAIN ts |-> [task |-> ts[k], st |-> "pending"]]

Init ==
  /\ status = "absent"
  /\ pc = "idle"
  /\ attempt = 0 /\ planner = "none"
  /\ tasks = <<>> /\ idx = 1 /\ outcomes = <<>>
  /\ spent = FALSE /\ halted = FALSE
  /\ result = "none"
  /\ rows = <<>> /\ runs = <<>>

Create ==
  /\ status = "absent"
  /\ status' = "created"
  /\ UNCHANGED <<pc, attemptVars, loopVars, result, rows, runs>>

\* Slip: every investigation that is not running may be claimed.
ClaimIdle ==
  /\ pc = "idle"
  /\ status # "absent"
  /\ attempt < MaxAttempts
  /\ status' = "running"
  /\ attempt' = attempt + 1
  /\ pc' = "begin"
  /\ tasks' = <<>> /\ idx' = 1 /\ outcomes' = <<>>
  /\ spent' = FALSE /\ halted' = FALSE
  /\ UNCHANGED <<planner, result, rows, runs>>

\* A start or a retry is accepted and its task submitted; execute() begins
\* with a fresh InvestigationState.
Claim ==
  /\ pc = "idle"
  /\ status \in {"created"} \union Retryable
  /\ attempt < MaxAttempts
  /\ status' = "running"
  /\ attempt' = attempt + 1
  /\ pc' = "begin"
  /\ tasks' = <<>> /\ idx' = 1 /\ outcomes' = <<>>
  /\ spent' = FALSE /\ halted' = FALSE
  /\ UNCHANGED <<planner, result, rows, runs>>

----------------------------------------------------------------------------
(* The plan.                                                               *)

\* StaticPlanner and AdaptivePlanner: the agents in their fixed order, those
\* that depend on the artifacts only when these call for them (wanted).
Chosen(wanted) == Kept(Order, {k \in DOMAIN Order : Order[k] \notin Optional \ wanted})

Numbered(p, names) ==
  [k \in DOMAIN names |->
     Task(IF p = "static" /\ names[k] = Report THEN LastNo ELSE k, names[k])]

\* Without a planner the plan is triage alone.
InitialPlans(p) ==
  IF p = "dynamic" THEN {<<Task(1, Triage)>>}
  ELSE {Take(Numbered(p, names), MaxTasks) :
          names \in UNION {Chosen(wanted) : wanted \in SUBSET Optional}}

\* _begin: the plan's rows and RUNNING in one transaction.
Begin ==
  /\ pc = "begin"
  /\ planner' \in {"static", "adaptive", "dynamic"}
  /\ \E plan \in InitialPlans(planner') :
       /\ tasks' = plan
       /\ rows' = rows \o Pending(plan)
  /\ status' = "running"
  /\ pc' = "loop"
  /\ UNCHANGED <<attempt, idx, outcomes, spent, halted, result, runs>>

\* A triage may propose anything: these are its proposals in the order of their
\* priorities, without triage itself and the names no agent is registered for.
Proposals == UNION {[1..n -> Agents \ {Triage}] : n \in 0..MaxProposals}

\* Slip: the tasks of a triage are not numbered in turn.
ProposedUnnumbered(proposals) ==
  LET numbered == [k \in DOMAIN proposals |-> Task(2, proposals[k])]
  IN  IF \E k \in DOMAIN proposals : proposals[k] = Report THEN numbered
      ELSE Append(numbered, Task(LastNo, Report))

\* interpret_triage_result: the proposals numbered from 2, and a report at the
\* end unless one is proposed.  (The fallback for a triage without an analysis
\* is such a sequence too.)
Proposed(proposals) ==
  LET numbered == [k \in DOMAIN proposals |-> Task(k + 1, proposals[k])]
  IN  IF \E k \in DOMAIN proposals : proposals[k] = Report THEN numbered
      ELSE Append(numbered, Task(LastNo, Report))

\* Only agents that are not scheduled yet.
Fresh(created) == Kept(created, {k \in DOMAIN created : created[k].agent \notin Scheduled})

\* Slip: the tasks already planned are not counted against the limit.
FollowUpsUncounted(proposals) == {Take(new, MaxTasks) : new \in Fresh(Proposed(proposals))}

\* Only as many as there are slots left.
FollowUps(proposals) ==
  {Take(new, MaxTasks - Len(tasks)) : new \in Fresh(Proposed(proposals))}

Follow ==
  /\ pc = "follow"
  /\ \E proposals \in Proposals : \E new \in FollowUps(proposals) :
       /\ tasks' = tasks \o new
       /\ rows' = rows \o Pending(new)
  /\ idx' = idx + 1
  /\ pc' = "loop"
  /\ UNCHANGED <<status, attemptVars, outcomes, spent, halted, result, runs>>

----------------------------------------------------------------------------
(* The loop over the tasks.                                                *)

Current == tasks[idx]
AtTask  == pc = "loop" /\ idx <= Len(tasks)

\* SELECT ... WHERE task_id = ... without ORDER BY: of the rows that carry the
\* id, one per attempt that scheduled it, the database returns any.
SetRow(s) ==
  \E k \in DOMAIN rows :
    /\ rows[k].task = Current
    /\ rows' = [rows EXCEPT ![k].st = s]

AgentRun(s) == [task |-> Current, attempt |-> attempt, st |-> s, kept |-> FALSE]

\* Time passes; the deadline is set when _begin is done.
Expire ==
  /\ pc \in Busy \ {"begin"}
  /\ ~spent
  /\ spent' = TRUE
  /\ UNCHANGED <<status, pc, attemptVars, tasks, idx, outcomes, halted, result, rows, runs>>

\* Slip: the report is skipped like every other task.
SkipReport ==
  /\ AtTask
  /\ spent
  /\ runs' = Append(runs, AgentRun("skipped"))
  /\ SetRow("cancelled")
  /\ outcomes' = Append(outcomes, "skipped")
  /\ halted' = TRUE
  /\ idx' = idx + 1
  /\ UNCHANGED <<status, pc, attemptVars, tasks, spent, result>>

\* Slip: a skipped task leaves no agent_runs row.
SkipUnrecorded ==
  /\ AtTask
  /\ spent /\ Current.agent # Report
  /\ SetRow("cancelled")
  /\ outcomes' = Append(outcomes, "skipped")
  /\ halted' = TRUE
  /\ idx' = idx + 1
  /\ UNCHANGED <<status, pc, attemptVars, tasks, spent, result, runs>>

\* _skip: the budget is spent and the task is not the report.
Skip ==
  /\ AtTask
  /\ spent /\ Current.agent # Report
  /\ runs' = Append(runs, AgentRun("skipped"))
  /\ SetRow("cancelled")
  /\ outcomes' = Append(outcomes, "skipped")
  /\ halted' = TRUE
  /\ idx' = idx + 1
  /\ UNCHANGED <<status, pc, attemptVars, tasks, spent, result>>

\* Slip: the report gets no grace.
OpenInTime ==
  /\ AtTask
  /\ ~spent
  /\ runs' = Append(runs, AgentRun("running"))
  /\ SetRow("running")
  /\ pc' = "agent"
  /\ UNCHANGED <<status, attemptVars, loopVars, result>>

\* _open_run: the attempt is durable before the agent starts.
Open ==
  /\ AtTask
  /\ ~spent \/ Current.agent = Report
  /\ runs' = Append(runs, AgentRun("running"))
  /\ SetRow("running")
  /\ pc' = "agent"
  /\ UNCHANGED <<status, attemptVars, loopVars, result>>

Returns == {"succeeded"} \union (IF Current.agent \in Skippers THEN {"skipped"} ELSE {})

\* The agent returned and its session committed what it wrote.
AgentCommits ==
  /\ pc = "agent"
  /\ \E s \in Returns : result' = s
  /\ runs' = [runs EXCEPT ![Len(runs)].kept = TRUE]
  /\ pc' = "close"
  /\ UNCHANGED <<status, attemptVars, loopVars, rows>>

\* The agent returned and the commit that closes its session failed.  The
\* exception is caught, but `result` is already bound.
CommitFails ==
  /\ pc = "agent"
  /\ \E s \in Returns : result' = s
  /\ pc' = "close"
  /\ UNCHANGED <<status, attemptVars, loopVars, rows, runs>>

\* Slip: a timeout is caught inside the session, which then commits.
AgentFailsCommitted ==
  /\ pc = "agent"
  /\ result' = "failed"
  /\ runs' = [runs EXCEPT ![Len(runs)].kept = TRUE]
  /\ pc' = "close"
  /\ UNCHANGED <<status, attemptVars, loopVars, rows>>

\* The agent raised or ran into the timeout: its session rolled back.
AgentFails ==
  /\ pc = "agent"
  /\ result' = "failed"
  /\ pc' = "close"
  /\ UNCHANGED <<status, attemptVars, loopVars, rows, runs>>

\* _close_run: a task row is SUCCEEDED or FAILED, the agent's run what the
\* agent said.  A triage that succeeded first is interpreted next.
Close ==
  /\ pc = "close"
  /\ runs' = [runs EXCEPT ![Len(runs)].st = result]
  /\ SetRow(IF result = "succeeded" THEN "succeeded" ELSE "failed")
  /\ outcomes' = Append(outcomes, result)
  /\ result' = "none"
  /\ \/ /\ Current.agent = Triage /\ idx = 1
        /\ result = "succeeded" /\ planner # "static"
        /\ pc' = "follow"
        /\ UNCHANGED idx
     \/ /\ \/ Current.agent # Triage \/ idx # 1
           \/ result # "succeeded" \/ planner = "static"
        /\ pc' = "loop"
        /\ idx' = idx + 1
  /\ UNCHANGED <<status, attemptVars, tasks, spent, halted>>

Failed    == \E k \in DOMAIN outcomes : outcomes[k] = "failed"
Succeeded == \E k \in DOMAIN outcomes : outcomes[k] = "succeeded"

\* Slip: the halt is looked at last.
DeriveHaltLast ==
  CASE outcomes = <<>>         -> "failed"
    [] outcomes # <<>> /\ Failed /\ Succeeded  -> "partial"
    [] outcomes # <<>> /\ Failed /\ ~Succeeded -> "failed"
    [] outcomes # <<>> /\ ~Failed              -> "completed"

\* _derive_status: a halt or a failure is never reported as completion.
Derive ==
  CASE outcomes = <<>>                                      -> "failed"
    [] outcomes # <<>> /\ halted                            -> "halted"
    [] outcomes # <<>> /\ ~halted /\ Failed /\ Succeeded    -> "partial"
    [] outcomes # <<>> /\ ~halted /\ Failed /\ ~Succeeded   -> "failed"
    [] outcomes # <<>> /\ ~halted /\ ~Failed                -> "completed"

Finish ==
  /\ pc = "loop" /\ idx > Len(tasks)
  /\ status' = Derive
  /\ pc' = "idle"
  /\ UNCHANGED <<attemptVars, loopVars, result, rows, runs>>

----------------------------------------------------------------------------
(* The ends an attempt does not choose.  Whatever transaction was open is  *)
(* rolled back; the rows committed before it stay as they are.             *)

BreakOff(s) ==
  /\ pc \in Busy
  /\ status' = s
  /\ pc' = "idle"
  /\ result' = "none"
  /\ UNCHANGED <<attemptVars, loopVars, rows, runs>>

\* _guarded marks HALTED on a cancellation and FAILED on an exception.
Cancelled == BreakOff("halted")
Raised    == BreakOff("failed")

Kill ==
  /\ pc \in Busy
  /\ pc' = "down"
  /\ result' = "none"
  /\ UNCHANGED <<status, attemptVars, loopVars, rows, runs>>

\* recover_interrupted: orphans are failed; nothing but their row is touched.
Recover ==
  /\ pc = "down"
  /\ status' = "failed"
  /\ pc' = "idle"
  /\ UNCHANGED <<attemptVars, loopVars, result, rows, runs>>

----------------------------------------------------------------------------
Work ==
  \/ Begin \/ Follow
  \/ Skip \/ Open
  \/ AgentCommits \/ CommitFails \/ AgentFails
  \/ Close
  \/ Finish

Next ==
  \/ Create \/ Claim
  \/ Work
  \/ Expire
  \/ Cancelled \/ Raised \/ Kill \/ Recover

Spec == Init /\ [][Next]_vars

\* The event loop and the deadline keep an attempt moving (an agent runs under
\* wait_for), and a process that died is started again.
FairSpec == Spec /\ WF_vars(Work) /\ WF_vars(Recover)
----------------------------------------------------------------------------
(* Properties.                                                             *)

TaskStatus == {"pending", "running", "succeeded", "failed", "cancelled"}
RunStatus  == {"running", "succeeded", "failed", "skipped"}
Tasks      == [no : Nat, agent : Agents]
Row        == [task : Tasks, st : TaskStatus]
Run        == [task : Tasks, attempt : Nat, st : RunStatus, kept : BOOLEAN]

\* Every variable holds what its column or field can hold, and the loop's
\* index stays within one of the plan.
TypeOK ==
  /\ status \in {"absent", "created", "running"} \union Terminal
  /\ pc \in Busy \union {"idle", "down"}
  /\ attempt \in 0..MaxAttempts
  /\ planner \in {"none", "static", "adaptive", "dynamic"}
  /\ tasks \in Seq(Tasks)
  /\ idx \in 1..(Len(tasks) + 1)
  /\ outcomes \in Seq(RunStatus \ {"running"})
  /\ spent \in BOOLEAN /\ halted \in BOOLEAN
  /\ result \in {"none", "succeeded", "skipped", "failed"}
  /\ rows \in Seq(Row)
  /\ runs \in Seq(Run)

Opened == pc \in {"agent", "close"}

\* The runs of this attempt, or of the last one, are those behind this one.
Before == Len(runs) - Len(outcomes) - (IF Opened THEN 1 ELSE 0)

\* The execution trace: the agent_runs rows of the attempt are the tasks it has
\* dealt with, in the order of the plan and with the outcome it will report,
\* and one RUNNING row more while an agent is at work.
TraceMatchesOutcomes ==
  pc \in Busy =>
    /\ Before >= 0
    /\ \A k \in DOMAIN runs : runs[k].attempt = attempt <=> k > Before
    /\ \A k \in DOMAIN outcomes :
         runs[Before + k].st = outcomes[k] /\ runs[Before + k].task = tasks[k]
    /\ Opened => runs[Len(runs)].st = "running" /\ runs[Len(runs)].task = Current

RunOf(k, t) == runs[k].attempt = attempt /\ runs[k].task = t

\* "Partial output from a failed tool must not become citable evidence": what a
\* failed task wrote is not in the database, through every retry, cancellation
\* and crash.
FailedLeavesNothing ==
  \A k \in DOMAIN runs : runs[k].st = "failed" => ~runs[k].kept

Ended == pc = "idle" /\ attempt > 0

\* "An investigation is never reported as completed when part of it did not
\* run": each of its tasks has a run of the last attempt, none of these failed
\* or is still marked RUNNING, and whatever was skipped was skipped by an agent
\* that found nothing to do, not by the budget.
CompletedRanEverything ==
  status = "completed" =>
    /\ \A t \in DOMAIN tasks : \E k \in DOMAIN runs : RunOf(k, tasks[t])
    /\ \A k \in DOMAIN runs : runs[k].attempt = attempt =>
         \/ runs[k].st = "succeeded"
         \/ runs[k].st = "skipped" /\ runs[k].task.agent \in Skippers
    /\ ~halted

\* "A halted investigation still produces a report": when the budget ended an
\* attempt that scheduled the report, the report was tried, not skipped.
HaltedStillReports ==
  Ended /\ halted /\ idx > Len(tasks) /\ Report \in Scheduled =>
    \E k \in DOMAIN runs :
      runs[k].attempt = attempt /\ runs[k].task.agent = Report /\ runs[k].st # "skipped"

\* However many follow-ups a triage proposes, the limit on the tasks of an
\* investigation holds for each of its attempts.
WithinTaskLimit == Len(tasks) <= MaxTasks

\* While no attempt was retried, one that went through its plan leaves no row
\* pending or running (orchestrator.py:755-845).
FirstAttemptSettlesItsRows ==
  attempt = 1 /\ status \in Terminal /\ idx > Len(tasks) /\ pc = "idle" =>
    \A k \in DOMAIN rows : rows[k].st \notin {"pending", "running"}

\* An attempt that was begun comes to an end.
AttemptsEnd == pc \in Busy ~> pc = "idle"

Contract == INSTANCE InvestigationContract WITH
  Investigations <- {"it"},
  st   <- [i \in {"it"} |-> status],
  busy <- {i \in {"it"} : pc \in Busy}

\* The execution keeps what Lifecycle's clients rely on: it starts by a claim
\* and ends once, in a terminal status.
KeepsContract == Contract!Spec
=============================================================================
