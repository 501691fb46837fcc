----------------------------- MODULE Lifecycle -----------------------------
(***************************************************************************)
(* The life of an investigation's row under the HTTP handlers that claim,  *)
(* cancel, retry and delete it (api/routers/investigations.py), the        *)
(* InvestigationRunner that executes it in asyncio tasks of the same       *)
(* process (core/orchestration/runner.py), and the process itself, which   *)
(* shuts down, dies and restarts.                                          *)
(*                                                                         *)
(* A handler is split where it awaits the database: the dependency         *)
(* get_investigation loads the row, later steps act on what was loaded.    *)
(* Between two steps of one handler any other handler, any runner task and *)
(* a crash may run.  What an execution does between its first and its last *)
(* write of the status is the subject of module Execution; here it is the  *)
(* phase "work".                                                           *)
(*                                                                         *)
(* An accepted start or retry submits exactly one runner task, so a task   *)
(* carries the name of the request that submitted it.                      *)
(***************************************************************************)
EXTENDS Integers, FiniteSets

CONSTANTS
  Investigations,   \* investigation ids
  Requests,         \* requests the clients may issue, each once
  MaxConcurrent,    \* permits of the runner's semaphore
  MaxRestarts,      \* bound on the number of times the process goes down
  Patient,          \* TRUE: no request is issued while another is in flight
  WritesMayFail,    \* TRUE: _mark_failed may fail to reach the database
  None              \* no request, no investigation

ASSUME ConstantsAssumption ==
  /\ IsFiniteSet(Requests)
  /\ MaxConcurrent \in Nat \ {0}
  /\ MaxRestarts \in Nat
  /\ Patient \in BOOLEAN
  /\ WritesMayFail \in BOOLEAN
  /\ None \notin Investigations \union Requests

VARIABLES
  status,      \* the status column; "absent" and "deleted" are no row at all
  lost,        \* investigations whose failure could not be written down
  phase,       \* where the task submitted by each request stands
  cancelled,   \* tasks whose CancelledError is requested and not yet raised
  permits,     \* free permits of the semaphore
  op, on,      \* what each request asks, and of which investigation
  seen,        \* the status its handler loaded
  at,          \* where its handler stands
  joined,      \* the task a cancel handler awaits
  server,      \* the process
  restarts     \* how often it went down

rowVars    == <<status, lost>>
taskVars   == <<phase, cancelled, permits>>
reqVars    == <<op, on, seen, at, joined>>
serverVars == <<server, restarts>>
vars == <<rowVars, taskVars, reqVars, serverVars>>

Terminal == {"completed", "partial", "failed", "halted"}

\* Slips: a retry that also takes stuck runs, or runs that are over.
RetryableStuck == {"failed", "halted", "partial", "running"}
RetryableDone  == {"failed", "halted", "partial", "completed"}
Retryable == {"failed", "halted", "partial"}

Ops == {"start", "cancel", "retry", "delete"}

Present(i) == status[i] \notin {"absent", "deleted"}

\* Tasks that hold a permit: everything between the two ends of _guarded.
Inside == {"begin", "work", "settled", "mark_halted", "mark_failed"}
Live   == Inside \union {"queued"}

Holders     == {t \in Requests : phase[t] \in Inside}
LiveTasks   == {t \in Requests : phase[t] \in Live}
TasksOf(i)  == {t \in LiveTasks : on[t] = i}
InFlight    == {r \in Requests : at[r] \in {"loaded", "claimed", "waiting", "marking", "overwriting"}}

\* A client that waits for its answer and polls until the run has left the
\* runner before it asks for anything else.
Quiet == InFlight = {} /\ \A t \in Requests : phase[t] \notin {"settled", "mark_halted", "mark_failed"}

Init ==
  /\ status    = [i \in Investigations |-> "absent"]
  /\ lost      = {}
  /\ phase     = [t \in Requests |-> "none"]
  /\ cancelled = {}
  /\ permits   = MaxConcurrent
  /\ op        = [r \in Requests |-> "none"]
  /\ on        = [r \in Requests |-> None]
  /\ seen      = [r \in Requests |-> "absent"]
  /\ at        = [r \in Requests |-> "idle"]
  /\ joined    = [r \in Requests |-> None]
  /\ server    = "up"
  /\ restarts  = 0

Write(i, s) == status' = [status EXCEPT ![i] = s]
Answer(r, a) == at' = [at EXCEPT ![r] = a]

----------------------------------------------------------------------------
(* The handlers.                                                           *)

\* create_investigation: one transaction inserts the row in CREATED.
Create(i) ==
  /\ server = "up"
  /\ status[i] = "absent"
  /\ Write(i, "created")
  /\ UNCHANGED <<lost, taskVars, reqVars, serverVars>>

\* get_investigation runs before the handler's body: a missing row is a 404,
\* otherwise the handler goes on with the row as it is now.
Arrive(r, o, i) ==
  /\ server = "up"
  /\ at[r] = "idle"
  /\ Present(i)
  /\ Patient => Quiet
  /\ op' = [op EXCEPT ![r] = o]
  /\ on' = [on EXCEPT ![r] = i]
  /\ seen' = [seen EXCEPT ![r] = status[i]]
  /\ Answer(r, "loaded")
  /\ UNCHANGED <<rowVars, taskVars, joined, serverVars>>

\* Slip: the claim trusts the status the handler loaded.
StartClaimLoaded(r) ==
  /\ at[r] = "loaded" /\ op[r] = "start"
  /\ seen[r] = "created"
  /\ Write(on[r], "running")
  /\ Answer(r, "claimed")
  /\ UNCHANGED <<lost, taskVars, op, on, seen, joined, serverVars>>

\* start_investigation: UPDATE ... WHERE status = 'created', committed before
\* the task is scheduled.  The loaded status plays no part.
StartClaim(r) ==
  /\ at[r] = "loaded" /\ op[r] = "start"
  /\ status[on[r]] = "created"
  /\ Write(on[r], "running")
  /\ Answer(r, "claimed")
  /\ UNCHANGED <<lost, taskVars, op, on, seen, joined, serverVars>>

StartConflict(r) ==
  /\ at[r] = "loaded" /\ op[r] = "start"
  /\ status[on[r]] # "created"
  /\ Answer(r, "refused")
  /\ UNCHANGED <<rowVars, taskVars, op, on, seen, joined, serverVars>>

\* retry_investigation: both the loaded status and the row's must be retryable.
RetryClaim(r) ==
  /\ at[r] = "loaded" /\ op[r] = "retry"
  /\ seen[r] \in Retryable
  /\ status[on[r]] \in Retryable
  /\ Write(on[r], "running")
  /\ Answer(r, "claimed")
  /\ UNCHANGED <<lost, taskVars, op, on, seen, joined, serverVars>>

RetryConflict(r) ==
  /\ at[r] = "loaded" /\ op[r] = "retry"
  /\ seen[r] \notin Retryable \/ status[on[r]] \notin Retryable
  /\ Answer(r, "refused")
  /\ UNCHANGED <<rowVars, taskVars, op, on, seen, joined, serverVars>>

\* The handler resumes after its commit and hands the investigation to
\* InvestigationRunner.submit.
Submit(r) ==
  /\ at[r] = "claimed"
  /\ phase' = [phase EXCEPT ![r] = "queued"]
  /\ Answer(r, "ok")
  /\ UNCHANGED <<rowVars, cancelled, permits, op, on, seen, joined, serverVars>>

\* cancel_investigation looks at the loaded status only.
CancelConflict(r) ==
  /\ at[r] = "loaded" /\ op[r] = "cancel"
  /\ seen[r] \in Terminal
  /\ Answer(r, "refused")
  /\ UNCHANGED <<rowVars, taskVars, op, on, seen, joined, serverVars>>

\* runner.cancel found a task of that name (the first of a set, so any), asked
\* for its cancellation and awaits it.
CancelTask(r) ==
  /\ at[r] = "loaded" /\ op[r] = "cancel"
  /\ seen[r] \notin Terminal
  /\ \E t \in TasksOf(on[r]) :
       /\ cancelled' = cancelled \union {t}
       /\ joined' = [joined EXCEPT ![r] = t]
  /\ Answer(r, "waiting")
  /\ UNCHANGED <<rowVars, phase, permits, op, on, seen, serverVars>>

\* runner.cancel found none and returned False: the handler is about to write
\* HALTED over whatever the row then says.
CancelMissed(r) ==
  /\ at[r] = "loaded" /\ op[r] = "cancel"
  /\ seen[r] \notin Terminal
  /\ TasksOf(on[r]) = {}
  /\ Answer(r, "overwriting")
  /\ UNCHANGED <<rowVars, taskVars, op, on, seen, joined, serverVars>>

CancelOverwrite(r) ==
  /\ at[r] = "overwriting"
  /\ \/ /\ Present(on[r])
        /\ Write(on[r], "halted")
        /\ Answer(r, "ok")
     \/ /\ ~Present(on[r])      \* the UPDATE matches no row: the flush raises
        /\ Answer(r, "refused")
        /\ UNCHANGED status
  /\ UNCHANGED <<lost, taskVars, op, on, seen, joined, serverVars>>

CancelJoined(r) ==
  /\ at[r] = "waiting"
  /\ phase[joined[r]] = "done"
  /\ Answer(r, "marking")
  /\ UNCHANGED <<rowVars, taskVars, op, on, seen, joined, serverVars>>

\* Slip: the row is written back without a look at whether it still exists.
MarkUnchecked(i, s) ==
  /\ Write(i, s)
  /\ UNCHANGED lost

\* _mark_failed: overwrites the status of a row that exists; an exception on
\* the way is logged and swallowed.
MarkRow(i, s) ==
  \/ /\ Present(i)
     /\ Write(i, s)
     /\ UNCHANGED lost
  \/ /\ ~Present(i)
     /\ UNCHANGED rowVars
  \/ /\ WritesMayFail
     /\ lost' = lost \union {i}
     /\ UNCHANGED status

CancelMark(r) ==
  /\ at[r] = "marking"
  /\ MarkRow(on[r], "halted")
  /\ Answer(r, "ok")
  /\ UNCHANGED <<taskVars, op, on, seen, joined, serverVars>>

\* delete_investigation: refused when append-only records exist and no purge
\* was asked for; otherwise the row goes, whatever its status is.
Delete(r) ==
  /\ at[r] = "loaded" /\ op[r] = "delete"
  /\ \/ /\ Present(on[r])
        /\ Write(on[r], "deleted")
        /\ Answer(r, "ok")
     \/ /\ Answer(r, "refused")
        /\ UNCHANGED status
  /\ UNCHANGED <<lost, taskVars, op, on, seen, joined, serverVars>>

----------------------------------------------------------------------------
(* The runner's tasks: InvestigationRunner._guarded.                       *)

Move(t, p) == phase' = [phase EXCEPT ![t] = p]

\* Leaving `async with self._semaphore`; the done callback forgets the task.
Leave(t) ==
  /\ Move(t, "done")
  /\ permits' = permits + 1
  /\ cancelled' = cancelled \ {t}

Acquire(t) ==
  /\ phase[t] = "queued"
  /\ t \notin cancelled
  /\ permits > 0
  /\ permits' = permits - 1
  /\ Move(t, "begin")
  /\ UNCHANGED <<rowVars, cancelled, reqVars, serverVars>>

\* Slip: a waiter that was cancelled gives back a permit it never had.
CancelQueuedReleases(t) ==
  /\ phase[t] = "queued"
  /\ t \in cancelled
  /\ Leave(t)
  /\ UNCHANGED <<rowVars, reqVars, serverVars>>

\* Cancelled while it waits for the semaphore: the `try` was not entered, so
\* nothing is marked.
CancelQueued(t) ==
  /\ phase[t] = "queued"
  /\ t \in cancelled
  /\ Move(t, "done")
  /\ cancelled' = cancelled \ {t}
  /\ UNCHANGED <<rowVars, permits, reqVars, serverVars>>

\* Orchestrator._begin commits RUNNING over whatever the row says.
Begin(t) ==
  /\ phase[t] = "begin"
  /\ t \notin cancelled
  /\ Present(on[t])
  /\ Write(on[t], "running")
  /\ Move(t, "work")
  /\ UNCHANGED <<lost, cancelled, permits, reqVars, serverVars>>

\* Orchestrator._finish commits the status derived from the outcomes.
Finish(t) ==
  /\ phase[t] = "work"
  /\ t \notin cancelled
  /\ Present(on[t])
  /\ \E s \in Terminal : Write(on[t], s)
  /\ Move(t, "settled")
  /\ UNCHANGED <<lost, cancelled, permits, reqVars, serverVars>>

\* Slip: the exception ends the task and nobody marks the row.
CrashUnmarked(t) ==
  /\ phase[t] \in {"begin", "work"}
  /\ t \notin cancelled
  /\ Leave(t)
  /\ UNCHANGED <<rowVars, reqVars, serverVars>>

\* execute() raises: a missing row, or a database error outside an agent.
Crash(t) ==
  /\ phase[t] \in {"begin", "work"}
  /\ t \notin cancelled
  /\ Move(t, "mark_failed")
  /\ UNCHANGED <<rowVars, cancelled, permits, reqVars, serverVars>>

Return(t) ==
  /\ phase[t] = "settled"
  /\ t \notin cancelled
  /\ Leave(t)
  /\ UNCHANGED <<rowVars, reqVars, serverVars>>

\* What the commit a task is suspended in may leave in its row when the
\* CancelledError overtakes it.
Landed(t) ==
  {status[on[t]]} \union
    {s \in {"running"} \union Terminal :
       /\ Present(on[t])
       /\ phase[t] = (IF s = "running" THEN "begin" ELSE "work")}

\* CancelledError inside execute(): the handler marks HALTED before it raises.
Interrupt(t) ==
  /\ phase[t] \in {"begin", "work", "settled"}
  /\ t \in cancelled
  /\ \E s \in Landed(t) : Write(on[t], s)
  /\ Move(t, "mark_halted")
  /\ cancelled' = cancelled \ {t}
  /\ UNCHANGED <<lost, permits, reqVars, serverVars>>

\* A second cancellation while _mark_failed awaits ends the task at once; the
\* write it waited for may have landed.
InterruptMark(t) ==
  /\ phase[t] \in {"mark_halted", "mark_failed"}
  /\ t \in cancelled
  /\ Leave(t)
  /\ \/ UNCHANGED status
     \/ /\ Present(on[t])
        /\ Write(on[t], IF phase[t] = "mark_halted" THEN "halted" ELSE "failed")
  /\ UNCHANGED <<lost, reqVars, serverVars>>

\* Slip: marking waits for a lock the cancel handler holds while it awaits.
MarkLocked(t) ==
  /\ phase[t] \in {"mark_halted", "mark_failed"}
  /\ t \notin cancelled
  /\ \A r \in Requests : at[r] = "waiting" => joined[r] # t
  /\ MarkRow(on[t], IF phase[t] = "mark_halted" THEN "halted" ELSE "failed")
  /\ Leave(t)
  /\ UNCHANGED <<reqVars, serverVars>>

Mark(t) ==
  /\ phase[t] \in {"mark_halted", "mark_failed"}
  /\ t \notin cancelled
  /\ MarkRow(on[t], IF phase[t] = "mark_halted" THEN "halted" ELSE "failed")
  /\ Leave(t)
  /\ UNCHANGED <<reqVars, serverVars>>

----------------------------------------------------------------------------
(* The process: lifespan, runner.shutdown, runner.recover_interrupted.     *)

\* The server stops accepting and answers what is in flight before it runs the
\* shutdown half of the lifespan.
ShutdownBegin ==
  /\ server = "up"
  /\ InFlight = {}
  /\ restarts < MaxRestarts
  /\ server' = "stopping"
  /\ UNCHANGED <<rowVars, taskVars, reqVars, restarts>>

\* wait_all gave up after its timeout: every task left is cancelled.
ShutdownCancel ==
  /\ server = "stopping"
  /\ LiveTasks # {}
  /\ cancelled' = cancelled \union LiveTasks
  /\ server' = "draining"
  /\ UNCHANGED <<rowVars, phase, permits, reqVars, restarts>>

\* Nothing of the process survives: no task, no semaphore, no open request.
ProcessGone ==
  /\ phase' = [t \in Requests |-> IF phase[t] \in Live THEN "done" ELSE phase[t]]
  /\ cancelled' = {}
  /\ permits' = MaxConcurrent
  /\ at' = [r \in Requests |-> IF r \in InFlight THEN "dropped" ELSE at[r]]
  /\ server' = "down"
  /\ restarts' = restarts + 1
  /\ UNCHANGED <<rowVars, op, on, seen, joined>>

ShutdownEnd ==
  /\ server \in {"stopping", "draining"}
  /\ LiveTasks = {}
  /\ ProcessGone

Kill ==
  /\ server # "down"
  /\ restarts < MaxRestarts
  /\ ProcessGone

\* Slip: the sweep is left out.
RestartUnswept ==
  /\ server = "down"
  /\ server' = "up"
  /\ UNCHANGED <<rowVars, taskVars, reqVars, restarts>>

\* The lifespan sweeps orphans before the first request is accepted.
Restart ==
  /\ server = "down"
  /\ server' = "up"
  /\ status' = [i \in Investigations |-> IF status[i] = "running" THEN "failed" ELSE status[i]]
  /\ UNCHANGED <<lost, taskVars, reqVars, restarts>>

----------------------------------------------------------------------------
Handler(r) ==
  \/ StartClaim(r) \/ StartConflict(r)
  \/ RetryClaim(r) \/ RetryConflict(r)
  \/ Submit(r)
  \/ CancelConflict(r) \/ CancelTask(r) \/ CancelMissed(r)
  \/ CancelOverwrite(r) \/ CancelJoined(r) \/ CancelMark(r)
  \/ Delete(r)

Task(t) ==
  \/ Acquire(t) \/ CancelQueued(t)
  \/ Begin(t) \/ Finish(t) \/ Crash(t) \/ Return(t)
  \/ Interrupt(t) \/ InterruptMark(t) \/ Mark(t)

Process == ShutdownBegin \/ ShutdownCancel \/ ShutdownEnd \/ Kill \/ Restart

Next ==
  \/ \E i \in Investigations : Create(i)
  \/ \E r \in Requests, o \in Ops, i \in Investigations : Arrive(r, o, i)
  \/ \E r \in Requests : Handler(r)
  \/ \E t \in Requests : Task(t)
  \/ Process

Spec == Init /\ [][Next]_vars

\* The event loop runs what is ready; agents run under wait_for and the loop
\* over tasks under a deadline, so an execution cannot stay in "work"; a
\* process that is down is started again.  Clients, crashes and the shutdown
\* signal are not fair.
Fairness ==
  /\ \A r \in Requests : WF_vars(Handler(r))
  /\ \A t \in Requests : WF_vars(Task(t))
  /\ WF_vars(ShutdownCancel \/ ShutdownEnd \/ Restart)

FairSpec == Spec /\ Fairness
----------------------------------------------------------------------------
(* Properties.                                                             *)

\* Every variable holds what its column or field can hold; the sweep, like
\* every other write, stays within the statuses the enumeration knows.
TypeOK ==
  /\ status \in [Investigations -> {"absent", "created", "running", "deleted"} \union Terminal]
  /\ lost \subseteq Investigations
  /\ phase \in [Requests -> {"none", "done"} \union Live]
  /\ cancelled \subseteq Requests
  /\ permits \in Nat
  /\ op \in [Requests -> Ops \union {"none"}]
  /\ on \in [Requests -> Investigations \union {None}]
  /\ seen \in [Requests -> {"absent", "created", "running"} \union Terminal]
  /\ at \in [Requests -> {"idle", "loaded", "claimed", "waiting", "marking", "overwriting",
                          "ok", "refused", "dropped"}]
  /\ joined \in [Requests -> Requests \union {None}]
  /\ server \in {"up", "stopping", "draining", "down"}
  /\ restarts \in Nat

\* No exit path of a task (return, exception, cancellation before, during or
\* after the work, a second cancellation of the handler that marks the row)
\* keeps or returns a permit twice, so at most MaxConcurrent executions hold
\* the machine and none of the permits is ever lost.
PermitsConserved == permits + Cardinality(Holders) = MaxConcurrent

\* However start requests interleave with each other, with cancels, retries,
\* executions and restarts, the database elects at most one starter.
OneStarter ==
  \A r1, r2 \in Requests :
    /\ op[r1] = "start" /\ at[r1] \in {"claimed", "ok"}
    /\ op[r2] = "start" /\ at[r2] \in {"claimed", "ok"}
    /\ on[r1] = on[r2]
    => r1 = r2

\* "No silent loss": a row that says RUNNING has somebody who will still write
\* its end (a task, a handler about to submit one or to mark the row, or the
\* sweep of the next start), unless the one write that said so failed.
Owned(i) ==
  \/ \E t \in Requests : on[t] = i /\ phase[t] \in Live \ {"settled"}
  \/ \E r \in Requests : on[r] = i /\ at[r] \in {"claimed", "waiting", "marking", "overwriting"}
  \/ server \in {"draining", "down"}

NoSilentLoss == \A i \in Investigations : status[i] = "running" => Owned(i) \/ i \in lost

\* A deleted investigation is not brought back by a task, a cancel or a sweep
\* that still knows its id.
DeletedStaysDeleted ==
  [][\A i \in Investigations : status[i] = "deleted" => status'[i] = "deleted"]_vars

Executing(i) == {t \in TasksOf(i) : phase[t] \in {"queued", "begin", "work"}}

\* With patient clients no investigation is executed by two tasks at once, so
\* no tool runs twice side by side, and the row of one that is being executed
\* says so: a cancel that was answered really ended the run (start, retry and
\* cancel of investigations.py against runner.submit and runner.cancel).
AtMostOneExecution ==
  Patient => \A i \in Investigations :
    /\ \A t1, t2 \in Executing(i) : t1 = t2
    /\ Executing(i) # {} => status[i] \in {"running", "deleted"}

\* The contract of a patient client, with the claims not yet submitted and the
\* tasks not yet settled as the executions under way.
Contract == INSTANCE InvestigationContract WITH
  st   <- status,
  busy <- {i \in Investigations :
             Executing(i) # {} \/ \E r \in Requests : on[r] = i /\ at[r] = "claimed"}

KeepsContract == Contract!Spec

\* "cannot cancel investigation with terminal status": a cancel that is
\* answered does not write over a result the execution has recorded.
CancelSparesTerminal ==
  [][\A r \in Requests :
       at[r] = "overwriting" /\ at'[r] = "ok" => status[on[r]] \notin Terminal]_vars

\* Every claimed investigation reaches an end, through its task, through the
\* handler that cancels it or through the sweep after the process died.
RunsEnd == \A i \in Investigations : status[i] = "running" ~> status[i] # "running"

\* A cancel handler awaits a task it has cancelled; it is answered, or dropped
\* with the process.
CancelsAnswered == \A r \in Requests : at[r] = "waiting" ~> at[r] \in {"ok", "dropped"}
=============================================================================
