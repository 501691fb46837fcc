--------------------------- MODULE EvidenceRecord ---------------------------
(***************************************************************************)
(* The evidence record of one investigation (core/evidence/store.py), the  *)
(* sessions of the agents that fill it through audited tool calls          *)
(* (tools/runner.py) and the handler that purges it                        *)
(* (api/routers/investigations.py).                                        *)
(*                                                                         *)
(* SQLite has one writer at a time: a session's first INSERT takes the     *)
(* write lock, which is held until it commits or rolls back.  What comes   *)
(* before it, a SELECT, runs in no transaction and sees the last commit.   *)
(* So there are two copies of the tables: db, what is committed, and work, *)
(* what the holder of the lock sees.                                       *)
(***************************************************************************)
EXTENDS Integers, Sequences, FiniteSetsExt, Functions

CONSTANTS
  Sessions,         \* executions of an agent, each a database session
  Purges,           \* DELETE requests
  Readers,          \* agents that call no tool: correlation, mitre, ...
  Calls,            \* tool calls: the tool, its arguments, its artifact
  Tolerated,        \* calls whose failure the agent catches: pcap, threat intel
  TriageCalls, LogCalls,   \* what triage and log_analysis call, in order
  Observations,     \* what content hashes tell apart
  Output,           \* the observations a call extracts: tools are deterministic
  MaxEvidence,      \* max_evidence_per_investigation
  Nobody

Agents == {"triage", "log_analysis"} \union Readers

ASSUME RecordAssumption ==
  /\ {"triage", "log_analysis"} \intersect Readers = {}
  /\ Tolerated \subseteq Calls
  /\ TriageCalls \in Seq(Calls) /\ LogCalls \in Seq(Calls)
  /\ Output \in [Calls -> Seq(Observations)]
  /\ MaxEvidence \in Nat
  /\ Nobody \notin Sessions \union Purges
  /\ Sessions \intersect Purges = {}

VARIABLES
  db,        \* the committed tables
  work,      \* the tables as the holder of the lock sees them
  lock,      \* who holds the write lock
  at,        \* where each session stands
  agent,     \* the agent each session executes
  call,      \* the number of the tool call each session is at
  made,      \* the evidence rows its tool calls created
  dropped,   \* last_quota_dropped of its EvidenceStore
  draft,     \* the claim it is about to write
  stage,     \* where each purge handler stands
  counts     \* the records each purge handler counted

sessionVars == <<at, agent, call, made, dropped, draft>>
purgeVars   == <<stage, counts>>
vars == <<db, work, lock, sessionVars, purgeVars>>

ToolsOf(a) == CASE a = "triage" -> TriageCalls
                [] a = "log_analysis" -> LogCalls
                [] a \in Readers -> <<>>

\* No row of any table; there is an investigation to add them to.
Fresh == [row |-> TRUE, evidence |-> {}, runs |-> {}, findings |-> {}, audit |-> {}]
NoClaim == [class |-> "none", cites |-> {}]

Init ==
  /\ db = Fresh /\ work = Fresh
  /\ lock = Nobody
  /\ at = [s \in Sessions |-> "new"]
  /\ agent = [s \in Sessions |-> "none"]
  /\ call = [s \in Sessions |-> 1]
  /\ made = [s \in Sessions |-> {}]
  /\ dropped = [s \in Sessions |-> 0]
  /\ draft = [s \in Sessions |-> NoClaim]
  /\ stage = [p \in Purges |-> "new"]
  /\ counts = [p \in Purges |-> [evidence |-> 0, findings |-> 0, runs |-> 0]]

Obs(rows) == {e.obs : e \in rows}

Free(who) == lock \in {Nobody, who}
View(who) == IF lock = who THEN work ELSE db

Goto(s, place) == at' = [at EXCEPT ![s] = place]

----------------------------------------------------------------------------
(* A session.                                                              *)

\* _run_task: the investigation is loaded, then the agent is run.
Enter(s) ==
  /\ at[s] = "new" /\ db.row
  /\ \E a \in Agents :
       /\ agent' = [agent EXCEPT ![s] = a]
       /\ Goto(s, IF a \in Readers THEN "more" ELSE "calls")
  /\ UNCHANGED <<db, work, lock, call, made, dropped, draft, purgeVars>>

Current(s) == ToolsOf(agent[s])[call[s]]
RunId(s)   == <<s, call[s]>>
AtCall(s)  == at[s] = "calls" /\ call[s] <= Len(ToolsOf(agent[s]))
ToolRun(s, state, n, lost) == [id |-> RunId(s), call |-> Current(s), st |-> state,
                               count |-> n, lost |-> lost]

\* ToolRunner.run, until the adapter is called: the tool_runs row is flushed,
\* which takes the lock and needs the investigation to be there.
Invoke(s) ==
  /\ AtCall(s)
  /\ Free(s) /\ View(s).row
  /\ lock' = s
  /\ work' = [View(s) EXCEPT !.runs = @ \union {ToolRun(s, "running", 0, 0)}]
  /\ Goto(s, "tool")
  /\ UNCHANGED <<db, agent, call, made, dropped, draft, purgeVars>>

\* What is refused before there is a row to audit it: a tool that is not
\* available, a file that is gone.
NotRun(s) ==
  /\ AtCall(s)
  /\ Current(s) \in Tolerated
  /\ call' = [call EXCEPT ![s] = @ + 1]
  /\ UNCHANGED <<db, work, lock, at, agent, made, dropped, draft, purgeVars>>

\* Slip: the outcome is a row of its own.
FinalizeAppends(s, state, n, lost) == work.runs \union {ToolRun(s, state, n, lost)}

\* _finalize.
Finalize(s, state, n, lost) ==
  (work.runs \ {ToolRun(s, "running", 0, 0)}) \union {ToolRun(s, state, n, lost)}

\* The tool raised or timed out and the agent carries on without it.
ToolFails(s) ==
  /\ at[s] = "tool"
  /\ Current(s) \in Tolerated
  /\ work' = [work EXCEPT !.runs = Finalize(s, "failed", 0, 0)]
  /\ call' = [call EXCEPT ![s] = @ + 1]
  /\ Goto(s, "calls")
  /\ UNCHANGED <<db, lock, agent, made, dropped, draft, purgeVars>>

\* Slip: the quota bounds what one call may add.
HeadroomOfCall(rows) == MaxEvidence

\* max(0, max_evidence - count_evidence()).
Headroom(rows) == Max({0, MaxEvidence - Cardinality(rows)})

\* Slip: only what this session recorded is looked up.
UnseenBySession(s) == Range(Output[Current(s)]) \ Obs(made[s])

\* The observations of the call that the investigation does not hold.
Unseen(s) == Range(Output[Current(s)]) \ Obs(work.evidence)

\* Of the fresh ones, in the order of the drafts, those there is room for.
Retained(drafts, fresh, room) ==
  {kept \in SUBSET fresh :
     /\ Cardinality(kept) = Min({Cardinality(fresh), room})
     /\ \A j, k \in DOMAIN drafts :
          drafts[k] \in kept /\ drafts[j] \in fresh \ kept =>
            \E i \in DOMAIN drafts : i < j /\ drafts[i] = drafts[k]}

\* Slip: a batch that is left out as a whole is not counted.
ShortfallOfSome(drafts, fresh, kept) ==
  IF kept = {} THEN 0 ELSE Cardinality({k \in DOMAIN drafts : drafts[k] \in fresh \ kept})

\* A draft that is left out is counted each time the batch repeats it.
Shortfall(drafts, fresh, kept) ==
  Cardinality({k \in DOMAIN drafts : drafts[k] \in fresh \ kept})

\* add_evidence and _finalize with what it created.  A call without drafts
\* returns early and leaves last_quota_dropped as it is.
Store(s) ==
  LET drafts == Output[Current(s)]
      fresh  == Unseen(s)
  IN
  /\ at[s] = "tool"
  /\ \E kept \in Retained(drafts, fresh, Headroom(work.evidence)) :
       LET rows == {[obs |-> o, run |-> RunId(s)] : o \in kept}
           lost == IF drafts = <<>> THEN dropped[s] ELSE Shortfall(drafts, fresh, kept)
       IN /\ work' = [work EXCEPT !.evidence = @ \union rows,
                                  !.runs = Finalize(s, "succeeded", Cardinality(rows), lost)]
          /\ made' = [made EXCEPT ![s] = @ \union rows]
          /\ dropped' = [dropped EXCEPT ![s] = lost]
  /\ call' = [call EXCEPT ![s] = @ + 1]
  /\ Goto(s, "calls")
  /\ UNCHANGED <<db, lock, agent, draft, purgeVars>>

\* The tools have been run.
Called(s) == at[s] = "calls" /\ call[s] > Len(ToolsOf(agent[s]))

\* lines_matched counts what the parser recognised, recorded before or not.
Matched == \E k \in DOMAIN LogCalls : Output[LogCalls[k]] # <<>>

Propose(s, class, cites) ==
  /\ draft' = [draft EXCEPT ![s] = [class |-> class, cites |-> cites]]
  /\ Goto(s, "record")
  /\ UNCHANGED <<db, work, lock, agent, call, made, dropped, purgeVars>>

\* The fact an agent states about what its calls created.  Triage says that no
\* indicator could be extracted when they created nothing; log_analysis looks
\* at the lines it matched.  _enforce_grounding wants a row to cite (G1).
StateFact(s) ==
  /\ Called(s)
  /\ made[s] # {}
  /\ agent[s] = "log_analysis" => Matched
  /\ Propose(s, "fact", made[s])

StateNothing(s) ==
  /\ Called(s)
  /\ IF agent[s] = "triage" THEN made[s] = {} ELSE ~Matched
  /\ Propose(s, "unknown", {})

\* Slip: the connection goes back to the pool with its transaction.
RollBackLeaks(s, place) ==
  /\ Goto(s, place)
  /\ UNCHANGED <<db, work, lock, agent, call, made, dropped, draft, purgeVars>>

\* Where a session ends without having committed anything.
RollBack(s, place) ==
  /\ Goto(s, place)
  /\ lock' = IF lock = s THEN Nobody ELSE lock
  /\ work' = IF lock = s THEN db ELSE work
  /\ UNCHANGED <<db, agent, call, made, dropped, draft, purgeVars>>

\* GroundingError: a FACT that cites nothing.
Refused(s) ==
  /\ Called(s)
  /\ agent[s] = "log_analysis" /\ Matched
  /\ made[s] = {}
  /\ RollBack(s, "refused")

\* Detections, correlations, mappings, hypotheses: any of the evidence the
\* session can see is cited.  G0 and G2 are checked against the same rows.
Infer(s) ==
  /\ at[s] = "more"
  /\ \E class \in {"inference", "hypothesis"}, cites \in SUBSET View(s).evidence :
       /\ class = "inference" => cites # {}
       /\ Propose(s, class, cites)

\* The finding and its finding_evidence rows are flushed.  A session that only
\* read so far takes the lock here, and the foreign keys are checked now.
Record(s) ==
  /\ at[s] = "record"
  /\ Free(s)
  /\ View(s).row
  /\ draft[s].cites \subseteq View(s).evidence
  /\ lock' = s
  /\ work' = [View(s) EXCEPT !.findings = @ \union
                {[by |-> s, class |-> draft[s].class, cites |-> draft[s].cites]}]
  /\ Goto(s, IF draft[s].class \in {"fact", "unknown"} THEN "more" ELSE "done")
  /\ UNCHANGED <<db, agent, call, made, dropped, draft, purgeVars>>

\* The agent returned: its session commits what it wrote, if anything.
Commit(s) ==
  /\ at[s] \in {"more", "done"}
  /\ db' = View(s)
  /\ lock' = IF lock = s THEN Nobody ELSE lock
  /\ Goto(s, "committed")
  /\ UNCHANGED <<work, agent, call, made, dropped, draft, purgeVars>>

Open(s) == at[s] \in {"calls", "tool", "record", "more", "done"}

\* A foreign key has lost its row since it was read: a purge came first.
Rejected(s) ==
  /\ AtCall(s) \/ at[s] = "record"
  /\ Free(s)
  /\ ~View(s).row \/ ~(draft[s].cites \subseteq View(s).evidence)
  /\ RollBack(s, "failed")

\* A tool's exception, the agent's timeout, a cancellation, "database is
\* locked" after the busy timeout: whatever it is, the session rolls back.
Fail(s) ==
  /\ Open(s)
  /\ RollBack(s, "failed")

----------------------------------------------------------------------------
(* A purge.                                                                *)

\* The dependency loads the row and the handler counts the records, in no
\* transaction.  The four counts are one step here.
Count(p) ==
  /\ stage[p] = "new"
  /\ db.row
  /\ counts' = [counts EXCEPT ![p] = [evidence |-> Cardinality(db.evidence),
                                      findings |-> Cardinality(db.findings),
                                      runs     |-> Cardinality(db.runs)]]
  /\ stage' = [stage EXCEPT ![p] = "counted"]
  /\ UNCHANGED <<db, work, lock, sessionVars>>

Something(p) == \E field \in DOMAIN counts[p] : counts[p][field] > 0

\* 409: there is something to destroy and ?purge=true was not given.
Decline(p) ==
  /\ stage[p] = "counted"
  /\ Something(p)
  /\ stage' = [stage EXCEPT ![p] = "declined"]
  /\ UNCHANGED <<db, work, lock, sessionVars, counts>>

\* The audit row takes the lock; then the evidence goes, and with the row of
\* the investigation all that cascades from it.
Destroy(p) ==
  /\ stage[p] = "counted"
  /\ Free(p)
  /\ lock' = p
  /\ work' = [Fresh EXCEPT !.row = FALSE,
                           !.audit = db.audit \union {[by |-> p, destroyed |-> counts[p]]}]
  /\ stage' = [stage EXCEPT ![p] = "written"]
  /\ UNCHANGED <<db, sessionVars, counts>>

\* The request's session commits after the handler returned.
Purged(p) ==
  /\ stage[p] = "written"
  /\ db' = work
  /\ lock' = Nobody
  /\ stage' = [stage EXCEPT ![p] = "done"]
  /\ UNCHANGED <<work, sessionVars, counts>>

\* "database is locked", or the request is dropped.
PurgeFails(p) ==
  /\ stage[p] \in {"counted", "written"}
  /\ stage' = [stage EXCEPT ![p] = "failed"]
  /\ lock' = IF lock = p THEN Nobody ELSE lock
  /\ work' = IF lock = p THEN db ELSE work
  /\ UNCHANGED <<db, sessionVars, counts>>

----------------------------------------------------------------------------
Step(s) ==
  \/ Enter(s) \/ NotRun(s) \/ Invoke(s) \/ ToolFails(s) \/ Store(s)
  \/ StateFact(s) \/ StateNothing(s) \/ Refused(s) \/ Infer(s)
  \/ Record(s) \/ Rejected(s) \/ Commit(s)

Handle(p) == Count(p) \/ Decline(p) \/ Destroy(p) \/ Purged(p)

Next ==
  \/ \E s \in Sessions : Step(s) \/ Fail(s)
  \/ \E p \in Purges : Handle(p) \/ PurgeFails(p)

Spec == Init /\ [][Next]_vars

\* The event loop is fair to sessions and requests.  There are finitely many of
\* them, so that of the write lock follows.  Nothing has to fail.
FairSpec ==
  /\ Spec
  /\ \A s \in Sessions : WF_vars(Step(s))
  /\ \A p \in Purges : WF_vars(Handle(p))
----------------------------------------------------------------------------
(* Properties.                                                             *)

Claims  == {"fact", "unknown", "inference", "hypothesis"}
Row     == [obs : Observations, run : Sessions \X Nat]
RunRow  == [id : Sessions \X Nat, call : Calls, st : {"running", "succeeded", "failed"},
            count : Nat, lost : Nat]
Finding == [by : Sessions, class : Claims, cites : SUBSET Row]
Counts  == [evidence : Nat, findings : Nat, runs : Nat]

Tables(t) ==
  /\ t.row \in BOOLEAN
  /\ t.evidence \subseteq Row
  /\ t.runs \subseteq RunRow
  /\ \A f \in t.findings : f \in Finding
  /\ t.audit \subseteq [by : Purges, destroyed : Counts]

\* Every table holds rows of its shape, whoever holds the lock is in the middle
\* of its writes, and nobody sees more than what is committed otherwise.
TypeOK ==
  /\ Tables(db) /\ Tables(work)
  /\ lock \in Sessions \union Purges \union {Nobody}
  /\ lock = Nobody => work = db
  /\ \A s \in Sessions : lock = s => Open(s)
  /\ \A p \in Purges : lock = p <=> stage[p] = "written"
  /\ at \in [Sessions -> {"new", "calls", "tool", "record", "more", "done",
                          "committed", "refused", "failed"}]
  /\ agent \in [Sessions -> Agents \union {"none"}]
  /\ call \in [Sessions -> Nat]
  /\ \A s \in Sessions : made[s] \subseteq Row
  /\ dropped \in [Sessions -> Nat]
  /\ stage \in [Purges -> {"new", "counted", "declined", "written", "done", "failed"}]
  /\ counts \in [Purges -> Counts]

\* "Re-running a tool over the same artifact does not inflate the evidence
\* count", whoever else writes: UNIQUE (investigation_id, content_hash) never
\* has anything to refuse.
NoDuplicates == \A d, e \in db.evidence : d.obs = e.obs => d = e

\* "Retain what fits and record the shortfall": whatever a tool saw is in the
\* record, unless the run that saw it says that something was left out.
LossIsDisclosed ==
  \A r \in db.runs :
    r.st = "succeeded" => r.lost > 0 \/ Range(Output[r.call]) \subseteq Obs(db.evidence)

\* Provenance: every row names a committed run that succeeded, and every run
\* tells how many rows it created; none is left RUNNING.
RunsAccountForEvidence ==
  /\ \A e \in db.evidence : \E r \in db.runs : r.id = e.run /\ r.st = "succeeded"
  /\ \A r \in db.runs :
       /\ r.st # "running"
       /\ r.count = Cardinality({e \in db.evidence : e.run = r.id})

Ledger == INSTANCE EvidenceLedger WITH
  Quota   <- MaxEvidence,
  entries <- Obs(db.evidence),
  claims  <- {[class |-> f.class, cites |-> Obs(f.cites)] : f \in db.findings},
  closed  <- ~db.row

\* The record is append-only, grounded and within its quota at every commit,
\* and ends only as a whole.
IsALedger == Ledger!Spec

\* Whoever waits for the write lock gets it, and whoever got it lets it go.
EveryoneIsAnswered ==
  /\ \A s \in Sessions : Open(s) ~> ~Open(s)
  /\ \A p \in Purges : stage[p] \in {"counted", "written"} ~>
                         stage[p] \in {"declined", "done", "failed"}
=============================================================================
