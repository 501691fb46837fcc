# A formal model of the investigation platform

TLA+ modules, TLC configurations and TLAPS proofs about the core of the Agentic
Cyber Investigation Platform: what happens to an investigation between the
request that creates it and the status it ends in, when several clients, the
runner's tasks, the wall-clock budget and the process itself get in each other's
way. Everything is translated from the code under `src/src/acip`; paths below are
relative to that directory.

    tlc -workers 2 -config LifecycleRaces.cfg MCLifecycle
    tlc -workers 2 -config EvidenceRecord.cfg MCEvidence
    tlc -workers 2 -config Router.cfg MCRouter
    tlc -workers 2 -config Traversal.cfg MCTraversal
    tlc -workers 2 -config Analysis.cfg MCAnalysis
    tlc -workers 2 -config Quarantine.cfg MCQuarantine
    tlc -workers 2 -config Readers.cfg MCReaders
    tlc -workers 2 -config LogParsing.cfg MCLogParsing
    tlapm LifecycleProofs.tla
    tlapm ExecutionProofs.tla
    tlapm QuarantineProofs.tla
    tlapm EvidenceProofs.tla
    tlapm RouterProofs.tla
    tlapm ReadersProofs.tla
    tlapm LogParsingProofs.tla
    tlapm AnalysisProofs.tla

## The system

A FastAPI process with one event loop and one SQLite database. HTTP handlers
create investigations and claim, cancel, retry and delete them; an
`InvestigationRunner` executes a claimed investigation in an asyncio task of the
same process, at most two at a time; the `OrchestratorAgent` runs the agents of
a plan one after another, each in a transaction of its own; agents call tools,
which write evidence, and a model router, which calls language models.

| part | state it keeps | operations | talks to |
|---|---|---|---|
| lifecycle handlers (`api/routers/investigations.py`) | a row of `investigations` per request session | create, start, cancel, retry, delete | the database; `runner.submit`, `runner.cancel` |
| runner (`core/orchestration/runner.py`) | the set of tasks, a semaphore | submit, cancel, `_guarded`, `_mark_failed`, shutdown, recover_interrupted | the orchestrator; the database |
| orchestrator (`core/orchestration/orchestrator.py`) | the loop's locals; rows of `task_runs`, `agent_runs` | `_begin`, `_run_task`, `_skip`, `_open_run`, `_close_run`, `_finish` | planner, agents, the database |
| planners | none | a plan from the artifacts; follow-ups from a triage | the agent registry |
| evidence store (`core/evidence`) | `evidence`, `findings`, `hypotheses` inside the agent's session | add, cite, list, count | the database |
| tool runner (`tools/runner.py`) | `tool_runs` inside the agent's session | run a tool under a timeout, record it | store, tools |
| model router (`core/llm/router.py`) | `model_executions`, token totals | candidates, retries, schema repair | providers |
| agents | none beyond their session; findings, entities, edges, hypotheses | one `run` each | store, tools, router, the rules, the graph |
| purge (`delete_investigation`) | append-only rows | count, audit, delete | the database guards |
| graph traversal (`core/graph/traversal.py`) | none: `entities`, `entity_edges` are correlation's | neighbours, paths, the whole graph, the graph of a finding | the reader's session |
| risk, detection rules | none | pure functions | the evidence store's rows |
| intake of files (`core/security/files.py`, the submitting handlers, `_begin`) | `artifacts`, files under their hash, `_staging` | upload, submit a text or a URL, stand-ins for a missing file | the database, the file system, the audit trail |
| backup (`core/backup.py`) | a copy of the database and of the files | create, verify, restore | both, beside a running server |
| reading endpoints, event stream, pagination | a cursor, a poll counter, the last event | page, read all, details, provenance, stream | the database |
| log parsers (`tools/auth_log_parser.py`, `tools/web_log_parser.py`) | the loop's counters and drafts | parse a text | the tool runner |
| rate limiter | windows per key | check | handlers |

### What is hard here

* A handler loads the row in a dependency and acts on it after other awaits:
  what it loaded may no longer be so (`PROJECT.json`, hazards of kind
  `stale_state` and `interleaving`).
* A task can be cancelled at every await, also while it waits for the semaphore
  and while it marks the row because of an earlier cancellation.
* A task is three transactions, any of which can fail; the process can die
  between them. What the trace then says must be true.
* The deadline passes at any moment; the report is still due.
* A retry runs over the rows an earlier attempt left behind: observations that
  are duplicates now, findings that count twice, hypotheses already judged.
* A query over the graph, and most answers of the API, are several SELECTs outside
  any transaction; pages are requests of their own.
* Bytes and rows live in two places that no transaction spans: an upload, a purge, a
  kill or a backup may find them apart.
* A log line does not always say what year it is from.

### What makes each part correct

* handlers and runner: one starter per investigation, one execution at a time,
  no permit lost, no RUNNING row that nobody will end, nothing written to a
  deleted row, a result that stays a result, every claim ends;
* orchestrator: the trace says what ran, failed work leaves no evidence behind,
  a mix of outcomes is never reported as more than it was, a halted run has a
  report, the task limit holds, an attempt ends;
* evidence store, tools and purge: no duplicate observation, the quota,
  losses that are disclosed, claims that cite what is committed with them, a purge
  that names what it destroys, writers that do not block each other for good;
* router: no second opinion after a refusal or a final schema failure, bounded
  repairs, a truthful trace, a ceiling that is final, calls that end;
* graph queries: complete unless marked truncated, however the graph grows
  meanwhile; they end;
* intake, purge, backup: every artifact has its bytes, whoever else submitted or
  purged the same content; nothing is left in staging; a row calls no executable a
  log; a backup that was accepted restores;
* reading endpoints: pages skip nothing, an answer hangs together, a stream that says
  done has told the truth, and a stream ends;
* parsers: an instant is what the line says where that can be known, and no line is
  dropped without an account;
* rules, correlation, validation, risk: a burst is found where there is one, the
  graph says what the evidence asserts and says it once, verdicts agree with the
  rules, a model moves the score only so far.

## The modules

### `InvestigationContract`: what a client may rely on

The status of each investigation and whether an execution is under way, with the
few moves a client that asks one thing at a time can observe. `Lifecycle` and
`Execution` are both shown to implement it: it is where the two meet, since the
first says who starts and ends an execution and the second what it does.

### `Lifecycle`: handlers, runner and process

| code | model |
|---|---|
| `investigations.status`, a row that is not there | `status` |
| a `_mark_failed` that logged its own error | `lost` |
| an asyncio task of the runner | `phase`, `cancelled`, named by the request that submitted it |
| `asyncio.Semaphore` | `permits` |
| a request: what it asks, what its dependency loaded, where its handler stands | `op`, `on`, `seen`, `at`, `joined` |
| the process | `server`, `restarts` |

An action is what the code does between two awaits that let somebody else run.
`get_investigation` (`Arrive`) only loads; `StartClaim` and `RetryClaim` are the
conditional `UPDATE` with its commit, `Submit` what follows. Cancelling is four
steps, because `runner.cancel` awaits the task it cancelled and marks the row
itself: `CancelTask`, `CancelJoined`, `CancelMark`, or `CancelMissed` and
`CancelOverwrite` when there was no task. The phases of a task are those of
`_guarded`: `queued` before the semaphore, `begin` and `work` inside `execute`,
`settled` between the last write and the return, `mark_halted` and `mark_failed`
in the two exception handlers.

Three readings of the code that are easy to get wrong:

* `task.cancel()` only asks. The `CancelledError` is raised at the task's next
  await, so a task whose cancellation is requested may be in any phase, and the
  commit it was suspended in may have landed (`Landed`).
* A task cancelled while it waits for the semaphore never enters the `try`, so
  it marks nothing; the handler that cancelled it does. At shutdown nobody does,
  and the row waits for the sweep of the next start.
* The ORM writes an attribute only when it differs from what it loaded. `_begin`,
  `_finish` and `_mark_failed` load and write in one session, so each is one step.

The semaphore hands out permits in any order here; asyncio's is first come first
served, so the model allows more.

`Patient` is an assumption on the clients, not on the code: a request is issued
only when no other is in flight and no task is on its way out. Without it a
cancel that finds no task between a claim's commit and `submit` leaves HALTED on
a row whose task then starts and sets RUNNING again, and the second mark of a
cancel can hit an attempt that a retry has just started. These are behaviours of
the code, and the property that excludes them says `Patient => ...`.

### `Execution`: the attempts of one investigation

| code | model |
|---|---|
| `investigations.status` | `status` |
| the coroutine's position | `pc` |
| `tasks_to_run`, `task_idx`, `state.task_outcomes`, `halted_reason` | `tasks`, `idx`, `outcomes`, `halted` |
| `remaining <= 0` | `spent`, set by `Expire` at any moment after `_begin` |
| `result` of `_run_task` | `result` |
| `task_runs` | `rows` |
| `agent_runs`, with whether the agent's own session committed | `runs` |

A step is one transaction, since all awaits of the loop are inside one. `Open`,
one of `AgentCommits`, `CommitFails`, `AgentFails`, and `Close` are the three
transactions of a task. `_run_task` binds `result` before its session commits:
`CommitFails` is that case. A lookup in `task_runs` by task id returns any of the
rows with that id: the query has no `ORDER BY` and no attempt. `Cancelled`,
`Raised` and `Kill` may end an attempt between any two steps; what the first two
do to the row is `_guarded`'s handler, what follows the third is
`recover_interrupted`. The lost writes and the second cancellations around them
are in `Lifecycle`.

The planners are the agents in a fixed order, without those no artifact calls
for; with no planner the plan is triage alone. A triage that succeeded as the
first task proposes any sequence of agents, in any order and repeated: that is
what `TriageAnalysis` validates. Triage itself and names nobody is registered
under are dropped before the tasks are numbered, so they are no proposals here. The deployment wires the
static planner without follow-ups and the adaptive one with them.

Agents, tools and evidence are abstracted to what the loop sees of them: an
outcome, and whether the session committed. What happens inside that session is
`EvidenceRecord`.

### `EvidenceLedger`: what the record promises to its reader

Entries and claims are only ever added, every claim with or after what it cites,
within the quota; the one way to lose any is to lose all, with the investigation.

### `EvidenceRecord`: the sessions of agents, their tool runs, and the purge

| code | model |
|---|---|
| the committed tables of one investigation | `db`: the row, `evidence`, `tool_runs`, `findings`, `audit_log` |
| the transaction of whoever writes | `work`, with `lock` naming its owner |
| an execution of an agent under `_run_task` | `at`, `agent`, `call` |
| `collected`, `created_auth`, `created_web` | `made` |
| `EvidenceStore.last_quota_dropped` | `dropped` |
| a `FindingDraft` between its making and its INSERT | `draft` |
| a DELETE request | `stage`, `counts` |

SQLite has one writer. A session's first INSERT takes the write lock and keeps it
until the session commits or rolls back; SELECTs before it run in no transaction
(the driver begins one before the first DML only), so they see the last commit,
each its own. Hence `View`: a session sees `work` when it holds the lock and `db`
otherwise. Agents that call tools (`triage`, `log_analysis`) insert a `tool_runs`
row before anything else, so all they read for deduplication and quota is read
under the lock; agents that only read take it when they write their finding, and
what they cite may have gone in the meantime (`Rejected`).

`Invoke`, then `Store` or `ToolFails`, is `ToolRunner.run`; `NotRun` is what raises
before the row exists and triage tolerates. `Store` is `add_evidence` with the
`_finalize` that follows: of the observations the investigation does not hold it
keeps the first ones that fit the quota, in the order of the drafts, and counts
what is left out each time it comes up. Observations are what content hashes tell
apart. `StateFact` and `StateNothing` are the finding an agent records about its own
calls, `Infer` stands for detections, correlations, mappings and hypotheses, which
cite any of the rows the agent can see; `Record` is `add_finding`. The two parse
facts of `log_analysis` are one, its fallback from one parser to the other is part
of its list of calls, and the number of citations is not capped.

Sessions overlap in any way: the orchestrator runs them one after another, but two
executions of one investigation can be under way (see `Patient` above), and a retry
is two sessions of the same agent in sequence. `Fail` at any step stands for an
exception, the agent's timeout, a cancellation or SQLite's busy timeout: they all
roll back. The purge handler counts outside a transaction and takes the lock with
its audit row; its four counts are one step.

### `ModelRouter`: calls of language models

| code | model |
|---|---|
| the loops of `complete` and `_execute_candidate` | `at`, `cand`, `left` |
| `fallback_from` | `from` |
| the requests the providers saw, with their outcome and tokens | `asked`, a history |
| the `llm_calls` row flushed in the caller's session | `pending` |
| the rows committed | `llm_calls` |
| `rule.candidates` | `rule`, any of `Rules` |

A provider's answer fits the schema or not, both callers asking for one; a
denial is `ProviderRefused` or `ProviderAuthError`; whatever `can_fallback` says
may be fallen back from is one outcome. `Breaks` is an exception outside the
taxonomy, a malformed usage record for one. A call belongs to a session: a triage
catches every exception, so its session may commit the row of a failure; a summary
request does not, so its rows go with it (`Rejected`). Calls overlap freely, which
SQLite's writer lock allows as long as neither has written; where the lock would
keep them apart the model allows more.

### `Traversal`: queries over the evidence graph

| code | model |
|---|---|
| `entities`, `entity_edges`; the order of `created_at` | `nodes`; `born`, the commit an edge came with |
| a call of `GraphTraversal` with its clamped bounds | `query` |
| `queue`, with a depth or a path in each item | `queue` |
| `visited_entities`, `collected_edges`, `paths` | `visited`, `collected`, `paths` |
| the result | `collected` or `paths`, `entities`, `truncated` |

Each SELECT is a step: `Neighbours` and `Paths` visit one entity and run the loop
over its edges (`Gather`, `Extend`, folded over the rows in any order, since the
query has none), `ReadEdges` and `ReadCited` read the edges of the two graphs
that need no search, `ReadEntities` fetches the entities at the end. Between two of
them `CommitGraph` may add more, or `Purge` delete everything. The reference
definitions (`Within`, `PathsIn`) are sets over a set of edges, those there were
when the query was asked or those there are when it is answered. An answer into which
a purge came is promised nothing by `AnswersAreComplete`, and cannot be: a query that reads its edges,
before a purge commits, and its entities after it returns edges without their ends, not
marked truncated. A
behaviour holds one query: they share nothing but the graph.

### `Detection` and `Risk`: the rules and the roll-up

Stateless modules, one operator per function. A hit is its rule, severity,
confidence and the observations it cites; `Slide` is one turn of the window's
loop, and `BurstsAreLongest` says without an algorithm what the loops look for.
A target is what the patterns of `url_rules.py` say of it: `Inspect` is the feed's
view of it, `UrlHits` the rules', two functions of the code that have to agree.
`Risk` keeps scores in units of 1/200, so that halves stay exact, rounds as
`round()` does (`Rounded`), and compares severities where the code does by
`max()` and `min()` of a `StrEnum`, by the words (`LaterWord`).

### `Analysis`: what the agents make of it

| code | model |
|---|---|
| what is in the artifacts and the target | `submission` |
| `evidence`, `findings`, `entity_edges`, `hypotheses` | the variables of these names |
| `investigations.risk_score`, `severity` | `report` |
| the loop over the tasks, the retries | `next`, `done`, `attempt` |

The agents run in the planners' order, each in its transaction and so in a step.
An agent may miss its turn (`Miss`): it fails, times out or was not planned, and
leaves nothing behind. It has to miss it where the code refuses it (`Refused`):
triage when a rule fires and nothing at all was collected, log analysis whose lines are
all on record already, and the hypothesis agent with nothing to cite. A retry
starts again over what the earlier attempt recorded.

An observation is a record of the fields the rules and agents read. A finding
keeps its rule, class, severity, confidence, whether it cites anything, and which
of the hypothesis agent's keywords its title has. A triage is the extraction of
indicators (`Extracted`, what is not on record yet), the feed's answers about those and
about the target, new each time since they carry the time of the lookup, the rules about
the target, and any of a few classifications a model may return, or the rules' own. A
lookup may fail, and a text is never looked up; a hit of a rule then cites the first that
was collected, about whatever indicator (`Basis`, `triage.py:225`). Such a hit is in the
findings like any other, and the validation, which reads evidence, does not see it:
`VerdictsAgree` excepts targets of which no answer is on record (`Heard`),
for the code breaks it there: of a text that a rule rates HIGH, with an unlisted address
beside it, the finding cites the address's evidence, nothing is flagged, and "normal
operational baseline" is the only hypothesis, unresolved.
Correlation is the edges an observation states and the fallback for two names;
counts and times of entities and the citations it copies into `finding_evidence`
are left out. The limits of 25 citations, 25 paths, 500 edges and 10 000 rows are
not reached.

### `Quarantine`: submitted files, their rows, and backups

| code | model |
|---|---|
| `investigations`: status, retention, whether the bytes are kept | `investigations` |
| `artifacts` and the audit rows of submissions | `artifacts`, `audited` |
| files under their SHA-256, and under `_staging` | `stored`, `staging` |
| an upload, or a text or URL that was submitted | `request` |
| `_begin` where an artifact's file is missing | `intake` |
| `create_backup` and `restore_backup` | `backup`, `restore` |

Content is a model value and its own hash; of its bytes the model keeps what the
classification looks at (`Header`). `Stage`, `Keep` and `Record` are the copy into
`_staging`, the move under the hash with its deduplication, and the rows that
the request's session commits; `Reject`, `Cancel` and `Fail` are the ways it breaks
off, `Restart` a kill with the sweep that follows. Three ways of submitting share
`store_stream` and differ in the kind they record. An execution whose investigation
has no artifact writes a stand-in from the URL's answer or the target's own text
(`StandIn`) or goes on without (`WithoutArtifact`). `Delete` removes the rows and
leaves the bytes, as the code does. A backup is the snapshot of the database, the
copy of the finished files, the listing and the copy of `_staging`, and the
verification (`Steps`), with the server's steps between any two of them.

### `Readers`: pages, answers and the event stream

| code | model |
|---|---|
| status and executions, as `InvestigationContract` gives them | `st`, `busy` |
| `task_runs`, `evidence`, `hypotheses`, `hypothesis_gaps`, `findings`, `reports` | `tasks`, `evidence`, `hypotheses`, `gaps`, `findings`, `report` |
| one client: its cursor, what it got, its poll counter, its last event | `reader` |

The writers are those of `InvestigationContract`, reused action by action, with the
commits of agents: here the abstract specification is a component of another model
instead of a property of it. A behaviour has one reader and only the
tables it reads move, since readers change nothing. Evidence is its sort key, so a
cursor is a row. `Turn` is one page, for a client or for `all_evidence`; `Select` one
SELECT of an answer; `Poll` and `Tell` are the two halves of a turn of the event
stream, between which the tasks may move.

### `LogParsing`: two parsers over the lines of a log

One loop, `parser` saying which of the two it is; where they differ an operator asks.
A line is what the regular expressions and the patterns find in it: the form of its
stamp, the instant its writer meant, its offset, the event or the request. Instants
are counted in parts of a day (`Day` of them make one), with the calendar written out
(`Instant`, `Leap`, `DaysIn`), because the guess of a year turns on the length of
February and on a margin of one day. `Record`, `LeaveOut`, `Unrecognized`, `SkipBlank`
and `Return` are the exits of the loop's body and the end of the loop.

## The runs

| run | instance | what it shows |
|---|---|---|
| `lifecycle_races` | 1 investigation, 3 requests, 1 permit, 1 restart, writes succeed, fairness | every interleaving of three operations: permits, single starter, deleted stays deleted, every claim ends, every cancel is answered |
| `lifecycle_patient` | 4 requests of a patient client, 2 restarts, failing writes | one execution at a time, the row agrees with it, no silent loss, `InvestigationContract` is implemented |
| `lifecycle_late_cancel` | 2 requests | expected violation, see below |
| `execution_plans` | 4 agents, limit 4, 3 proposals, 1 attempt | status, report, limit, rows and termination over every plan and deadline |
| `execution_retries` | 3 agents, limit 2, 1 proposal, 2 attempts | the trace and the rollbacks across a retry; `InvestigationContract` is implemented |
| `evidence_record` | 2 sessions, 1 purge, 4 calls, quota 2 of 4 observations, fairness | duplicates, disclosure, provenance, the ledger, the write lock |
| `router` | a triage and a summary, 3 rules, 1 repair, ceiling of one answer, fairness | shopping, repairs, the trace, the ceiling, termination |
| `traversal` | 4 entities, 5 edges, every graph over them, 1 commit or purge during a query | completeness of neighbourhoods, paths and graphs that no purge came into |
| `analysis` | any part of 10 observations, or one of 5 targets with few of them and, beside two, another indicator, 2 attempts, 1 missed turn, 2 opinions of a model | bursts, the graph, verdicts, the risk |
| `quarantine` | 2 investigations with a URL, 2 of 3 kinds of submission, 2 contents, 1 restart, 1 backup and its restore | bytes of every row, staging, kinds, and backups of a running server |
| `readers` | 1 reader of each kind, 5 rows in pages of 2, 2 hypotheses, 2 claims, 2 tasks, fairness of the reader | pages, composed answers, the event stream |
| `log_parsing` | 6 clocks, some 50 stamps in three forms in texts of one line, 7 kinds of line in texts of up to 3, a limit of 1 or 2 | every date, and the account of every line |

**Bounds.** One investigation is enough for `Lifecycle`, because handlers and
tasks of different investigations share nothing but permits, and with one permit
the tasks of one investigation already compete for it. Four requests make a
start, a cancel, a retry and a fourth party; the known interleavings need three, and
`lifecycle_races` has three because it checks liveness too. That permits, the single
starter, deletion and `NoSilentLoss` hold for more requests, and with failing writes,
is proved below for every instance.
`MaxRestarts` bounds kills and shutdowns. In `Execution` the limit of two tasks
is small enough for plans and follow-ups to be truncated, the limit of four is
large enough for three follow-ups; two attempts are what it takes for rows of an
earlier one to be in the way. In `EvidenceRecord` the four calls are the
kinds there are: one that must succeed, one that may fail and whose batch repeats
an observation, one that finds nothing, one whose batch is all one observation; a
quota of two overflows within a batch, between calls and between sessions, and two
sessions are a retry or an overlap. In `ModelRouter` a chain of three models lets a
call fall back twice, one repair lets a repair and a fallback mix, and one answer
reaches the ceiling, so the two calls can pass it together. With answers of
two sizes (`Usage = {1, 2}`) the same properties hold, on an instance too large to be
kept as a run. In `Traversal` the graph has a cycle, a
parallel edge and a tail, so that revisits, two paths of a length and the depth
bound all occur; limits of one, two and more are met exactly and passed. In
`Analysis` two failures are a burst and two of them lie exactly a window apart; two
errors are a burst and one of them has no time; what may be submitted is any part of
the intrusion, but no session without its login, which the log would have. The
targets are a URL that spells a brand's name and lures, one that only lures, a domain
with a name that is not its own, a verified service whose path looks like a lure, and
a text; the host of each is looked up as well and says less than the whole. An address
the feed does not list may be named beside the text and the service, and the first lookup
of the domain fails, so that a hit cites its own answer, another's, or nothing. Two
attempts and one miss make an attempt that fails anywhere and one that completes it.
In `Quarantine` two submissions of one content meet under its hash, and one of an
executable goes by the name of a log. In
`Readers` five rows are two full pages and a half, with ties in both columns of the
order and two rows that have no time; caps end on a page and inside one. In
`LogParsing` the clocks and stamps lie on both sides of the turn of a year, of the
29th of February in a leap year and in others, and a day ahead; days are halved, so
that "up to a day" has a nearest miss.
Deadlock is not checked: requests and attempts are
finite, so the system legitimately comes to rest.

**Fairness.** A handler or task that can run eventually does: the event loop is
fair to ready callbacks. A task cannot stay in `work`: agents run under
`asyncio.wait_for`, the loop under a deadline. A process that is down is started
again. Nothing is assumed of clients, kills, the shutdown signal or the deadline.
In `EvidenceRecord` sessions and requests are weakly fair and
nothing has to fail: since there are finitely many of them, whoever waits for the
write lock gets it without an assumption about SQLite's choice.
Providers answer or time out, so a call of `ModelRouter` goes on.
In `Readers` the server answers the one client, and nobody has to write or finish
anything: a stream ends because the investigation is already finished or gone.
`lifecycle_races` sets `WritesMayFail` to FALSE: when the one write that ends a
run fails, the row does stay RUNNING until the next start, and `NoSilentLoss`
says so.

**Expected violation.** It states what the handler's own refusal and its test say and
finds the code doing otherwise; `PROJECT.json` quotes the lines.

* `CancelSparesTerminal`: start, the run completes, a cancel that had loaded
  RUNNING finds no task and writes HALTED over COMPLETED.

Disagreements that are plain from one place of the code have no run of their own;
`PROJECT.json` lists them among its findings: a run recorded SUCCEEDED whose commit
failed (`CommitFails`), log analysis refused on a retry (`Refused`), answers no
`llm_calls` row holds, a feed's answer that is never a duplicate, counts that double,
an edge without its end in a truncated neighbourhood, all of them after a purge, a
baseline alone beside a HIGH finding, a report that is not the last task,
`agent_runs` rows of a dead process, rows of an earlier attempt overwritten, a
`tool_runs` row that is not durable, a drop counter that is not reset, a ceiling
that does not halt, failed requests that are not repeated, a purge whose audit row
counts less than it destroys, a severity that is the larger of two words, an upload
recorded behind a start, a rejection that leaves no audit row, a backup given up
because of an upload, staging files of a killed process, a retention state nobody
sets, years and months that a parser makes up, a text read as a URL, a brand found
inside another word, and a URL in the graph as a hash. Properties are stated so that they
hold beside them, and say in their comments what they leave out.

## The proofs

`LifecycleProofs` proves seven theorems for every set of investigations, every
finite set of requests and every bound, from `ConstantsAssumption` alone:

* `TypeCorrect`. The inductive invariant `TypeInv` adds to the type what the type
  of a handler needs: a request that has arrived names an investigation, a task
  that exists belongs to a request that has arrived, a handler that waits has a
  task to wait for.
* `PermitsAreConserved`. `Holders` gains or loses exactly the task that moves
  through an end of the semaphore; the cardinality lemmas are stated once, and
  every other step leaves the set as it is.
* `DatabaseElectsOneStarter`. Not inductive alone: the strengthening says that
  once somebody has claimed by a start, the row is no longer in CREATED and never
  returns to it, which is why a second `UPDATE` matches no row.
* `DeletedForGood`, an action property from the type invariant: every write looks
  at the row first, or matches no row.
* `NothingIsLostSilently`. The strengthening speaks about what the next step of an
  owner leaves behind: a cancelled task that has not marked its row has a handler
  waiting for it or a process that is shutting down.
* `OneExecutionAtATime` and `PatientClientsHaveTheContract`, of specifications whose
  client waits for an answer (`Patient`). A patient client leaves at most one owner to
  each row, and while a task is at work its row is RUNNING; with that every step is
  one of `InvestigationContract`'s or a stutter. Without `Patient` neither holds,
  which is what `lifecycle_late_cancel` shows.

`ExecutionProofs` proves eight theorems for any agents, order of agents, limits
and number of attempts, from `ExecutionAssumption`:

* `TypeCorrect` and `TaskLimitHolds` share `TypeInv`: the type, the limit, and
  where the loop stands in its plan at each point (`Position`). The lemmas before
  it are about the operators of the plan: what is kept of a sequence is a sequence
  of the same elements and no longer, so plans and follow-ups are lists of tasks
  that fit the slots left.
* `TraceIsFaithful`. What makes it inductive is that no run belongs to an attempt
  still to come, so a new attempt's runs begin where the table ends.
* `FailedWorkIsGone` needs to know that the run of an agent at work is still
  RUNNING, which the trace says, and that it is not kept until a commit keeps it.
* `CompletionIsEarned` and `HaltLeavesAReport` follow from the trace and from where
  a SKIPPED outcome can come from (`SkipInv`): the budget, which halts the attempt
  and spares the report, or an agent that may skip. Both are carried from the
  moment the attempt leaves the loop until the next claim.
* `ExecutionKeepsContract`: with the status RUNNING exactly while an attempt is
  under way, every step is one of `InvestigationContract`'s or a stutter.
* `FirstAttemptIsSettled`. Rows are matched by their keys, which the plan gives twice
  to nobody; where the loop stands says which rows of a first attempt are settled.

`QuarantineProofs` proves five theorems for any investigations, submissions and
contents, whatever `Header` says of them, from `ConstantsAssumption`:

* `TypeCorrect`, with what is known of a submission that is under way.
* `BytesAreKept`. `BytesInv` adds that between the move into place and the commit
  the bytes are already there; `NothingIsUnkept`, that no step takes a file or an
  audit row away, does the rest: a purge cannot reach what another row names.
* `NoStagingFileIsLeft`, inductive by itself.
* `KindsStayHonest`, from `NoTextOfExecutables`, a lemma about the classification.
* `BackupsAreWhole`. `BackupInv` says that what the copied database names is on disk
  from then on, so it is in the tree that is copied next: the order of the two
  copies is what the theorem rests on, verification is not needed for it.

`EvidenceProofs` proves five theorems for any sessions, lists of calls, quota and
number of requests, from the assumption of `EvidenceRecord`:

* `RecordTypes`, with what the lock means: only its owner's transaction may differ
  from what is committed.
* `EvidenceIsUnique`. `NoDuplicates` is inductive only for both copies, the committed
  one and the transaction, and because a row is looked up under the lock.
* `ShortfallIsTold` and `ProvenanceHolds` follow a call between its `tool_runs` row and
  its finding: what `made` and `dropped` say is what the tables the session sees say.
* `RecordKeepsLedger`: the commits are the only steps of `EvidenceLedger`, and a commit
  adds, or takes everything with the investigation.

`RouterProofs` proves four theorems for any rules, calls, repairs and ceiling:

* `RouterTypes`; `NobodyShops`: from a candidate that has answered or refused there is no
  way to another, since `from` and `cand` name the request the history ends in;
  `TracesAreTrue`: a row is pending or committed for exactly the calls that are past their
  outcome.
* `CeilingStaysReached`, a temporal property that is safety. `Sealed` is what lasts: the sum has
  reached the ceiling, nobody asks or has answered, and nobody holds a row. Who still comes is
  over budget and commits nothing. The sum is a fold over the rows, so it has to be
  shown to be a number first.

`ReadersProofs` proves four theorems for any tables, page size and cap, and any finite
set of rows whose undated ones come first, as `ReadersAssumption` says:

* `NoRowIsSkipped`: the pages a client holds are the rows up to its cursor in the order
  of the endpoint, less those that came in behind it; it rests on lemmas about `Page`,
  which sorts by counting the rows before each.
* `AnswersFit`: details that call the investigation finished were asked for its findings,
  reports, hypotheses and gaps after the last commit of its execution, so they state its
  final record unless it was started again or purged meanwhile; what an answer has selected
  is part of what the tables hold, since the tables only grow until they go together; and `StreamsTellTheEnd`, of the last event
  and the status it was told with.

`LogParsingProofs` proves three theorems for any lines, clocks, limit and length of a
day: `LogsAreRead`; `LinesAreKept`, the account of every line; and `StampsAreTrue`, that
every date is the writer's within the margin the parser allows. The last one rests
on lemmas about the calendar that are proved by arithmetic: a year has 365 or 366
days, two stamps of the same day and month in different years are far apart, so at most
one year can be the right guess, and the loop over candidates finds it.

`AnalysisProofs` proves four theorems of `Analysis` for any observations, window, feed,
submissions, opinions of a model, number of attempts and of missed turns:

* `BurstsHold`. While `Slide` goes through the failures in the order of their times, the
  window it keeps is all there is within the window's length of the last one, and the best so
  far is no smaller than any window that ended before. `BurstsAreLongest` is about sets, the
  loop about a sequence: the lemmas before it say that the sequence is in order, has each
  observation once, and that a window of the set is a segment of it.
* `GraphSaysTheEvidence`. `Drawn` says that the edges are what some of the evidence asserts,
  each once, and all of it from the turn of the correlation to the end of the attempt, for no
  agent behind it records evidence. What is asserted grows with the evidence, which
  is why a retry keeps what the earlier attempt drew.
* `VerdictsFollow`. The rules read lines and target, the validation reads evidence. That a
  finding they rate MEDIUM or worse has an observation the validation counts as hostile is
  shown rule by rule for the lines (`Backed`, `Hostile`) and kept with the findings. One about
  the target may cite anything; what is kept of it is that the rules object to the target
  (`Lured`), and where an answer about the target is on record, the feed objects as well
  (`HeardIsHostile`, from its table and the patterns together). `Judged` has the verdicts
  follow from that.
* `RiskStaysHeld`. `Assessed` is inductive at once; the rest is arithmetic about the
  roll-up, its rounding and its bounds, for findings of any number and severity.

Its invariant is `AnalysisInv`, the conjunction of what was recorded, drawn, judged and assessed
with where the agents stand. It rests on three assumptions that say
what the constants are. `ObservationsAssumption`: a failure is an event of a log with
the outcome "failure" and only failures are of invalid users (`tools/auth_log_parser.py:93-104`,
`:308-327`), and a request with attacks is a WEB_ATTACK (`tools/web_log_parser.py:415-416`).
`FeedAssumption`: what the feed lists is malicious or benign with a score in range, and what it
lists as benign imitates nothing (`tools/threat_intel.py:24-80`); an answer that names an
indicator is about that indicator (`:118-140`). That a lookup is answered is not assumed. `OpinionsAssumption`: a model answers within the schema of
the triage. TLC evaluates all three.

Its fifth theorem is about `Traversal`, for any entities, any finite set of edges, any
bounds and number of commits, from `EndsAssumption` and `BoundsAssumption`; it stands here
because it needs the same lemmas on folds. `AnswersComplete` says that the answers of all
four queries are complete, whatever was committed between their SELECTs, unless a purge was. `GraphInv`
relates a search under way to two graphs, the one it was asked of and the present one:

* `Near`: what neighbours has met, queued and read is within reach in the present graph.
  `WithinGrows` carries it over a commit.
* `NoneIsMissed`: as long as the answer is not full, there is a distance (`Measures`) for each
  entity met, by which the queue is in order and an entity that left it above the depth
  bound has all its edges of the first graph read, their ends no more than one
  further off (`Explored`). It need not be the distance in either graph, as edges arrive while
  the search goes on. That the queue is in order (`VisitsInTurn`) makes an entity at the
  depth bound safe to drop. When the queue is empty, `AllIsMet` concludes by induction on hops.
* `Follows`: the trails in the queue and the paths found are walks of the present graph, all
  different, the shorter first, and none in the queue is the beginning of another or of
  a path found by one more edge; so no path is found twice.
* `NoneIsLost`: a path of the first graph that is not found yet begins with a trail of the queue.
* `Reaches` and `Draws` say what the last SELECT is handed. That the ends of recorded edges are
  recorded (`GraphIs`) has its answer close.

One turn of a loop is a lemma about `Gather` or `Extend`; what the whole loop does, in any
order of its rows, follows by induction on the rows (`GatheredIs`, `ExtendedIs`).

Sums, lists and folds over sets and sequences are recursive functions. The
library's induction theorems take an operator as a parameter and cannot be used, so
induction is a lemma about sets here (`Induction`, from the minimal element of a
well-founded order): what contains 0 and n + 1 with n contains all of Nat. `FoldIsDefined`
shows from it that a fold has a value at every part of a set, after which its definition can be
unfolded; `PartsInduction` does the rest.

Five proofs failed at first because of the models and corrected them. A commit
without the lock published the lock holder's rows (`EvidenceRecord.Commit`). Undated rows
could be observed at different times, which a cursor cannot tell apart
(`ReadersAssumption`). `LogParsing.Resolve` was a CASE with overlapping guards.
Orders were taken from an operator that only TLC evaluates (`Readers.InOrder`,
`Detection.InOrder`). And the observations and the feed of `Analysis` were any records at all,
which no parser and no table is. TLC had found the properties true in spite of them.

Only model-checked: the liveness properties, which are out of the prover's reach, and what
the numbers of `Risk` are beyond the bounds above. Every invariant a run checks has a theorem.

## Not modelled

The patterns that make a request an attack or a line an event, the extraction of
indicators, packet captures, address and name validation, the
fetch of a URL, tokens and passwords are functions of their input that the
repository's own tests cover well. The model providers are an outcome per call in
`ModelRouter`. The rate limiter checks and records a request without an await in
between, so nothing can come in its way. Command line, demo data, migrations,
configuration and the web client are wiring or presentation. Log lines, notes, rationales and timings are left out
of every module; no property is about them.

## The plan

1. *done*: `Lifecycle`, `InvestigationContract`, `Execution`, the first theorems.
2. *done*: `EvidenceRecord` and `EvidenceLedger`, `ModelRouter`.
3. *done*: `Traversal`, `Detection`, `Risk` and `Analysis`. Left: entity statistics,
   the timeline, the gaps a triage states.
4. *done*: `Quarantine`, `Readers`, `LogParsing`. Left: custody events, lists of
   investigations.
5. *done*: the theorems of `Lifecycle`, `Execution`, `Quarantine`, `EvidenceRecord`,
   `ModelRouter`, `Readers`, `LogParsing`, `Analysis` and `Traversal`. Left: liveness, which
   needs another prover.
