------------------------------ MODULE Readers ------------------------------
(***************************************************************************)
(* One client that reads an investigation while others write it: a client  *)
(* that pages through the evidence, an agent that reads all of it up to a  *)
(* cap, a workspace that asks for the details, one that asks where an      *)
(* observation comes from, and one that follows the event stream.          *)
(*                                                                         *)
(* No answer is one read.  A session that only reads holds no snapshot, so *)
(* every SELECT sees the last commit, and between two of them an agent may *)
(* commit, the status may move or the investigation may be purged.         *)
(*                                                                         *)
(* The status moves as InvestigationContract allows, which the detailed    *)
(* modules implement; the rows change by the commits of agents.  A         *)
(* behaviour follows one reader, and of the writes those that its tables   *)
(* are about.                                                              *)
(***************************************************************************)
EXTENDS Integers, Sequences, FiniteSets, SequencesExt

CONSTANTS
    Inv,            \* the investigation
    Rows,           \* evidence there may be: <<undated, observed, collected, id>>, observed
                    \*  0 where it is undated
    Hypotheses,     \* hypotheses there may be
    Cites,          \* Hypotheses -> the rows each is recorded with
    Origin,         \* Rows -> what each names of tool_runs, artifacts, agent_runs
    PageSize,       \* MAX_EVIDENCE_PAGE
    Caps,           \* caps of all_evidence
    MaxClaims,      \* starts and retries
    MaxFindings,    \* findings there may be
    MaxTasks        \* task_runs there may be

ASSUME ReadersAssumption ==
    /\ Rows \subseteq {0, 1} \X Nat \X Nat \X Nat
    /\ IsFiniteSet(Rows)
    /\ \A r, q \in Rows : r[4] = q[4] => r = q
    /\ \A r \in Rows : r[1] = 1 => r[2] = 0
    /\ PageSize \in Nat \ {0} /\ Caps \subseteq Nat \ {0}
    /\ Cites \in [Hypotheses -> SUBSET Rows]

VARIABLES
    st, busy,       \* the investigation's status and executions, as in the contract
    claims,         \* how often it was started
    tasks,          \* statuses of its task_runs
    evidence, hypotheses, gaps, findings, report,
    reader          \* the client and what it has read

Contract == INSTANCE InvestigationContract WITH Investigations <- {Inv}
Terminal == Contract!Terminal

tables == <<tasks, evidence, hypotheses, gaps, findings, report>>
vars == <<st, busy, claims, tables, reader>>

-----------------------------------------------------------------------------
(* The order of the evidence and the cursor *)

\* ORDER BY observed_at IS NULL, observed_at, collected_at, id
Before(r, q) ==
    \E k \in 1..4 : r[k] < q[k] /\ \A l \in 1..(k - 1) : r[l] = q[l]

\* the part of the comparison that breaks ties
Tie(r, cursor) == r[3] > cursor[3] \/ (r[3] = cursor[3] /\ r[4] > cursor[4])

\* Slip: rows of the cursor's own moment are left to the next page
AfterMoment(r, cursor) ==
    IF cursor[1] = 1 THEN r[1] = 1 /\ Tie(r, cursor)
    ELSE r[1] = 1 \/ r[2] > cursor[2]

\* _evidence_after: undated rows come last, so nothing dated follows one
After(r, cursor) ==
    IF cursor[1] = 1 THEN r[1] = 1 /\ Tie(r, cursor)
    ELSE r[1] = 1 \/ r[2] > cursor[2] \/ (r[2] = cursor[2] /\ Tie(r, cursor))

\* rows as ORDER BY puts them: each behind those that come before it
InOrder(rows) ==
    [k \in 1..Cardinality(rows) |->
        CHOOSE r \in rows : Cardinality({q \in rows : Before(q, r)}) = k - 1]

\* list_evidence: one row beyond the page tells whether there is another page
Page(limit, cursor) ==
    LET bounded == IF limit > PageSize THEN PageSize ELSE limit
        match == {r \in evidence : cursor = <<>> \/ After(r, cursor)}
        rows == InOrder(match)
    IN  IF Len(rows) > bounded
        THEN [rows |-> SubSeq(rows, 1, bounded), next |-> rows[bounded]]
        ELSE [rows |-> rows, next |-> <<>>]

-----------------------------------------------------------------------------
(* The writers *)

Kinds == {"pages", "all", "detail", "provenance", "stream"}
Reads(kinds) == reader.kind \in kinds
Follows(status) == st[Inv] = status

\* a start or a retry; the executing task inserts its plan
Claim ==
    /\ claims < MaxClaims
    /\ Contract!Claim(Inv)
    /\ claims' = claims + 1
    /\ UNCHANGED <<tables, reader>>

\* an execution ends in a status derived from its outcomes; what it wrote is not looked at
End == Contract!End(Inv) /\ UNCHANGED <<claims, tables, reader>>

BreakOff == Contract!BreakOff /\ busy # {} /\ UNCHANGED <<claims, tables, reader>>
CloseOrphan == Contract!CloseOrphan(Inv) /\ UNCHANGED <<claims, tables, reader>>
Halt == Contract!Halt(Inv) /\ ~Follows("halted") /\ UNCHANGED <<claims, tables, reader>>

\* a purge: every row goes with the investigation, in one transaction
Purge ==
    /\ Contract!Remove(Inv) /\ ~Follows("deleted")
    /\ tasks' = <<>> /\ evidence' = {} /\ hypotheses' = {} /\ gaps' = {}
    /\ findings' = 0 /\ report' = FALSE
    /\ UNCHANGED <<claims, reader>>

\* an agent of the execution commits
Working == busy # {} /\ Follows("running")

Observe ==
    /\ Working /\ Reads({"pages", "all", "provenance"})
    /\ \E new \in SUBSET (Rows \ evidence) \ {{}} : evidence' = evidence \union new
    /\ UNCHANGED <<st, busy, claims, tasks, hypotheses, gaps, findings, report, reader>>

\* add_hypothesis and, of a later agent, add_hypothesis_gap
Conjecture ==
    /\ Working /\ Reads({"detail"})
    /\ \/ /\ \E h \in Hypotheses \ hypotheses : hypotheses' = hypotheses \union {h}
          /\ UNCHANGED gaps
       \/ /\ \E h \in hypotheses \ gaps : gaps' = gaps \union {h}
          /\ UNCHANGED hypotheses
    /\ UNCHANGED <<st, busy, claims, tasks, evidence, findings, report, reader>>

Find ==
    /\ Working /\ Reads({"detail"}) /\ findings < MaxFindings
    /\ findings' = findings + 1
    /\ UNCHANGED <<st, busy, claims, tasks, evidence, hypotheses, gaps, report, reader>>

\* the report agent commits; a plan that was cut short has none, and its commit may fail
Report ==
    /\ Working /\ ~report
    /\ report' = TRUE
    /\ UNCHANGED <<st, busy, claims, tasks, evidence, hypotheses, gaps, findings, reader>>

\* _begin inserts a row, or create_task does, which no execution ever picks up
AddTask ==
    /\ Reads({"stream"}) /\ ~Follows("deleted") /\ Len(tasks) < MaxTasks
    /\ tasks' = Append(tasks, "pending")
    /\ UNCHANGED <<st, busy, claims, evidence, hypotheses, gaps, findings, report, reader>>

\* _open_run, _close_run and _skip
MoveTask ==
    /\ Reads({"stream"}) /\ Working
    /\ \E k \in DOMAIN tasks :
          \/ /\ tasks[k] = "pending"
             /\ \E s \in {"running", "cancelled"} : tasks' = [tasks EXCEPT ![k] = s]
          \/ /\ tasks[k] = "running"
             /\ \E s \in {"succeeded", "failed"} : tasks' = [tasks EXCEPT ![k] = s]
    /\ UNCHANGED <<st, busy, claims, evidence, hypotheses, gaps, findings, report, reader>>

Writer ==
    \/ Claim \/ End \/ BreakOff \/ CloseOrphan \/ Halt \/ Purge
    \/ Observe \/ Conjecture \/ Find \/ Report \/ AddTask \/ MoveTask

-----------------------------------------------------------------------------
(* Pages of evidence, and all of it up to a cap *)

Paging == reader.kind \in {"pages", "all"} /\ ~reader.over
Limit == IF reader.kind = "pages" THEN reader.limit ELSE reader.limit - Len(reader.got)

\* a request for a page, or the loop of all_evidence when there is room
Turn ==
    /\ Paging /\ Limit > 0
    /\ LET page == Page(Limit, reader.cursor) IN
       reader' = [reader EXCEPT
                    !.got = @ \o page.rows,
                    !.cursor = page.next,
                    !.first = IF reader.got = <<>> THEN evidence ELSE @,
                    !.over = (page.next = <<>>)]
    /\ UNCHANGED <<st, busy, claims, tables>>

\* all_evidence has its cap and the last page had a successor
Cut ==
    /\ Paging /\ Limit <= 0
    /\ reader' = [reader EXCEPT !.over = TRUE, !.cut = TRUE]
    /\ UNCHANGED <<st, busy, claims, tables>>

-----------------------------------------------------------------------------
(* Answers put together from several SELECTs *)

\* Slip: the links are read before the hypotheses they belong to
SelectsLinksFirst(kind) ==
    IF kind = "detail"
    THEN <<"investigations", "findings", "reports", "hypothesis_evidence", "hypotheses",
           "hypothesis_gaps">>
    ELSE <<"evidence", "tool_runs", "artifacts", "agent_runs">>

\* the order in which a handler reads its tables
Selects(kind) ==
    IF kind = "detail"
    THEN <<"investigations", "findings", "reports", "hypotheses", "hypothesis_evidence",
           "hypothesis_gaps">>
    ELSE <<"evidence", "tool_runs", "artifacts", "agent_runs">>

Content(table) ==
    CASE table = "investigations" -> st[Inv]
      [] table = "findings" -> findings
      [] table = "reports" -> report
      [] table = "hypotheses" -> hypotheses
      [] table = "hypothesis_evidence" -> {p \in hypotheses \X Rows : p[2] \in Cites[p[1]]}
      [] table = "hypothesis_gaps" -> gaps
      [] table = "evidence" -> evidence
      [] OTHER -> {r \in evidence : table \in Origin[r]}

Asking == reader.kind \in {"detail", "provenance"} /\ ~reader.over
Due == Selects(reader.kind)[Len(reader.answer) + 1]

\* 404 where the row that is asked for is gone before anything is read
NotFound ==
    /\ Asking /\ reader.answer = <<>>
    /\ IF reader.kind = "detail" THEN Follows("deleted") ELSE reader.asked \notin evidence
    /\ reader' = [reader EXCEPT !.over = TRUE]
    /\ UNCHANGED <<st, busy, claims, tables>>

Select ==
    /\ Asking
    /\ reader.answer = <<>> =>
          IF reader.kind = "detail" THEN ~Follows("deleted") ELSE reader.asked \in evidence
    /\ reader' = [reader EXCEPT
          !.answer = Append(@, [table |-> Due, rows |-> Content(Due)]),
          !.asOf = IF reader.answer = <<>> THEN claims ELSE @,
          !.over = Len(reader.answer) + 1 = Len(Selects(reader.kind))]
    /\ UNCHANGED <<st, busy, claims, tables>>

-----------------------------------------------------------------------------
(* The event stream: a poll every second, two SELECTs each *)

Streaming == reader.kind = "stream" /\ ~reader.over
Completed == Cardinality({k \in DOMAIN tasks : tasks[k] = "succeeded"})

\* what progress and the stream tell of the tasks: one of those running, if any
Progress(status, running) ==
    [status |-> status, running |-> running, completed |-> Completed, total |-> Len(tasks)]

Running ==
    LET running == {k \in DOMAIN tasks : tasks[k] = "running"}
    IN  IF running = {} THEN {0} ELSE running

Poll ==
    /\ Streaming /\ reader.pc = "sleep"
    /\ reader' = IF Follows("deleted") THEN [reader EXCEPT !.over = TRUE]
                 ELSE [reader EXCEPT !.pc = "polled", !.status = st[Inv], !.claims = claims]
    /\ UNCHANGED <<st, busy, claims, tables>>

\* Slip: an event is sent only when another task runs
ChangedTask(running) == running # reader.told.running

\* the status or the running task differs from the last event's
Changed(running) ==
    running # reader.told.running \/ reader.status # reader.told.status

\* Slip: only polls with news count towards the end
ChecksOfNews(running) ==
    reader.checks + (IF reader.status \in Terminal /\ Changed(running) THEN 1 ELSE 0)

\* finished polls are counted and never forgotten, a retry in between or not
Checks(running) == reader.checks + (IF reader.status \in Terminal THEN 1 ELSE 0)

Tell ==
    /\ Streaming /\ reader.pc = "polled"
    /\ \E running \in Running :
          reader' = [reader EXCEPT
              !.pc = "sleep",
              !.told = IF Changed(running) THEN Progress(reader.status, running) ELSE @,
              !.asOf = IF Changed(running) THEN reader.claims ELSE @,
              !.checks = Checks(running),
              !.done = Checks(running) = 2, !.over = Checks(running) = 2]
    /\ UNCHANGED <<st, busy, claims, tables>>

-----------------------------------------------------------------------------
Clients ==
    {[kind |-> "pages", limit |-> n, cursor |-> <<>>, got |-> <<>>, first |-> {},
      cut |-> FALSE, over |-> FALSE] : n \in 1..(PageSize + 1)}
    \union
    {[kind |-> "all", limit |-> n, cursor |-> <<>>, got |-> <<>>, first |-> {},
      cut |-> FALSE, over |-> FALSE] : n \in Caps}
    \union
    {[kind |-> "detail", answer |-> <<>>, asOf |-> 0, over |-> FALSE]}
    \union
    {[kind |-> "provenance", asked |-> r, answer |-> <<>>, asOf |-> 0, over |-> FALSE] :
        r \in Rows}
    \union
    {[kind |-> "stream", pc |-> "sleep", status |-> "none", claims |-> 0,
      told |-> [status |-> "none", running |-> 0, completed |-> 0, total |-> 0],
      asOf |-> 0, checks |-> 0, done |-> FALSE, over |-> FALSE]}

Init ==
    /\ st = [i \in {Inv} |-> "created"] /\ busy = {} /\ claims = 0
    /\ tasks = <<>> /\ evidence = {} /\ hypotheses = {} /\ gaps = {}
    /\ findings = 0 /\ report = FALSE
    /\ reader \in Clients

Reader == Turn \/ Cut \/ NotFound \/ Select \/ Poll \/ Tell

Next == Writer \/ Reader

\* the server keeps answering; nobody has to write, start or finish anything
Spec == Init /\ [][Next]_vars /\ WF_vars(Reader)

-----------------------------------------------------------------------------
(* A client that follows the cursors, and an agent that reads up to its cap, get
   the rows in timeline order and none twice; whoever gets to the end without being
   told of a cut has every row that was there when it began, with rows committed in
   front of the cursor, behind it and at the very same moment meanwhile.  A read
   that is cut short has filled its cap. *)
ReadsSkipNothing ==
    reader.kind \in {"pages", "all"} =>
        /\ \A k \in 1..(Len(reader.got) - 1) : Before(reader.got[k], reader.got[k + 1])
        /\ reader.over /\ ~reader.cut =>
              reader.first \intersect evidence \subseteq ToSet(reader.got)
        /\ reader.cut => Len(reader.got) = reader.limit

\* what the reader got of a table
Answer(table) ==
    LET parts == {k \in DOMAIN reader.answer : reader.answer[k].table = table}
    IN  reader.answer[CHOOSE k \in parts : TRUE].rows
Answered(kind) == reader.kind = kind /\ reader.over /\ reader.answer # <<>>

\* what agents write and the details show
Record == <<findings, report, hypotheses, gaps>>

(* Details that call the investigation finished are its final record: the status is
   read first, and the later parts are what the execution left, unless the
   investigation was started again.  Every hypothesis they list, of a running
   investigation too, comes with the evidence it was recorded with.  The gaps of a
   provenance chain are those of the record.  All of it unless a purge came in
   between. *)
AnswersHangTogether ==
    ~Follows("deleted") =>
        /\ Answered("detail") =>
              /\ Answer("investigations") \in Terminal /\ claims = reader.asOf =>
                    <<Answer("findings"), Answer("reports"), Answer("hypotheses"),
                      Answer("hypothesis_gaps")>> = Record
              /\ \A h \in Answer("hypotheses") : \A r \in Cites[h] :
                    <<h, r>> \in Answer("hypothesis_evidence")
        /\ Answered("provenance") =>
              \A t \in {"tool_runs", "artifacts", "agent_runs"} :
                  reader.asked \in Answer(t) <=> t \in Origin[reader.asked]

(* A stream that says done has told that very status before, and a finished one;
   its last count of completed tasks is the true one, unless the investigation was
   started again or given another task since. *)
DoneIsTold ==
    reader.kind = "stream" /\ reader.done =>
        /\ reader.told.status = reader.status /\ reader.status \in Terminal
        /\ claims = reader.asOf /\ Len(tasks) = reader.told.total =>
              reader.told.completed = Completed

(* A stream on an investigation that is finished, or gone, ends, unless it is
   started again. *)
StreamsEnd ==
    (reader.kind = "stream" /\ st[Inv] \in Terminal \union {"deleted"})
        ~> (reader.over \/ Follows("running"))
=============================================================================
