--------------------------- MODULE EvidenceProofs ---------------------------
(***************************************************************************)
(* Proofs about EvidenceRecord for every set of sessions, purges and tool  *)
(* calls, whatever the tools extract, and for every quota.                 *)
(***************************************************************************)
EXTENDS EvidenceRecord, FiniteSetTheorems, TLAPS

----------------------------------------------------------------------------
(* The operators of the store.                                             *)

LEMMA GreaterOfTwo ==
  ASSUME NEW a \in Int, NEW b \in Int
  PROVE  Max({a, b}) = IF a >= b THEN a ELSE b
<1>1. \E x \in {a, b} : \A y \in {a, b} : x >= y OBVIOUS
<1> QED BY <1>1 DEF Max

LEMMA LesserOfTwo ==
  ASSUME NEW a \in Int, NEW b \in Int
  PROVE  Min({a, b}) = IF a <= b THEN a ELSE b
<1>1. \E x \in {a, b} : \A y \in {a, b} : x <= y OBVIOUS
<1> QED BY <1>1 DEF Min

\* A set that is the image of a finite one is finite and not larger.
LEMMA ObsAreNoMore ==
  ASSUME NEW rows, IsFiniteSet(rows)
  PROVE  IsFiniteSet(Obs(rows)) /\ Cardinality(Obs(rows)) <= Cardinality(rows)
<1> DEFINE f == [e \in rows |-> e.obs]
<1>1. f \in Surjection(rows, Obs(rows)) BY DEF Surjection, Obs
<1> HIDE DEF f
<1> QED BY <1>1, FS_Surjection

LEMMA RangeIsFinite ==
  ASSUME NEW S, NEW s \in Seq(S)
  PROVE  IsFiniteSet(Range(s))
<1>1. s \in Surjection(1..Len(s), Range(s)) BY DEF Surjection, Range
<1>2. IsFiniteSet(1..Len(s)) BY FS_Interval
<1> QED BY <1>1, <1>2, FS_Surjection

\* A row for every observation of a set: finite, and no more rows than members.
LEMMA RowsOfObs ==
  ASSUME NEW kept, IsFiniteSet(kept), NEW id
  PROVE  LET rows == {[obs |-> o, run |-> id] : o \in kept}
         IN  IsFiniteSet(rows) /\ Cardinality(rows) <= Cardinality(kept)
<1> DEFINE rows == {[obs |-> o, run |-> id] : o \in kept}
           f == [o \in kept |-> [obs |-> o, run |-> id]]
<1>1. f \in Surjection(kept, rows) BY DEF Surjection
<1> HIDE DEF f, rows
<1>2. IsFiniteSet(rows) /\ Cardinality(rows) <= Cardinality(kept) BY <1>1, FS_Surjection
<1> QED BY <1>2 DEF rows

\* While the quota holds, what is retained fits into what is left of it.
LEMMA RetainedFits ==
  ASSUME NEW held, IsFiniteSet(held), Cardinality(held) <= MaxEvidence,
         NEW fresh, IsFiniteSet(fresh), NEW drafts,
         NEW kept \in Retained(drafts, fresh, Headroom(held))
  PROVE  /\ kept \subseteq fresh /\ IsFiniteSet(kept)
         /\ Cardinality(kept) + Cardinality(held) <= MaxEvidence
<1>1. kept \subseteq fresh /\ Cardinality(kept) = Min({Cardinality(fresh), Headroom(held)})
  BY DEF Retained
<1>2. IsFiniteSet(kept) BY <1>1, FS_Subset
<1>3. Cardinality(held) \in Nat /\ Cardinality(fresh) \in Nat /\ MaxEvidence \in Nat
  BY FS_CardinalityType, RecordAssumption
<1>4. Headroom(held) = MaxEvidence - Cardinality(held) BY <1>3, GreaterOfTwo DEF Headroom
<1>5. Cardinality(kept) <= MaxEvidence - Cardinality(held) BY <1>1, <1>3, <1>4, LesserOfTwo
<1>6. Cardinality(kept) \in Nat BY <1>2, FS_CardinalityType
<1> QED BY <1>1, <1>2, <1>3, <1>5, <1>6

\* The shortfall is a number, and zero only when nothing fresh was left out.
LEMMA ShortfallCounts ==
  ASSUME NEW S, NEW drafts \in Seq(S), NEW fresh, NEW kept
  PROVE  /\ Shortfall(drafts, fresh, kept) \in Nat
         /\ ~(Shortfall(drafts, fresh, kept) > 0) => Range(drafts) \intersect fresh \subseteq kept
<1> DEFINE out == {k \in DOMAIN drafts : drafts[k] \in fresh \ kept}
<1>1. IsFiniteSet(DOMAIN drafts)
  <2>1. DOMAIN drafts = 1..Len(drafts) /\ Len(drafts) \in Nat OBVIOUS
  <2> QED BY <2>1, FS_Interval
<1>2. IsFiniteSet(out) BY <1>1, FS_Subset
<1>3. Cardinality(out) \in Nat /\ (Cardinality(out) = 0 => out = {})
  BY <1>2, FS_CardinalityType, FS_EmptySet
<1>4. out = {} => Range(drafts) \intersect fresh \subseteq kept BY DEF Range
<1> QED BY <1>3, <1>4 DEF Shortfall

----------------------------------------------------------------------------
(* The inductive invariant.                                                *)

Assertive == {"fact", "inference"}

Places == {"new", "calls", "tool", "record", "more", "done", "committed", "refused", "failed"}
Stages == {"new", "counted", "declined", "written", "done", "failed"}
Audits == [by : Purges, destroyed : Counts]
Table  == [row : BOOLEAN, evidence : SUBSET Row, runs : SUBSET RunRow,
           findings : SUBSET Finding, audit : SUBSET Audits]

\* What every copy of the tables keeps, committed or not: the three invariants
\* of the committed record and the quota, with the ids of the runs and the
\* sources of the findings they rest on.
Sound(t) ==
  /\ t \in Table
  /\ IsFiniteSet(t.evidence) /\ IsFiniteSet(t.runs) /\ IsFiniteSet(t.findings)
  /\ Cardinality(t.evidence) <= MaxEvidence
  /\ \A d, e \in t.evidence : d.obs = e.obs => d = e
  /\ \A q, r \in t.runs : q.id = r.id => q = r
  /\ \A e \in t.evidence : \E r \in t.runs : r.id = e.run /\ r.st = "succeeded"
  /\ \A r \in t.runs : r.count = Cardinality({e \in t.evidence : e.run = r.id})
  /\ \A r \in t.runs :
       r.st = "succeeded" => r.lost > 0 \/ Range(Output[r.call]) \subseteq Obs(t.evidence)
  /\ \A f \in t.findings :
       f.cites \subseteq t.evidence /\ (f.class \in Assertive => f.cites # {})

Shapes ==
  /\ lock \in Sessions \union Purges \union {Nobody}
  /\ at \in [Sessions -> Places]
  /\ agent \in [Sessions -> Agents \union {"none"}]
  /\ call \in [Sessions -> Nat \ {0}]
  /\ made \in [Sessions -> SUBSET Row]
  /\ dropped \in [Sessions -> Nat]
  /\ draft \in [Sessions -> [class : Claims \union {"none"}, cites : SUBSET Row]]
  /\ stage \in [Purges -> Stages]
  /\ counts \in [Purges -> Counts]
  /\ \A s \in Sessions : at[s] \in {"calls", "tool"} => agent[s] \in Agents
  /\ \A s \in Sessions :
       at[s] = "record" => /\ draft[s].class \in Claims
                           /\ draft[s].class \in Assertive => draft[s].cites # {}

\* Who holds the lock is in the middle of something, and there is one tool run
\* that is not finished at most: that of the tool its session is in.
Locking ==
  /\ lock = Nobody => work = db
  /\ \A s \in Sessions : lock = s => Open(s)
  /\ \A p \in Purges : lock = p <=> stage[p] = "written"
  /\ lock \in Sessions => /\ work.row /\ db.row
                          /\ db.evidence \subseteq work.evidence
                          /\ db.findings \subseteq work.findings
  /\ lock \in Purges =>
       ~work.row /\ work.evidence = {} /\ work.findings = {} /\ work.runs = {}
  /\ \A r \in db.runs : at[r.id[1]] = "committed" /\ r.st # "running"
  /\ \A r \in work.runs : r.id[1] # lock => r \in db.runs
  /\ \A r \in work.runs : r.id[1] = lock =>
       \/ r.id[2] < call[lock] /\ r.st # "running"
       \/ at[lock] = "tool" /\ r = ToolRun(lock, "running", 0, 0)
  /\ \A s \in Sessions : at[s] = "tool" =>
       /\ lock = s
       /\ call[s] <= Len(ToolsOf(agent[s]))
       /\ ToolRun(s, "running", 0, 0) \in work.runs

RecordInv == Sound(db) /\ Sound(work) /\ Shapes /\ Locking

LEMMA NobodyIsNobody ==
  /\ Nobody \notin Sessions /\ Nobody \notin Purges
  /\ \A s \in Sessions : s \notin Purges
BY RecordAssumption

LEMMA RecordIsTyped == RecordInv => TypeOK
<1> SUFFICES ASSUME RecordInv PROVE TypeOK
  OBVIOUS
<1>1. ASSUME NEW t, t \in Table PROVE Tables(t)
  BY <1>1 DEF Table, Tables, Audits
<1>2. Tables(db) /\ Tables(work) BY <1>1 DEF RecordInv, Sound
<1>3. \A s \in Sessions : made[s] \subseteq Row BY DEF RecordInv, Shapes
<1>4. call \in [Sessions -> Nat] BY DEF RecordInv, Shapes
<1> QED BY <1>2, <1>3, <1>4 DEF RecordInv, Shapes, Locking, TypeOK, Places, Stages

LEMMA FreshIsSound == Sound(Fresh)
<1>1. Fresh \in Table BY DEF Fresh, Table
<1> QED BY <1>1, FS_EmptySet, RecordAssumption DEF Sound, Fresh

LEMMA RecordInit == Init => RecordInv
<1> SUFFICES ASSUME Init PROVE RecordInv
  OBVIOUS
<1>1. Sound(db) /\ Sound(work) BY FreshIsSound DEF Init
<1>2. Shapes BY DEF Init, Shapes, Places, Stages, Counts, NoClaim
<1>3. Locking
  <2>1. lock = Nobody /\ db.runs = {} /\ work.runs = {} /\ work = db
    BY DEF Init, Fresh
  <2> QED BY <2>1, NobodyIsNobody DEF Locking, Init
<1> QED BY <1>1, <1>2, <1>3 DEF RecordInv

----------------------------------------------------------------------------
(* The steps that write no table.                                          *)

\* Whoever may write sees what the tables are about to be.
LEMMA WriterSeesWork ==
  ASSUME RecordInv, NEW who, Free(who)
  PROVE  View(who) = work
BY DEF Free, View, RecordInv, Locking

\* A session that goes on from one place to another, neither of them the
\* inside of a tool, and leaves tables and lock alone.
LEMMA MovesKeepLocking ==
  ASSUME RecordInv, NEW s \in Sessions, NEW place \in Places \ {"tool"},
         at[s] \notin {"tool", "committed"}, at' = [at EXCEPT ![s] = place],
         lock # s \/ place \in {"calls", "record", "more", "done"},
         UNCHANGED <<db, work, lock, agent, call, purgeVars>>
  PROVE  Locking'
<1>1. at \in [Sessions -> Places] /\ at'[s] = place /\ \A q \in Sessions : q # s => at'[q] = at[q]
  BY DEF RecordInv, Shapes
<1>2. \A r \in RunRow : r.id[1] \in Sessions BY DEF RunRow
<1>3. db.runs \subseteq RunRow /\ work.runs \subseteq RunRow BY DEF RecordInv, Sound, Table
<1>4. \A q \in Sessions : lock' = q => Open(q)' BY <1>1 DEF RecordInv, Locking, Open
<1>5. \A r \in db.runs : at'[r.id[1]] = "committed" /\ r.st # "running"
  BY <1>1, <1>2, <1>3 DEF RecordInv, Locking
<1>6. \A r \in work.runs : r.id[1] = lock =>
       \/ r.id[2] < call[lock] /\ r.st # "running"
       \/ at'[lock] = "tool" /\ r = ToolRun(lock, "running", 0, 0)
  BY <1>1, <1>2, <1>3 DEF RecordInv, Locking
<1>7. \A q \in Sessions : at'[q] = "tool" => at[q] = "tool" BY <1>1
<1>8. \A q : ToolRun(q, "running", 0, 0)' = ToolRun(q, "running", 0, 0)
  BY DEF ToolRun, RunId, Current
<1> QED BY <1>4, <1>5, <1>6, <1>7, <1>8 DEF RecordInv, Locking, purgeVars

LEMMA RecordEnter ==
  ASSUME RecordInv, NEW s \in Sessions, Enter(s)
  PROVE  RecordInv'
<1>1. PICK a \in Agents : agent' = [agent EXCEPT ![s] = a]
                          /\ Goto(s, IF a \in Readers THEN "more" ELSE "calls")
  BY DEF Enter
<1>2. at[s] = "new" /\ lock # s BY DEF Enter, RecordInv, Locking, Open
<1>3. Shapes'
  BY <1>1 DEF Enter, Goto, RecordInv, Shapes, Places, purgeVars
<1>4. Locking'
  <2>1. at \in [Sessions -> Places] /\ agent \in [Sessions -> Agents \union {"none"}]
    BY DEF RecordInv, Shapes
  <2>2. \A q \in Sessions : q # s => at'[q] = at[q] /\ agent'[q] = agent[q]
    BY <1>1, <2>1 DEF Goto
  <2>3. at'[s] \notin {"tool", "committed"} BY <1>1, <2>1 DEF Goto
  <2>4. db.runs \subseteq RunRow /\ work.runs \subseteq RunRow BY DEF RecordInv, Sound, Table
  <2>5. \A r \in RunRow : r.id[1] \in Sessions BY DEF RunRow
  <2>6. \A q \in Sessions : q # s =>
          /\ ToolRun(q, "running", 0, 0)' = ToolRun(q, "running", 0, 0)
          /\ ToolsOf(agent[q])' = ToolsOf(agent[q])
    BY <2>2 DEF Enter, ToolRun, RunId, Current, ToolsOf
  <2>7. \A r \in db.runs : at'[r.id[1]] = "committed" /\ r.st # "running"
    BY <1>2, <2>2, <2>4, <2>5 DEF RecordInv, Locking
  <2>8. \A r \in work.runs : r.id[1] = lock =>
         \/ r.id[2] < call[lock] /\ r.st # "running"
         \/ at'[lock] = "tool" /\ r = ToolRun(lock, "running", 0, 0)'
    <3>1. lock' = lock BY DEF Enter
    <3> QED BY <1>2, <2>2, <2>4, <2>5, <2>6, <3>1 DEF RecordInv, Locking
  <2>9. \A q \in Sessions : at'[q] = "tool" =>
       /\ lock = q
       /\ call[q] <= Len(ToolsOf(agent[q]))'
       /\ ToolRun(q, "running", 0, 0)' \in work.runs
    BY <2>2, <2>3, <2>6 DEF Enter, RecordInv, Locking
  <2>10. \A q \in Sessions : lock = q => Open(q)'
    BY <1>2, <2>2 DEF RecordInv, Locking, Open
  <2> QED BY <2>7, <2>8, <2>9, <2>10 DEF Enter, RecordInv, Locking, purgeVars
<1> QED BY <1>3, <1>4 DEF Enter, RecordInv, Sound

LEMMA RecordNotRun ==
  ASSUME RecordInv, NEW s \in Sessions, NotRun(s)
  PROVE  RecordInv'
<1>1. at[s] = "calls" BY DEF NotRun, AtCall
<1>2. /\ call \in [Sessions -> Nat \ {0}] /\ call'[s] = call[s] + 1
      /\ \A q \in Sessions : q # s => call'[q] = call[q]
  BY DEF NotRun, RecordInv, Shapes
<1>3. Shapes' BY DEF NotRun, RecordInv, Shapes, purgeVars
<1>4. Locking'
  <2>1. db.runs \subseteq RunRow /\ work.runs \subseteq RunRow BY DEF RecordInv, Sound, Table
  <2>2. \A r \in RunRow : r.id[1] \in Sessions /\ r.id[2] \in Nat BY DEF RunRow
  <2>3. \A q \in Sessions : q # s => ToolRun(q, "running", 0, 0)' = ToolRun(q, "running", 0, 0)
    BY <1>2 DEF NotRun, ToolRun, RunId, Current
  <2>4. \A r \in work.runs : r.id[1] = lock =>
         \/ r.id[2] < call'[lock] /\ r.st # "running"
         \/ at[lock] = "tool" /\ r = ToolRun(lock, "running", 0, 0)'
    <3>1. ASSUME NEW r \in work.runs, r.id[1] = lock
          PROVE  \/ r.id[2] < call'[lock] /\ r.st # "running"
                 \/ at[lock] = "tool" /\ r = ToolRun(lock, "running", 0, 0)'
      <4>1. lock \in Sessions /\ r.id[2] \in Nat BY <2>1, <2>2, <3>1
      <4>2. CASE lock = s
        <5>1. r.id[2] < call[s] /\ r.st # "running" BY <1>1, <3>1, <4>2 DEF RecordInv, Locking
        <5>2. call[s] \in Nat BY <1>2
        <5> QED BY <1>2, <4>1, <4>2, <5>1, <5>2
      <4>3. CASE lock # s
        <5>1. lock' = lock BY DEF NotRun
        <5> QED BY <1>2, <2>3, <3>1, <4>1, <4>3, <5>1 DEF RecordInv, Locking
      <4> QED BY <4>2, <4>3
    <3> QED BY <3>1
  <2>5. \A q \in Sessions : at[q] = "tool" =>
       /\ lock = q
       /\ call'[q] <= Len(ToolsOf(agent[q]))
       /\ ToolRun(q, "running", 0, 0)' \in work.runs
    BY <1>1, <1>2, <2>3 DEF RecordInv, Locking
  <2>6. \A q \in Sessions : lock = q => Open(q)' BY DEF NotRun, RecordInv, Locking, Open
  <2> QED BY <2>4, <2>5, <2>6 DEF NotRun, RecordInv, Locking, purgeVars, ToolsOf
<1> QED BY <1>3, <1>4 DEF NotRun, RecordInv, Sound

\* The claim a session is about to write, by whichever way it came to it.
LEMMA RecordPropose ==
  ASSUME RecordInv, NEW s \in Sessions, NEW class \in Claims, NEW cites \in SUBSET Row,
         class \in Assertive => cites # {},
         at[s] \in {"calls", "more"}, Propose(s, class, cites)
  PROVE  RecordInv'
<1>1. Shapes' BY DEF Propose, Goto, RecordInv, Shapes, Places, purgeVars
<1>2. Locking'
  <2>1. at' = [at EXCEPT ![s] = "record"] /\ UNCHANGED <<db, work, lock, agent, call, purgeVars>>
    BY DEF Propose, Goto
  <2> QED BY <2>1, MovesKeepLocking DEF Places
<1> QED BY <1>1, <1>2 DEF Propose, RecordInv, Sound

LEMMA RecordClaims ==
  ASSUME RecordInv, NEW s \in Sessions, StateFact(s) \/ StateNothing(s) \/ Infer(s)
  PROVE  RecordInv'
<1>1. CASE StateFact(s)
  <2>1. made[s] \in SUBSET Row BY DEF RecordInv, Shapes
  <2> QED BY <1>1, <2>1, RecordPropose DEF StateFact, Called, Claims
<1>2. CASE StateNothing(s)
  <2>1. {} \in SUBSET Row /\ "unknown" \in Claims /\ "unknown" \notin Assertive
    BY DEF Claims, Assertive
  <2> QED BY <1>2, <2>1, RecordPropose DEF StateNothing, Called
<1>3. CASE Infer(s)
  <2>1. PICK class \in {"inference", "hypothesis"}, cites \in SUBSET View(s).evidence :
          (class = "inference" => cites # {}) /\ Propose(s, class, cites)
    BY <1>3 DEF Infer
  <2>2. cites \in SUBSET Row BY DEF View, RecordInv, Sound, Table
  <2>3. class \in Claims /\ (class \in Assertive => cites # {}) BY <2>1 DEF Claims, Assertive
  <2> QED BY <1>3, <2>1, <2>2, <2>3, RecordPropose DEF Infer
<1> QED BY <1>1, <1>2, <1>3

LEMMA RecordRollBack ==
  ASSUME RecordInv, NEW s \in Sessions, NEW place \in {"refused", "failed"},
         Open(s), RollBack(s, place)
  PROVE  RecordInv'
<1>1. at[s] # "committed" /\ at \in [Sessions -> Places]
  BY DEF Open, RecordInv, Shapes
<1>2. at'[s] = place /\ \A q \in Sessions : q # s => at'[q] = at[q]
  BY <1>1 DEF RollBack, Goto
<1>3. Shapes'
  BY DEF RollBack, Goto, RecordInv, Shapes, Places, purgeVars
<1>4. db.runs \subseteq RunRow /\ work.runs \subseteq RunRow BY DEF RecordInv, Sound, Table
<1>5. \A r \in RunRow : r.id[1] \in Sessions BY DEF RunRow
<1>6. \A r \in db.runs : at'[r.id[1]] = "committed" /\ r.st # "running"
  BY <1>1, <1>2, <1>4, <1>5 DEF RecordInv, Locking
<1>7. \A q : ToolRun(q, "running", 0, 0)' = ToolRun(q, "running", 0, 0)
  BY DEF RollBack, ToolRun, RunId, Current
<1>8. \A q \in Sessions : at'[q] = "tool" => at[q] = "tool" /\ q # s BY <1>2
<1>9. CASE lock = s
  <2>1. lock' = Nobody /\ work' = db /\ db' = db BY <1>9 DEF RollBack
  <2>2. \A r \in work'.runs : r \in db'.runs /\ r.id[1] # Nobody
    BY <1>4, <1>5, <2>1, NobodyIsNobody
  <2>3. \A q \in Sessions : at'[q] # "tool" BY <1>8, <1>9 DEF RecordInv, Locking
  <2>4. \A p \in Purges : stage[p] # "written" BY <1>9, NobodyIsNobody DEF RecordInv, Locking
  <2>5. Locking'
    BY <1>6, <2>1, <2>2, <2>3, <2>4, NobodyIsNobody DEF RollBack, Locking, purgeVars
  <2> QED BY <1>3, <2>1, <2>5 DEF RecordInv, Sound
<1>10. CASE lock # s
  <2>1. lock' = lock /\ work' = work /\ db' = db BY <1>10 DEF RollBack
  <2>2. \A q \in Sessions : lock' = q => Open(q)' BY <1>2, <1>10, <2>1 DEF RecordInv, Locking, Open
  <2>3. \A r \in work.runs : r.id[1] = lock =>
         \/ r.id[2] < call[lock] /\ r.st # "running"
         \/ at'[lock] = "tool" /\ r = ToolRun(lock, "running", 0, 0)
    BY <1>2, <1>4, <1>5, <1>10 DEF RecordInv, Locking
  <2>4. Locking'
    BY <1>6, <1>7, <1>8, <2>1, <2>2, <2>3 DEF RollBack, RecordInv, Locking, purgeVars
  <2> QED BY <1>3, <2>1, <2>4 DEF RecordInv, Sound
<1> QED BY <1>9, <1>10

LEMMA RecordEnds ==
  ASSUME RecordInv, NEW s \in Sessions, Refused(s) \/ Rejected(s) \/ Fail(s)
  PROVE  RecordInv'
<1>1. Open(s) BY DEF Refused, Rejected, Fail, Called, AtCall, Open
<1> QED BY <1>1, RecordRollBack DEF Refused, Rejected, Fail

----------------------------------------------------------------------------
(* The tool runs.                                                          *)

LEMMA CallsAreCalls ==
  ASSUME RecordInv, NEW s \in Sessions, at[s] \in {"calls", "tool"},
         call[s] <= Len(ToolsOf(agent[s]))
  PROVE  Current(s) \in Calls
<1>1. agent[s] \in Agents /\ call[s] \in Nat \ {0} BY DEF RecordInv, Shapes
<1>2. ToolsOf(agent[s]) \in Seq(Calls)
  BY <1>1, RecordAssumption DEF ToolsOf, Agents
<1> QED BY <1>1, <1>2 DEF Current

\* A call that was not made yet has no run, and nothing names it as its source.
LEMMA NewRunId ==
  ASSUME RecordInv, NEW s \in Sessions, AtCall(s), Free(s)
  PROVE  /\ \A r \in work.runs : r.id # RunId(s)
         /\ \A e \in work.evidence : e.run # RunId(s)
         /\ \A r \in work.runs : r.id[1] = s => lock = s
<1>1. work.runs \subseteq RunRow /\ \A r \in RunRow : r.id[1] \in Sessions
  BY DEF RecordInv, Sound, Table, RunRow
<1>2. at[s] = "calls" /\ call[s] \in Nat BY DEF AtCall, RecordInv, Shapes
<1>3. ASSUME NEW r \in work.runs, r.id[1] = s PROVE lock = s
  <2>1. SUFFICES ASSUME lock # s PROVE FALSE OBVIOUS
  <2>2. at[s] = "committed" BY <1>3, <2>1 DEF RecordInv, Locking
  <2> QED BY <1>2, <2>2
<1>4. ASSUME NEW r \in work.runs, r.id = RunId(s) PROVE FALSE
  <2>1. r.id[1] = s /\ r.id[2] = call[s] BY <1>4 DEF RunId
  <2>2. lock = s BY <1>3, <2>1
  <2>3. r.id[2] < call[s] BY <1>2, <2>1, <2>2 DEF RecordInv, Locking
  <2> QED BY <1>2, <2>1, <2>3
<1>5. \A e \in work.evidence : \E r \in work.runs : r.id = e.run BY DEF RecordInv, Sound
<1> QED BY <1>3, <1>4, <1>5

LEMMA RecordInvoke ==
  ASSUME RecordInv, NEW s \in Sessions, Invoke(s)
  PROVE  RecordInv'
<1> DEFINE R == ToolRun(s, "running", 0, 0)
<1>1. /\ AtCall(s) /\ Free(s) /\ View(s).row /\ View(s) = work
      /\ at[s] = "calls" /\ call[s] <= Len(ToolsOf(agent[s]))
      /\ lock' = s /\ at' = [at EXCEPT ![s] = "tool"] /\ db' = db
      /\ work' = [work EXCEPT !.runs = @ \union {R}]
  BY WriterSeesWork DEF Invoke, AtCall, Goto
<1>2. R \in RunRow /\ R.id = RunId(s) /\ R.st = "running" /\ R.count = 0
      /\ R.id[1] = s /\ R.id[2] = call[s]
  BY <1>1, CallsAreCalls DEF ToolRun, RunId, RunRow, RecordInv, Shapes
<1>3. /\ \A r \in work.runs : r.id # R.id
      /\ \A e \in work.evidence : e.run # R.id
      /\ \A r \in work.runs : r.id[1] = s => lock = s
  BY <1>1, <1>2, NewRunId
<1>4. R' = R BY DEF Invoke, ToolRun, RunId, Current
<1> HIDE DEF R
<1>5. work \in Table BY DEF RecordInv, Sound
<1>6. /\ work' \in Table /\ work'.row = work.row /\ work'.evidence = work.evidence
      /\ work'.findings = work.findings /\ work'.runs = work.runs \union {R}
  BY <1>1, <1>2, <1>5 DEF Table
<1>7. Sound(work)'
  <2>1. IsFiniteSet(work.runs \union {R}) BY FS_AddElement DEF RecordInv, Sound
  <2>2. \A q, r \in work'.runs : q.id = r.id => q = r BY <1>3, <1>6 DEF RecordInv, Sound
  <2>3. \A e \in work'.evidence : \E r \in work'.runs : r.id = e.run /\ r.st = "succeeded"
    BY <1>6 DEF RecordInv, Sound
  <2>4. \A r \in work'.runs : r.count = Cardinality({e \in work'.evidence : e.run = r.id})
    <3>1. {e \in work.evidence : e.run = R.id} = {} BY <1>3
    <3>2. R.count = Cardinality({e \in work.evidence : e.run = R.id}) BY <1>2, <3>1, FS_EmptySet
    <3> QED BY <1>6, <3>2 DEF RecordInv, Sound
  <2>5. \A r \in work'.runs :
          r.st = "succeeded" => r.lost > 0 \/ Range(Output[r.call]) \subseteq Obs(work'.evidence)
    BY <1>2, <1>6 DEF RecordInv, Sound
  <2> QED BY <1>6, <2>1, <2>2, <2>3, <2>4, <2>5 DEF RecordInv, Sound
<1>8. Shapes' BY <1>1 DEF Invoke, RecordInv, Shapes, Places, purgeVars
<1>9. Locking'
  <2>1. at \in [Sessions -> Places] BY DEF RecordInv, Shapes
  <2>2. at'[s] = "tool" /\ \A q \in Sessions : q # s => at'[q] = at[q] BY <1>1, <2>1
  <2>3. lock = Nobody \/ lock = s BY <1>1 DEF Free
  <2>4. db.runs \subseteq RunRow /\ work.runs \subseteq RunRow /\ \A r \in RunRow : r.id[1] \in Sessions
    BY DEF RecordInv, Sound, Table, RunRow
  <2>5. \A p \in Purges : stage[p] # "written" /\ p # s
    BY <2>3, NobodyIsNobody DEF RecordInv, Locking
  <2>6. work.row /\ db.row /\ db.evidence \subseteq work.evidence /\ db.findings \subseteq work.findings
    BY <1>1, <2>3 DEF RecordInv, Locking
  <2>7. \A r \in db.runs : at'[r.id[1]] = "committed" /\ r.st # "running"
    BY <1>1, <2>2, <2>4 DEF RecordInv, Locking
  <2>8. \A r \in work'.runs : r.id[1] # s => r \in db.runs
    BY <1>2, <1>6, <2>3 DEF RecordInv, Locking
  <2>9. \A r \in work'.runs : r.id[1] = s => (r.id[2] < call[s] /\ r.st # "running") \/ r = R
    BY <1>1, <1>3, <1>6 DEF RecordInv, Locking
  <2>10. \A q \in Sessions : at'[q] = "tool" => q = s
    BY <2>2, <2>3, NobodyIsNobody DEF RecordInv, Locking
  <2>11. R \in work'.runs BY <1>6
  <2>12. agent' = agent /\ call' = call /\ stage' = stage BY DEF Invoke, purgeVars
  <2>13. \A q \in Sessions : lock' = q => Open(q)' BY <1>1, <2>2 DEF Open
  <2> QED BY <1>1, <1>4, <1>6, <2>2, <2>5, <2>6, <2>7, <2>8, <2>9, <2>10, <2>11, <2>12, <2>13,
             NobodyIsNobody DEF Locking, ToolsOf, R
<1> QED BY <1>1, <1>7, <1>8, <1>9 DEF RecordInv, Sound

\* The run a session is in is the one with its id, and has produced nothing.
LEMMA RunUnderWay ==
  ASSUME RecordInv, NEW s \in Sessions, at[s] = "tool"
  PROVE  /\ lock = s /\ ToolRun(s, "running", 0, 0) \in work.runs
         /\ \A r \in work.runs : r.id = RunId(s) => r = ToolRun(s, "running", 0, 0)
         /\ \A e \in work.evidence : e.run # RunId(s)
         /\ Current(s) \in Calls
<1>1. lock = s /\ ToolRun(s, "running", 0, 0) \in work.runs BY DEF RecordInv, Locking
<1>2. ToolRun(s, "running", 0, 0).id = RunId(s) /\ ToolRun(s, "running", 0, 0).st = "running"
  BY DEF ToolRun
<1>3. \A r \in work.runs : r.id = RunId(s) => r = ToolRun(s, "running", 0, 0)
  BY <1>1, <1>2 DEF RecordInv, Sound
<1>4. \A e \in work.evidence : e.run # RunId(s) BY <1>2, <1>3 DEF RecordInv, Sound
<1>5. Current(s) \in Calls BY CallsAreCalls DEF RecordInv, Locking
<1> QED BY <1>1, <1>3, <1>4, <1>5

\* A tool run is finalised with the rows it created.
Finalizing(s, state, rows, n, lost) ==
  /\ at[s] = "tool" /\ state \in {"succeeded", "failed"}
  /\ rows \in SUBSET Row /\ n \in Nat /\ lost \in Nat
  /\ IsFiniteSet(rows) /\ n = Cardinality(rows)
  /\ Cardinality(work.evidence) + Cardinality(rows) <= MaxEvidence
  /\ \A d \in rows : d.run = RunId(s)
  /\ \A d, e \in rows : d.obs = e.obs => d = e
  /\ \A d \in rows : d.obs \notin Obs(work.evidence)
  /\ state = "failed" => rows = {}
  /\ state = "succeeded" =>
       lost > 0 \/ Range(Output[Current(s)]) \subseteq Obs(work.evidence \union rows)
  /\ work' = [work EXCEPT !.evidence = @ \union rows, !.runs = Finalize(s, state, n, lost)]

Finalized(s, state, n, lost) ==
  /\ Sound(work)'
  /\ work'.row = work.row /\ work.evidence \subseteq work'.evidence
  /\ work'.findings = work.findings
  /\ work'.runs = Finalize(s, state, n, lost)

LEMMA FinalizedIsSound ==
  ASSUME RecordInv, NEW s \in Sessions, NEW state, NEW rows, NEW n, NEW lost,
         Finalizing(s, state, rows, n, lost)
  PROVE  Finalized(s, state, n, lost)
<1> USE DEF Finalizing
<1> DEFINE R == ToolRun(s, "running", 0, 0)
           F == ToolRun(s, state, n, lost)
<1>1. /\ R \in work.runs
      /\ \A r \in work.runs : r.id = RunId(s) => r = R
      /\ \A e \in work.evidence : e.run # RunId(s)
      /\ Current(s) \in Calls
  BY RunUnderWay
<1>2. F \in RunRow /\ F.id = RunId(s) /\ F.st = state /\ F.count = n /\ F.lost = lost
      /\ F.call = Current(s)
  BY <1>1 DEF ToolRun, RunId, RunRow, RecordInv, Shapes
<1>3. R.st = "running" /\ R.id = RunId(s) BY DEF ToolRun
<1>4. Finalize(s, state, n, lost) = (work.runs \ {R}) \union {F} BY DEF Finalize
<1> HIDE DEF R, F
<1>5. work \in Table /\ IsFiniteSet(work.evidence) /\ IsFiniteSet(work.runs) BY DEF RecordInv, Sound
<1>6. /\ work' \in Table /\ work'.row = work.row /\ work'.evidence = work.evidence \union rows
      /\ work'.findings = work.findings /\ work'.runs = (work.runs \ {R}) \union {F}
  <2>1. (work.runs \ {R}) \union {F} \in SUBSET RunRow BY <1>2, <1>5 DEF Table
  <2>2. work.evidence \union rows \in SUBSET Row BY <1>5 DEF Table
  <2> QED BY <1>4, <1>5, <2>1, <2>2 DEF Table
<1>7. IsFiniteSet(work'.evidence) /\ IsFiniteSet(work'.runs)
  <2>1. IsFiniteSet(work.evidence \union rows) BY <1>5, FS_Union
  <2>2. IsFiniteSet(work.runs \ {R}) BY <1>5, FS_Subset
  <2>3. IsFiniteSet((work.runs \ {R}) \union {F}) BY <2>2, FS_AddElement
  <2> QED BY <1>6, <2>1, <2>3
<1>8. Cardinality(work'.evidence) <= MaxEvidence
  <2>1. Cardinality(work.evidence \intersect rows) \in Nat
    <3>1. IsFiniteSet(work.evidence \intersect rows) BY <1>5, FS_Subset
    <3> QED BY <3>1, FS_CardinalityType
  <2>2. Cardinality(work.evidence \union rows)
          = Cardinality(work.evidence) + Cardinality(rows) - Cardinality(work.evidence \intersect rows)
    BY <1>5, FS_Union
  <2>3. Cardinality(work.evidence) \in Nat /\ Cardinality(rows) \in Nat BY <1>5, FS_CardinalityType
  <2> QED BY <1>6, <2>1, <2>2, <2>3, RecordAssumption
<1>9. \A d, e \in work'.evidence : d.obs = e.obs => d = e
  BY <1>6 DEF RecordInv, Sound, Obs
<1>10. \A q, r \in work'.runs : q.id = r.id => q = r
  BY <1>1, <1>2, <1>3, <1>6 DEF RecordInv, Sound
<1>11. \A e \in work'.evidence : \E r \in work'.runs : r.id = e.run /\ r.st = "succeeded"
  <2>1. ASSUME NEW e \in rows PROVE \E r \in work'.runs : r.id = e.run /\ r.st = "succeeded"
    BY <1>2, <1>6, <2>1
  <2>2. ASSUME NEW e \in work.evidence PROVE \E r \in work'.runs : r.id = e.run /\ r.st = "succeeded"
    <3>1. PICK r \in work.runs : r.id = e.run /\ r.st = "succeeded" BY DEF RecordInv, Sound
    <3> QED BY <1>3, <1>6, <3>1
  <2> QED BY <1>6, <2>1, <2>2
<1>12. \A r \in work'.runs : r.count = Cardinality({e \in work'.evidence : e.run = r.id})
  <2>1. {e \in work'.evidence : e.run = RunId(s)} = rows BY <1>1, <1>6
  <2>2. ASSUME NEW r \in work.runs \ {R}
        PROVE  {e \in work'.evidence : e.run = r.id} = {e \in work.evidence : e.run = r.id}
    BY <1>1, <1>6
  <2>3. ASSUME NEW r \in work.runs \ {R}
        PROVE  r.count = Cardinality({e \in work'.evidence : e.run = r.id})
    <3>1. r.count = Cardinality({e \in work.evidence : e.run = r.id}) BY DEF RecordInv, Sound
    <3> QED BY <2>2, <3>1
  <2>4. F.count = Cardinality({e \in work'.evidence : e.run = F.id})
    <3>1. {e \in work'.evidence : e.run = F.id} = rows BY <1>2, <2>1
    <3> QED BY <1>2, <3>1
  <2> QED BY <1>6, <2>3, <2>4
<1>13. \A r \in work'.runs :
         r.st = "succeeded" => r.lost > 0 \/ Range(Output[r.call]) \subseteq Obs(work'.evidence)
  <2>1. Obs(work.evidence) \subseteq Obs(work'.evidence) BY <1>6 DEF Obs
  <2> QED BY <1>2, <1>6, <2>1 DEF RecordInv, Sound
<1>14. \A f \in work'.findings :
         f.cites \subseteq work'.evidence /\ (f.class \in Assertive => f.cites # {})
  BY <1>6 DEF RecordInv, Sound
<1>15. IsFiniteSet(work'.findings) BY <1>6 DEF RecordInv, Sound
<1> QED BY <1>4, <1>6, <1>7, <1>8, <1>9, <1>10, <1>11, <1>12, <1>13, <1>14, <1>15 DEF Finalized, Sound

\* ... and the session goes on to its next call.
LEMMA FinalizedKeepsLocking ==
  ASSUME RecordInv, NEW s \in Sessions, at[s] = "tool",
         NEW state \in {"succeeded", "failed"}, NEW n, NEW lost,
         work'.row = work.row, work.evidence \subseteq work'.evidence,
         work'.findings = work.findings,
         work'.runs = Finalize(s, state, n, lost),
         call' = [call EXCEPT ![s] = @ + 1], at' = [at EXCEPT ![s] = "calls"],
         UNCHANGED <<db, lock, agent, purgeVars>>
  PROVE  Locking'
<1> DEFINE R == ToolRun(s, "running", 0, 0)
           F == ToolRun(s, state, n, lost)
<1>1. lock = s /\ lock' = s /\ agent' = agent /\ stage' = stage /\ db' = db
  BY RunUnderWay DEF purgeVars
<1>2. F.id[1] = s /\ F.id[2] = call[s] /\ F.st # "running" BY DEF ToolRun, RunId
<1>3. work'.runs = (work.runs \ {R}) \union {F} BY DEF Finalize
<1> HIDE DEF R, F
<1>4. at \in [Sessions -> Places] /\ call \in [Sessions -> Nat \ {0}] BY DEF RecordInv, Shapes
<1>5. at'[s] = "calls" /\ call'[s] = call[s] + 1 /\ \A q \in Sessions : q # s => at'[q] = at[q]
  BY <1>4
<1>6. db.runs \subseteq RunRow /\ work.runs \subseteq RunRow
      /\ \A r \in RunRow : r.id[1] \in Sessions /\ r.id[2] \in Nat
  BY DEF RecordInv, Sound, Table, RunRow
<1>7. \A r \in db.runs : at'[r.id[1]] = "committed" /\ r.st # "running"
  BY <1>5, <1>6 DEF RecordInv, Locking
<1>8. \A r \in work'.runs : r.id[1] # s => r \in db.runs
  BY <1>1, <1>2, <1>3 DEF RecordInv, Locking
<1>9. \A r \in work'.runs : r.id[1] = s => r.id[2] < call[s] + 1 /\ r.st # "running"
  <2>1. ASSUME NEW r \in work.runs, r # R, r.id[1] = s PROVE r.id[2] < call[s] /\ r.st # "running"
    BY <1>1, <2>1 DEF RecordInv, Locking, R
  <2> QED BY <1>2, <1>3, <1>4, <1>6, <2>1
<1>10. \A q \in Sessions : at'[q] # "tool" BY <1>1, <1>5 DEF RecordInv, Locking
<1>11. \A q \in Sessions : lock' = q => Open(q)' BY <1>1, <1>5 DEF Open
<1>12. \A p \in Purges : lock' = p <=> stage'[p] = "written" BY <1>1 DEF RecordInv, Locking
<1>13. /\ work'.row /\ db'.row /\ db'.evidence \subseteq work'.evidence
       /\ db'.findings \subseteq work'.findings
  BY <1>1 DEF RecordInv, Locking
<1> QED BY <1>1, <1>5, <1>7, <1>8, <1>9, <1>10, <1>11, <1>12, <1>13, NobodyIsNobody DEF Locking

LEMMA RecordToolFails ==
  ASSUME RecordInv, NEW s \in Sessions, ToolFails(s)
  PROVE  RecordInv'
<1>1. /\ at[s] = "tool" /\ UNCHANGED <<db, lock, agent, purgeVars>>
      /\ work' = [work EXCEPT !.runs = Finalize(s, "failed", 0, 0)]
      /\ call' = [call EXCEPT ![s] = @ + 1] /\ at' = [at EXCEPT ![s] = "calls"]
  BY DEF ToolFails, Goto
<1>2. work \in Table /\ IsFiniteSet(work.evidence) /\ Cardinality(work.evidence) <= MaxEvidence
  BY DEF RecordInv, Sound
<1> DEFINE none == {}
<1>3. work' = [work EXCEPT !.evidence = @ \union none, !.runs = Finalize(s, "failed", 0, 0)]
  BY <1>1, <1>2 DEF Table
<1>4. Cardinality(work.evidence) \in Nat BY <1>2, FS_CardinalityType
<1>5. /\ none \in SUBSET Row /\ IsFiniteSet(none) /\ Cardinality(none) = 0 /\ none = {}
      /\ Cardinality(work.evidence) + Cardinality(none) <= MaxEvidence
  BY <1>2, <1>4, FS_EmptySet
<1> HIDE DEF none
<1>6. /\ Sound(work)' /\ work'.row = work.row /\ work.evidence \subseteq work'.evidence
      /\ work'.findings = work.findings /\ work'.runs = Finalize(s, "failed", 0, 0)
  <2> DEFINE lost == 0  n == Cardinality(none)
  <2>1. work' = [work EXCEPT !.evidence = @ \union none,
                            !.runs = Finalize(s, "failed", n, lost)]
    BY <1>3, <1>5
  <2>2. n \in Nat /\ lost \in Nat /\ n = 0 BY <1>5
  <2> HIDE DEF lost, n
  <2>3. /\ \A d \in none : d.run = RunId(s)
        /\ \A d, e \in none : d.obs = e.obs => d = e
        /\ \A d \in none : d.obs \notin Obs(work.evidence)
    BY <1>5
  <2>4. Finalizing(s, "failed", none, n, lost)
    BY <1>1, <1>5, <2>1, <2>2, <2>3 DEF Finalizing, n
  <2>5. Finalized(s, "failed", n, lost) BY <2>4, FinalizedIsSound
  <2> QED BY <2>2, <2>5 DEF Finalized, lost
<1>7. Locking' BY <1>1, <1>6, FinalizedKeepsLocking
<1>8. Shapes'
  <2>1. agent[s] \in Agents BY <1>1 DEF RecordInv, Shapes
  <2> QED BY <1>1, <2>1 DEF ToolFails, RecordInv, Shapes, Places, purgeVars
<1> QED BY <1>1, <1>6, <1>7, <1>8 DEF RecordInv, Sound

LEMMA RecordStore ==
  ASSUME RecordInv, NEW s \in Sessions, Store(s)
  PROVE  RecordInv'
<1> DEFINE drafts == Output[Current(s)]
           fresh  == Unseen(s)
<1>1. PICK kept \in Retained(drafts, fresh, Headroom(work.evidence)) :
       LET rows == {[obs |-> o, run |-> RunId(s)] : o \in kept}
           lost == IF drafts = <<>> THEN dropped[s] ELSE Shortfall(drafts, fresh, kept)
       IN /\ work' = [work EXCEPT !.evidence = @ \union rows,
                                  !.runs = Finalize(s, "succeeded", Cardinality(rows), lost)]
          /\ made' = [made EXCEPT ![s] = @ \union rows]
          /\ dropped' = [dropped EXCEPT ![s] = lost]
  BY DEF Store
<1> DEFINE rows == {[obs |-> o, run |-> RunId(s)] : o \in kept}
           lost == IF drafts = <<>> THEN dropped[s] ELSE Shortfall(drafts, fresh, kept)
<1>2. /\ at[s] = "tool" /\ UNCHANGED <<db, lock, agent, draft, purgeVars>>
      /\ call' = [call EXCEPT ![s] = @ + 1] /\ at' = [at EXCEPT ![s] = "calls"]
  BY DEF Store, Goto
<1>3. Current(s) \in Calls BY <1>2, RunUnderWay
<1>4. drafts \in Seq(Observations) BY <1>3, RecordAssumption
<1>5. IsFiniteSet(work.evidence) /\ Cardinality(work.evidence) <= MaxEvidence
  BY DEF RecordInv, Sound
<1>6. fresh = Range(drafts) \ Obs(work.evidence) BY DEF Unseen
<1>7. IsFiniteSet(fresh) /\ fresh \subseteq Observations
  <2>1. IsFiniteSet(Range(drafts)) BY <1>4, RangeIsFinite
  <2>2. Range(drafts) \subseteq Observations BY <1>4 DEF Range
  <2> QED BY <1>6, <2>1, <2>2, FS_Subset
<1>8. /\ kept \subseteq fresh /\ IsFiniteSet(kept)
      /\ Cardinality(kept) + Cardinality(work.evidence) <= MaxEvidence
  BY <1>1, <1>5, <1>7, RetainedFits
<1>9. Shortfall(drafts, fresh, kept) \in Nat
      /\ (~(Shortfall(drafts, fresh, kept) > 0) => Range(drafts) \intersect fresh \subseteq kept)
  BY <1>4, ShortfallCounts
<1> HIDE DEF fresh
<1>10. IsFiniteSet(rows) /\ Cardinality(rows) <= Cardinality(kept) BY <1>8, RowsOfObs
<1>11. RunId(s) \in Sessions \X Nat BY DEF RunId, RecordInv, Shapes
<1>12. rows \in SUBSET Row BY <1>7, <1>8, <1>11 DEF Row
<1>13. /\ \A d \in rows : d.run = RunId(s)
       /\ \A d, e \in rows : d.obs = e.obs => d = e
       /\ \A d \in rows : d.obs \notin Obs(work.evidence)
  BY <1>6, <1>8
<1>14. Obs(work.evidence \union rows) = Obs(work.evidence) \union kept
  <2>1. Obs(rows) = kept
    <3>1. \A o \in kept : [obs |-> o, run |-> RunId(s)] \in rows OBVIOUS
    <3>2. \A d \in rows : d.obs \in kept OBVIOUS
    <3> HIDE DEF rows
    <3>3. ASSUME NEW o \in kept PROVE o \in Obs(rows)
      <4>1. [obs |-> o, run |-> RunId(s)].obs = o OBVIOUS
      <4> QED BY <3>1, <4>1 DEF Obs
    <3> QED BY <3>2, <3>3 DEF Obs
  <2> HIDE DEF rows
  <2> QED BY <2>1 DEF Obs
<1>15. lost \in Nat BY <1>9 DEF RecordInv, Shapes
<1>16. lost > 0 \/ Range(drafts) \subseteq Obs(work.evidence \union rows)
  <2>1. CASE drafts = <<>>
    <3>1. Range(drafts) = {} BY <2>1 DEF Range
    <3> QED BY <3>1
  <2>2. CASE drafts # <<>> /\ ~(Shortfall(drafts, fresh, kept) > 0)
    <3>1. Range(drafts) \intersect fresh \subseteq kept BY <1>9, <2>2
    <3> QED BY <1>6, <1>14, <3>1
  <2> QED BY <2>1, <2>2
<1>17. Cardinality(rows) \in Nat /\ Cardinality(kept) \in Nat /\ Cardinality(work.evidence) \in Nat
  BY <1>5, <1>8, <1>10, FS_CardinalityType
<1>18. Cardinality(work.evidence) + Cardinality(rows) <= MaxEvidence
  BY <1>8, <1>10, <1>17, RecordAssumption
<1>19. /\ work' = [work EXCEPT !.evidence = @ \union rows,
                              !.runs = Finalize(s, "succeeded", Cardinality(rows), lost)]
       /\ made' = [made EXCEPT ![s] = @ \union rows] /\ dropped' = [dropped EXCEPT ![s] = lost]
  BY <1>1
<1> HIDE DEF rows, lost
<1>20. /\ Sound(work)' /\ work'.row = work.row /\ work.evidence \subseteq work'.evidence
       /\ work'.findings = work.findings
       /\ work'.runs = Finalize(s, "succeeded", Cardinality(rows), lost)
  <2> DEFINE n == Cardinality(rows)
  <2>1. /\ n \in Nat /\ Cardinality(work.evidence) + n <= MaxEvidence
        /\ work' = [work EXCEPT !.evidence = @ \union rows,
                                !.runs = Finalize(s, "succeeded", n, lost)]
    BY <1>17, <1>18, <1>19
  <2>2. Finalizing(s, "succeeded", rows, n, lost)
    BY <1>2, <1>10, <1>12, <1>13, <1>15, <1>16, <2>1 DEF Finalizing
  <2> HIDE DEF n
  <2>3. Finalized(s, "succeeded", n, lost) BY <2>2, FinalizedIsSound
  <2> QED BY <2>3 DEF Finalized, n
<1>21. Locking' BY <1>2, <1>20, FinalizedKeepsLocking
<1>22. Shapes'
  <2>1. agent[s] \in Agents BY <1>2 DEF RecordInv, Shapes
  <2>2. made' \in [Sessions -> SUBSET Row] BY <1>12, <1>19 DEF RecordInv, Shapes
  <2>3. dropped' \in [Sessions -> Nat] BY <1>15, <1>19 DEF RecordInv, Shapes
  <2>4. call' \in [Sessions -> Nat \ {0}] /\ at' \in [Sessions -> Places]
    BY <1>2 DEF RecordInv, Shapes, Places
  <2>5. \A q \in Sessions : at'[q] \in {"calls", "tool"} => agent[q] \in Agents
    BY <1>2, <2>1 DEF RecordInv, Shapes
  <2>6. \A q \in Sessions : at'[q] = "record" => at[q] = "record" BY <1>2 DEF RecordInv, Shapes
  <2> QED BY <1>2, <2>2, <2>3, <2>4, <2>5, <2>6 DEF RecordInv, Shapes, purgeVars
<1> QED BY <1>2, <1>20, <1>21, <1>22 DEF RecordInv, Sound

----------------------------------------------------------------------------
(* Findings and commits.                                                   *)

LEMMA RecordRecord ==
  ASSUME RecordInv, NEW s \in Sessions, Record(s)
  PROVE  RecordInv'
<1> DEFINE F == [by |-> s, class |-> draft[s].class, cites |-> draft[s].cites]
           place == IF draft[s].class \in {"fact", "unknown"} THEN "more" ELSE "done"
<1>1. /\ at[s] = "record" /\ Free(s) /\ View(s) = work /\ work.row
      /\ draft[s].cites \subseteq work.evidence
      /\ lock' = s /\ db' = db /\ at' = [at EXCEPT ![s] = place]
      /\ work' = [work EXCEPT !.findings = @ \union {F}]
      /\ UNCHANGED <<agent, call, made, dropped, draft, purgeVars>>
  BY WriterSeesWork DEF Record, Goto
<1>2. F \in Finding /\ F.cites = draft[s].cites /\ (F.class \in Assertive => F.cites # {})
  BY <1>1 DEF Finding, RecordInv, Shapes
<1>3. place \in {"more", "done"} OBVIOUS
<1> HIDE DEF F, place
<1>4. work \in Table BY DEF RecordInv, Sound
<1>5. /\ work' \in Table /\ work'.row = work.row /\ work'.evidence = work.evidence
      /\ work'.runs = work.runs /\ work'.findings = work.findings \union {F}
  BY <1>1, <1>2, <1>4 DEF Table
<1>6. Sound(work)'
  <2>1. IsFiniteSet(work'.findings)
    <3>1. IsFiniteSet(work.findings) BY DEF RecordInv, Sound
    <3> QED BY <1>5, <3>1, FS_AddElement
  <2>2. \A f \in work'.findings :
          f.cites \subseteq work'.evidence /\ (f.class \in Assertive => f.cites # {})
    BY <1>1, <1>2, <1>5 DEF RecordInv, Sound
  <2> QED BY <1>5, <2>1, <2>2 DEF RecordInv, Sound
<1>7. Shapes' BY <1>1, <1>3 DEF RecordInv, Shapes, Places, purgeVars
<1>8. Locking'
  <2>1. at \in [Sessions -> Places] BY DEF RecordInv, Shapes
  <2>2. at'[s] \in {"more", "done"} /\ \A q \in Sessions : q # s => at'[q] = at[q]
    BY <1>1, <1>3, <2>1
  <2>3. lock = Nobody \/ lock = s BY <1>1 DEF Free
  <2>4. db.runs \subseteq RunRow /\ work.runs \subseteq RunRow /\ \A r \in RunRow : r.id[1] \in Sessions
    BY DEF RecordInv, Sound, Table, RunRow
  <2>5. \A p \in Purges : stage'[p] # "written" /\ p # s
    BY <1>1, <2>3, NobodyIsNobody DEF RecordInv, Locking, purgeVars
  <2>6. work.row /\ db.row /\ db.evidence \subseteq work.evidence /\ db.findings \subseteq work.findings
    BY <1>1, <2>3 DEF RecordInv, Locking
  <2>7. \A r \in db.runs : at'[r.id[1]] = "committed" /\ r.st # "running"
    BY <1>1, <2>2, <2>4 DEF RecordInv, Locking
  <2>8. \A r \in work.runs : r.id[1] # s => r \in db.runs
    BY <2>3 DEF RecordInv, Locking
  <2>9. \A r \in work.runs : r.id[1] = s => r.id[2] < call[s] /\ r.st # "running"
    BY <1>1, <2>3 DEF RecordInv, Locking
  <2>10. \A q \in Sessions : at'[q] # "tool"
    BY <2>2, <2>3, NobodyIsNobody DEF RecordInv, Locking
  <2>11. \A q \in Sessions : lock' = q => Open(q)' BY <1>1, <2>2 DEF Open
  <2>12. work'.row /\ db'.row /\ db'.evidence \subseteq work'.evidence
         /\ db'.findings \subseteq work'.findings
    BY <1>1, <1>5, <2>6
  <2> QED BY <1>1, <1>5, <2>5, <2>7, <2>8, <2>9, <2>10, <2>11, <2>12, NobodyIsNobody DEF Locking
<1> QED BY <1>1, <1>6, <1>7, <1>8 DEF RecordInv, Sound

LEMMA RecordCommit ==
  ASSUME RecordInv, NEW s \in Sessions, Commit(s)
  PROVE  RecordInv'
<1>1. /\ at[s] \in {"more", "done"} /\ at' = [at EXCEPT ![s] = "committed"]
      /\ UNCHANGED <<work, agent, call, made, dropped, draft, purgeVars>>
  BY DEF Commit, Goto
<1>2. Shapes' BY <1>1 DEF Commit, RecordInv, Shapes, Places, purgeVars
<1>3. at \in [Sessions -> Places] BY DEF RecordInv, Shapes
<1>4. at'[s] = "committed" /\ \A q \in Sessions : q # s => at'[q] = at[q] BY <1>1, <1>3
<1>5. db.runs \subseteq RunRow /\ work.runs \subseteq RunRow /\ \A r \in RunRow : r.id[1] \in Sessions
  BY DEF RecordInv, Sound, Table, RunRow
<1>6. \A q \in Sessions : at'[q] = "tool" => at[q] = "tool" /\ q # s BY <1>4
<1>7. CASE lock = s
  <2>1. db' = work /\ work' = work /\ lock' = Nobody BY <1>1, <1>7 DEF Commit, View
  <2>2. \A r \in work.runs : at'[r.id[1]] = "committed" /\ r.st # "running"
    BY <1>1, <1>4, <1>5, <1>7 DEF RecordInv, Locking
  <2>3. \A r \in work.runs : r.id[1] # Nobody BY <1>5, NobodyIsNobody
  <2>4. \A q \in Sessions : at'[q] # "tool" BY <1>6, <1>7 DEF RecordInv, Locking
  <2>5. \A p \in Purges : stage'[p] # "written"
    BY <1>1, <1>7, NobodyIsNobody DEF RecordInv, Locking, purgeVars
  <2>6. Locking' BY <2>1, <2>2, <2>3, <2>4, <2>5, NobodyIsNobody DEF Locking
  <2> QED BY <1>2, <2>1, <2>6 DEF RecordInv, Sound
<1>8. CASE lock # s
  <2>1. db' = db /\ work' = work /\ lock' = lock BY <1>1, <1>8 DEF Commit, View
  <2>2. \A r \in db.runs : at'[r.id[1]] = "committed" /\ r.st # "running"
    BY <1>1, <1>4, <1>5 DEF RecordInv, Locking
  <2>3. \A q \in Sessions : lock' = q => Open(q)' BY <1>4, <1>8, <2>1 DEF RecordInv, Locking, Open
  <2>4. \A q : ToolRun(q, "running", 0, 0)' = ToolRun(q, "running", 0, 0)
    BY <1>1 DEF ToolRun, RunId, Current
  <2>5. \A r \in work.runs : r.id[1] = lock =>
         \/ r.id[2] < call[lock] /\ r.st # "running"
         \/ at'[lock] = "tool" /\ r = ToolRun(lock, "running", 0, 0)
    BY <1>4, <1>5, <1>8 DEF RecordInv, Locking
  <2>6. Locking' BY <1>1, <1>6, <2>1, <2>2, <2>3, <2>4, <2>5 DEF RecordInv, Locking, purgeVars
  <2> QED BY <1>2, <2>1, <2>6 DEF RecordInv, Sound
<1> QED BY <1>7, <1>8

----------------------------------------------------------------------------
(* The purge.                                                              *)

\* The steps of a purge move no session.
LEMMA SameSessions ==
  ASSUME RecordInv, UNCHANGED sessionVars,
         lock' \in Sessions \union Purges \union {Nobody},
         stage' \in [Purges -> Stages], counts' \in [Purges -> Counts]
  PROVE  /\ Shapes'
         /\ \A q : ToolRun(q, "running", 0, 0)' = ToolRun(q, "running", 0, 0)
<1>1. Shapes' BY DEF sessionVars, RecordInv, Shapes
<1>2. \A q : ToolRun(q, "running", 0, 0)' = ToolRun(q, "running", 0, 0)
  BY DEF sessionVars, ToolRun, RunId, Current
<1> QED BY <1>1, <1>2

\* A handler that counts or declines takes no lock.
LEMMA RecordCounts ==
  ASSUME RecordInv, NEW p \in Purges, Count(p) \/ Decline(p)
  PROVE  RecordInv'
<1>1. /\ UNCHANGED <<db, work, lock>> /\ UNCHANGED sessionVars
      /\ stage[p] # "written" /\ stage'[p] # "written"
      /\ stage' \in [Purges -> Stages]
      /\ \A q \in Purges : q # p => stage'[q] = stage[q]
  BY DEF Count, Decline, RecordInv, Shapes, Stages
<1>2. counts' \in [Purges -> Counts]
  <2>1. CASE Count(p)
    <3>1. /\ Cardinality(db.evidence) \in Nat /\ Cardinality(db.findings) \in Nat
          /\ Cardinality(db.runs) \in Nat
      BY FS_CardinalityType DEF RecordInv, Sound
    <3> QED BY <2>1, <3>1 DEF Count, Counts, RecordInv, Shapes
  <2>2. CASE Decline(p) BY <2>2 DEF Decline, RecordInv, Shapes
  <2> QED BY <2>1, <2>2
<1>3. lock' \in Sessions \union Purges \union {Nobody} BY <1>1 DEF RecordInv, Shapes
<1>4. /\ Shapes'
      /\ \A q : ToolRun(q, "running", 0, 0)' = ToolRun(q, "running", 0, 0)
  BY <1>1, <1>2, <1>3, SameSessions
<1>5. \A q \in Purges : lock' = q <=> stage'[q] = "written" BY <1>1 DEF RecordInv, Locking
<1>6. Locking'
  <2>1. /\ at' = at /\ call' = call /\ agent' = agent
        /\ db' = db /\ work' = work /\ lock' = lock
    BY <1>1 DEF sessionVars
  <2>2. \A q \in Sessions : Open(q)' <=> Open(q) BY <2>1 DEF Open
  <2> QED BY <1>4, <1>5, <2>1, <2>2 DEF RecordInv, Locking, ToolsOf
<1> QED BY <1>1, <1>4, <1>6 DEF RecordInv, Sound

LEMMA RecordDestroy ==
  ASSUME RecordInv, NEW p \in Purges, Destroy(p)
  PROVE  RecordInv'
<1>1. /\ stage[p] = "counted" /\ Free(p) /\ lock' = p /\ db' = db /\ UNCHANGED sessionVars
      /\ work' = [Fresh EXCEPT !.row = FALSE,
                               !.audit = db.audit \union {[by |-> p, destroyed |-> counts[p]]}]
      /\ stage' = [stage EXCEPT ![p] = "written"] /\ counts' = counts
  BY DEF Destroy
<1>2. lock = Nobody BY <1>1 DEF Free, RecordInv, Locking
<1>3. db.audit \union {[by |-> p, destroyed |-> counts[p]]} \in SUBSET Audits
  BY DEF RecordInv, Sound, Table, Audits, Shapes
<1>4. /\ work' \in Table /\ ~work'.row /\ work'.evidence = {} /\ work'.findings = {}
      /\ work'.runs = {}
  BY <1>1, <1>3 DEF Fresh, Table
<1>5. Sound(work)' BY <1>4, FS_EmptySet, RecordAssumption DEF Sound
<1>6. stage' \in [Purges -> Stages] /\ counts' \in [Purges -> Counts]
      /\ stage'[p] = "written" /\ \A q \in Purges : q # p => stage'[q] = stage[q]
  BY <1>1 DEF RecordInv, Shapes, Stages
<1>7. Shapes' BY <1>1, <1>6, SameSessions
<1>8. Locking'
  <2>1. \A q \in Purges : lock' = q <=> stage'[q] = "written"
    BY <1>1, <1>2, <1>6, NobodyIsNobody DEF RecordInv, Locking
  <2>2. \A r \in db'.runs : at'[r.id[1]] = "committed" /\ r.st # "running"
    BY <1>1 DEF sessionVars, RecordInv, Locking
  <2>3. \A s \in Sessions : at'[s] # "tool" /\ lock' # s
    BY <1>1, <1>2, NobodyIsNobody DEF sessionVars, RecordInv, Locking
  <2> QED BY <1>1, <1>4, <2>1, <2>2, <2>3, NobodyIsNobody DEF Locking
<1> QED BY <1>1, <1>5, <1>7, <1>8 DEF RecordInv, Sound

LEMMA RecordPurged ==
  ASSUME RecordInv, NEW p \in Purges, Purged(p)
  PROVE  RecordInv'
<1>1. /\ stage[p] = "written" /\ lock = p /\ lock' = Nobody /\ db' = work /\ work' = work
      /\ UNCHANGED sessionVars /\ stage' = [stage EXCEPT ![p] = "done"] /\ counts' = counts
  BY DEF Purged, RecordInv, Locking
<1>2. work.runs = {} BY <1>1 DEF RecordInv, Locking
<1>3. stage' \in [Purges -> Stages] /\ counts' \in [Purges -> Counts]
      /\ stage'[p] # "written" /\ \A q \in Purges : q # p => stage'[q] = stage[q]
  BY <1>1 DEF RecordInv, Shapes, Stages
<1>4. Shapes' BY <1>1, <1>3, SameSessions
<1>5. Locking'
  <2>1. \A q \in Purges : stage'[q] # "written" BY <1>1, <1>3 DEF RecordInv, Locking
  <2>2. \A s \in Sessions : at'[s] # "tool"
    BY <1>1, NobodyIsNobody DEF sessionVars, RecordInv, Locking
  <2> QED BY <1>1, <1>2, <2>1, <2>2, NobodyIsNobody DEF Locking
<1> QED BY <1>1, <1>4, <1>5 DEF RecordInv, Sound

LEMMA RecordPurgeFails ==
  ASSUME RecordInv, NEW p \in Purges, PurgeFails(p)
  PROVE  RecordInv'
<1>1. /\ db' = db /\ UNCHANGED sessionVars /\ counts' = counts
      /\ stage' = [stage EXCEPT ![p] = "failed"]
  BY DEF PurgeFails
<1>2. stage' \in [Purges -> Stages] /\ counts' \in [Purges -> Counts]
      /\ stage'[p] # "written" /\ \A q \in Purges : q # p => stage'[q] = stage[q]
  BY <1>1 DEF RecordInv, Shapes, Stages
<1>3. CASE lock = p
  <2>1. lock' = Nobody /\ work' = db BY <1>3 DEF PurgeFails
  <2>2. Shapes' BY <1>1, <1>2, <2>1, SameSessions
  <2>3. \A q \in Purges : stage'[q] # "written" BY <1>2, <1>3 DEF RecordInv, Locking
  <2>4. \A s \in Sessions : at'[s] # "tool"
    BY <1>1, <1>3, NobodyIsNobody DEF sessionVars, RecordInv, Locking
  <2>5. \A r \in db.runs : r.id[1] # Nobody
    BY NobodyIsNobody DEF RecordInv, Sound, Table, RunRow
  <2>6. \A r \in db'.runs : at'[r.id[1]] = "committed" /\ r.st # "running"
    BY <1>1 DEF sessionVars, RecordInv, Locking
  <2>7. Locking' BY <1>1, <2>1, <2>3, <2>4, <2>5, <2>6, NobodyIsNobody DEF Locking
  <2> QED BY <1>1, <2>1, <2>2, <2>7 DEF RecordInv, Sound
<1>4. CASE lock # p
  <2>1. lock' = lock /\ work' = work BY <1>4 DEF PurgeFails
  <2>2. lock' \in Sessions \union Purges \union {Nobody} BY <2>1 DEF RecordInv, Shapes
  <2>3. /\ Shapes'
        /\ \A q : ToolRun(q, "running", 0, 0)' = ToolRun(q, "running", 0, 0)
    BY <1>1, <1>2, <2>2, SameSessions
  <2>4. \A q \in Purges : lock' = q <=> stage'[q] = "written"
    BY <1>2, <1>4, <2>1 DEF RecordInv, Locking
  <2>5. Locking'
    <3>1. at' = at /\ call' = call /\ agent' = agent BY <1>1 DEF sessionVars
    <3>2. \A q \in Sessions : Open(q)' <=> Open(q) BY <3>1 DEF Open
    <3> QED BY <1>1, <2>1, <2>3, <2>4, <3>1, <3>2 DEF RecordInv, Locking, ToolsOf
  <2> QED BY <1>1, <2>1, <2>3, <2>5 DEF RecordInv, Sound
<1> QED BY <1>3, <1>4

LEMMA RecordStep == RecordInv /\ [Next]_vars => RecordInv'
<1> SUFFICES ASSUME RecordInv, [Next]_vars PROVE RecordInv'
  OBVIOUS
<1>1. CASE UNCHANGED vars
  <2>1. \A q : ToolRun(q, "running", 0, 0)' = ToolRun(q, "running", 0, 0)
    BY <1>1 DEF vars, sessionVars, ToolRun, RunId, Current
  <2>2. Shapes' BY <1>1 DEF vars, sessionVars, purgeVars, RecordInv, Shapes
  <2>3. Locking'
    BY <1>1, <2>1 DEF vars, sessionVars, purgeVars, RecordInv, Locking, Open, ToolsOf
  <2> QED BY <1>1, <2>2, <2>3 DEF vars, RecordInv, Sound
<1>2. ASSUME NEW s \in Sessions, Step(s) \/ Fail(s) PROVE RecordInv'
  BY <1>2, RecordEnter, RecordNotRun, RecordInvoke, RecordToolFails, RecordStore, RecordClaims,
     RecordRecord, RecordCommit, RecordEnds DEF Step
<1>3. ASSUME NEW p \in Purges, Handle(p) \/ PurgeFails(p) PROVE RecordInv'
  BY <1>3, RecordCounts, RecordDestroy, RecordPurged, RecordPurgeFails DEF Handle
<1> QED BY <1>1, <1>2, <1>3 DEF Next

LEMMA RecordInvariant == Spec => []RecordInv
BY RecordInit, RecordStep, PTL DEF Spec

----------------------------------------------------------------------------
(* What the committed record keeps.                                        *)

\* Every reachable state of the record, its sessions and its purges is type
\* correct, and only the holder of the lock sees more than what is committed.
THEOREM RecordTypes == Spec => []TypeOK
BY RecordInvariant, RecordIsTyped, PTL

\* However many sessions see the same thing, it is recorded once.
THEOREM EvidenceIsUnique == Spec => []NoDuplicates
<1>1. RecordInv => NoDuplicates BY DEF RecordInv, Sound, NoDuplicates
<1> QED BY <1>1, RecordInvariant, PTL

\* Whatever a quota, a retry or another session does, what a tool saw is in the
\* record or its run tells that something is missing.
THEOREM ShortfallIsTold == Spec => []LossIsDisclosed
<1>1. RecordInv => LossIsDisclosed BY DEF RecordInv, Sound, LossIsDisclosed
<1> QED BY <1>1, RecordInvariant, PTL

\* Every committed row names the run that found it, and every run tells how
\* many it found.
THEOREM ProvenanceHolds == Spec => []RunsAccountForEvidence
<1>1. RecordInv => RunsAccountForEvidence
  BY DEF RecordInv, Sound, Locking, RunsAccountForEvidence
<1> QED BY <1>1, RecordInvariant, PTL

LEMMA LedgerInit == Init => Ledger!Init
BY DEF Init, Fresh, Ledger!Init, Obs

\* Obs of the rows a claim cites keeps whether it cites any, and which.
LEMMA ClaimsAreGrounded ==
  ASSUME NEW t, Sound(t), NEW f \in t.findings
  PROVE  Ledger!Grounded([class |-> f.class, cites |-> Obs(f.cites)], Obs(t.evidence))
<1>1. f.cites \subseteq t.evidence /\ (f.class \in Assertive => f.cites # {}) BY DEF Sound
<1>2. Obs(f.cites) \subseteq Obs(t.evidence) BY <1>1 DEF Obs
<1>3. f.cites # {} => Obs(f.cites) # {} BY DEF Obs
<1> QED BY <1>1, <1>2, <1>3 DEF Ledger!Grounded, Ledger!Assertive, Assertive

LEMMA LedgerStep ==
  ASSUME RecordInv, [Next]_vars
  PROVE  [Ledger!Next]_<<Obs(db.evidence),
                         {[class |-> f.class, cites |-> Obs(f.cites)] : f \in db.findings},
                         ~db.row>>
<1> DEFINE Claimed(t) == {[class |-> f.class, cites |-> Obs(f.cites)] : f \in t.findings}
<1>1. CASE db' = db
  <2>1. Obs(db.evidence)' = Obs(db.evidence) BY <1>1 DEF Obs
  <2>2. {[class |-> f.class, cites |-> Obs(f.cites)] : f \in db.findings}'
          = {[class |-> f.class, cites |-> Obs(f.cites)] : f \in db.findings}
    BY <1>1 DEF Obs
  <2> QED BY <1>1, <2>1, <2>2
<1>2. CASE \E s \in Sessions : Commit(s) /\ lock = s
  <2>1. PICK s \in Sessions : Commit(s) /\ lock = s BY <1>2
  <2>2. /\ db' = work /\ db.row /\ work.row
        /\ db.evidence \subseteq work.evidence /\ db.findings \subseteq work.findings
    BY <2>1 DEF Commit, View, RecordInv, Locking
  <2>3. Sound(work) BY DEF RecordInv
  <2>4. Obs(db.evidence) \subseteq Obs(work.evidence) BY <2>2 DEF Obs
  <2>5. Cardinality(Obs(work.evidence)) <= MaxEvidence
    <3>1. IsFiniteSet(work.evidence) /\ Cardinality(work.evidence) <= MaxEvidence
      BY <2>3 DEF Sound
    <3>2. /\ IsFiniteSet(Obs(work.evidence))
          /\ Cardinality(Obs(work.evidence)) <= Cardinality(work.evidence)
      BY <3>1, ObsAreNoMore
    <3>3. Cardinality(Obs(work.evidence)) \in Nat /\ Cardinality(work.evidence) \in Nat
      BY <3>1, <3>2, FS_CardinalityType
    <3> QED BY <3>1, <3>2, <3>3, RecordAssumption
  <2>6. Claimed(db) \subseteq Claimed(work) BY <2>2
  <2>7. \A c \in Claimed(work) : Ledger!Grounded(c, Obs(work.evidence))
    BY <2>3, ClaimsAreGrounded
  <2>8. Obs(db.evidence)' = Obs(work.evidence) BY <2>2 DEF Obs
  <2>9. {[class |-> f.class, cites |-> Obs(f.cites)] : f \in db.findings}' = Claimed(work)
    BY <2>2 DEF Obs
  <2>10. (~db.row)' = ~db.row /\ db.row BY <2>2
  <2>11. /\ Obs(db.evidence) \subseteq Obs(db.evidence)' /\ Cardinality(Obs(db.evidence)') <= MaxEvidence
         /\ Claimed(db) \subseteq {[class |-> f.class, cites |-> Obs(f.cites)] : f \in db.findings}'
    BY <2>4, <2>5, <2>6, <2>8, <2>9
  <2>12. \A c \in {[class |-> f.class, cites |-> Obs(f.cites)] : f \in db.findings}' :
           Ledger!Grounded(c, Obs(db.evidence)')
    BY <2>7, <2>8, <2>9
  <2>13. Ledger!Cardinality(Obs(db.evidence)') = Cardinality(Obs(db.evidence)')
    BY DEF Ledger!Cardinality, Cardinality, Ledger!IsFiniteSet, IsFiniteSet
  <2>14. Ledger!Extend BY <2>10, <2>11, <2>12, <2>13 DEF Ledger!Extend
  <2> QED BY <2>14 DEF Ledger!Next
<1>3. CASE \E p \in Purges : Purged(p)
  <2>1. PICK p \in Purges : Purged(p) BY <1>3
  <2>2. db' = work /\ ~work.row /\ work.evidence = {} /\ work.findings = {}
    BY <2>1 DEF Purged, RecordInv, Locking
  <2>3. Ledger!Destroy BY <2>2 DEF Ledger!Destroy, Obs
  <2> QED BY <2>3 DEF Ledger!Next
<1>4. db' = db \/ (\E s \in Sessions : Commit(s) /\ lock = s) \/ (\E p \in Purges : Purged(p))
  <2>1. ASSUME NEW s \in Sessions, Commit(s), lock # s PROVE db' = db
    BY <2>1 DEF Commit, View
  <2>2. ASSUME NEW s \in Sessions, Step(s) \/ Fail(s) PROVE db' = db \/ Commit(s)
    BY <2>2 DEF Step, Enter, NotRun, Invoke, ToolFails, Store, StateFact, StateNothing, Propose,
                Refused, Infer, Record, Rejected, Fail, RollBack
  <2>3. ASSUME NEW p \in Purges, Handle(p) \/ PurgeFails(p) PROVE db' = db \/ Purged(p)
    BY <2>3 DEF Handle, Count, Decline, Destroy, PurgeFails
  <2>4. UNCHANGED vars => db' = db BY DEF vars
  <2> QED BY <2>1, <2>2, <2>3, <2>4 DEF Next
<1> QED BY <1>1, <1>2, <1>3, <1>4

\* Through every interleaving of sessions, failures and purges the committed
\* record is a ledger: it grows by grounded claims within the quota, or goes
\* as a whole.
THEOREM RecordKeepsLedger == Spec => IsALedger
<1>1. RecordInv /\ [Next]_vars =>
        [Ledger!Next]_<<Obs(db.evidence),
                        {[class |-> f.class, cites |-> Obs(f.cites)] : f \in db.findings},
                        ~db.row>>
  BY LedgerStep
<1> QED BY <1>1, LedgerInit, RecordInvariant, PTL DEF Spec, IsALedger, Ledger!Spec
=============================================================================
