-------------------------- MODULE LifecycleProofs --------------------------
(***************************************************************************)
(* Machine-checked proofs about Lifecycle, for every set of investigations *)
(* and requests, every number of permits and restarts, patient clients or  *)
(* not, with or without lost writes.                                       *)
(***************************************************************************)
EXTENDS Lifecycle, FiniteSetTheorems, TLAPS

(***************************************************************************)
(* Types.  A handler past its arrival names an investigation, and a task   *)
(* exists only for a request that was answered.                            *)
(***************************************************************************)
Linked ==
  \A r \in Requests :
    /\ at[r] # "idle" => on[r] \in Investigations
    /\ phase[r] # "none" => at[r] = "ok"
    /\ at[r] \in {"waiting", "marking", "overwriting"} => op[r] = "cancel"

TypeInv == TypeOK /\ Linked

LEMMA TypeInit == Init => TypeInv
BY ConstantsAssumption DEF Init, TypeInv, TypeOK, Linked, Live, Inside

LEMMA TypeHandlers ==
  ASSUME TypeInv, NEW r \in Requests, Handler(r)
  PROVE  TypeInv'
<1> USE DEF TypeInv, TypeOK, Linked, Answer, Write, rowVars, taskVars, reqVars, serverVars
<1>1. CASE StartClaim(r)  BY <1>1 DEF StartClaim
<1>2. CASE StartConflict(r)  BY <1>2 DEF StartConflict
<1>3. CASE RetryClaim(r)  BY <1>3 DEF RetryClaim
<1>4. CASE RetryConflict(r)  BY <1>4 DEF RetryConflict
<1>5. CASE Submit(r)  BY <1>5 DEF Submit, Live
<1>6. CASE CancelConflict(r)  BY <1>6 DEF CancelConflict
<1>7. CASE CancelTask(r)  BY <1>7 DEF CancelTask, TasksOf, LiveTasks
<1>8. CASE CancelMissed(r)  BY <1>8 DEF CancelMissed
<1>9. CASE CancelOverwrite(r)  BY <1>9 DEF CancelOverwrite, Terminal
<1>10. CASE CancelJoined(r)  BY <1>10 DEF CancelJoined
<1>11. CASE CancelMark(r)  BY <1>11 DEF CancelMark, MarkRow, Terminal
<1>12. CASE Delete(r)  BY <1>12 DEF Delete
<1>13. QED  BY <1>1, <1>2, <1>3, <1>4, <1>5, <1>6, <1>7, <1>8, <1>9, <1>10, <1>11, <1>12 DEF Handler

LEMMA TypeTasks ==
  ASSUME TypeInv, NEW t \in Requests, Task(t)
  PROVE  TypeInv'
<1> USE DEF TypeInv, TypeOK, Linked, Write, Move, Leave, Live, Inside, rowVars, taskVars, reqVars, serverVars
<1>1. CASE Acquire(t)  BY <1>1 DEF Acquire
<1>2. CASE CancelQueued(t)  BY <1>2 DEF CancelQueued
<1>3. CASE Begin(t)  BY <1>3 DEF Begin
<1>4. CASE Finish(t)  BY <1>4 DEF Finish
<1>5. CASE Crash(t)  BY <1>5 DEF Crash
<1>6. CASE Return(t)  BY <1>6 DEF Return
<1>7. CASE Interrupt(t)  BY <1>7 DEF Interrupt, Landed
<1>8. CASE InterruptMark(t)  BY <1>8 DEF InterruptMark, Terminal
<1>9. CASE Mark(t)  BY <1>9 DEF Mark, MarkRow, Terminal
<1>10. QED  BY <1>1, <1>2, <1>3, <1>4, <1>5, <1>6, <1>7, <1>8, <1>9 DEF Task

LEMMA TypeProcess ==
  ASSUME TypeInv, Process
  PROVE  TypeInv'
<1> USE DEF TypeInv, TypeOK, Linked, Live, Inside, rowVars, taskVars, reqVars, serverVars
<1>1. CASE ShutdownBegin  BY <1>1 DEF ShutdownBegin
<1>2. CASE ShutdownCancel  BY <1>2 DEF ShutdownCancel, LiveTasks
<1>3. CASE ProcessGone  BY <1>3, ConstantsAssumption DEF ProcessGone, InFlight
<1>4. CASE Restart  BY <1>4 DEF Restart, Terminal
<1>5. QED  BY <1>1, <1>2, <1>3, <1>4 DEF Process, ShutdownEnd, Kill

LEMMA TypeStep == TypeInv /\ [Next]_vars => TypeInv'
<1> SUFFICES ASSUME TypeInv, [Next]_vars  PROVE TypeInv'
  OBVIOUS
<1>1. CASE \E i \in Investigations : Create(i)
  BY <1>1 DEF TypeInv, TypeOK, Linked, Create, Write, rowVars, taskVars, reqVars, serverVars
<1>2. CASE \E r \in Requests, o \in Ops, i \in Investigations : Arrive(r, o, i)
  BY <1>2 DEF TypeInv, TypeOK, Linked, Arrive, Present, Answer, rowVars, taskVars, reqVars, serverVars
<1>3. CASE UNCHANGED vars
  BY <1>3 DEF TypeInv, TypeOK, Linked, vars, rowVars, taskVars, reqVars, serverVars
<1>4. QED  BY <1>1, <1>2, <1>3, TypeHandlers, TypeTasks, TypeProcess DEF Next

(* Every variable keeps its type (status values of the enumeration, phases *)
(* of _guarded, ...) whatever the handlers, tasks and restarts do.         *)
THEOREM TypeCorrect == Spec => []TypeOK
<1>1. Spec => []TypeInv
  BY TypeInit, TypeStep, PTL DEF Spec
<1>2. QED  BY <1>1, PTL DEF TypeInv

----------------------------------------------------------------------------
(***************************************************************************)
(* The permits of the semaphore.                                           *)
(***************************************************************************)
LEMMA HoldersFinite == IsFiniteSet(Holders) /\ Cardinality(Holders) \in Nat
BY ConstantsAssumption, FS_Subset, FS_CardinalityType DEF Holders

\* A task enters or leaves the set of holders with the permit it takes or
\* gives back; every other step leaves the set and the counter alone.
LEMMA HoldersTakeAndGive ==
  ASSUME NEW t \in Requests
  PROVE  /\ t \notin Holders => Cardinality(Holders \union {t}) = Cardinality(Holders) + 1
         /\ t \in Holders => Cardinality(Holders \ {t}) = Cardinality(Holders) - 1
BY HoldersFinite, FS_AddElement, FS_RemoveElement

LEMMA PermitsTasks ==
  ASSUME TypeInv, PermitsConserved, NEW t \in Requests, Task(t)
  PROVE  PermitsConserved'
<1> USE DEF TypeInv, TypeOK, Inside, Live, Move, Leave
<1>1. CASE Acquire(t)
  <2>1. t \notin Holders /\ Holders' = Holders \union {t} /\ permits' = permits - 1
    BY <1>1 DEF Acquire, Holders
  <2>2. QED  BY <2>1, HoldersTakeAndGive, HoldersFinite DEF PermitsConserved
<1>2. CASE Return(t) \/ InterruptMark(t) \/ Mark(t)
  <2>1. t \in Holders /\ Holders' = Holders \ {t} /\ permits' = permits + 1
    BY <1>2 DEF Return, InterruptMark, Mark, Holders
  <2>2. QED  BY <2>1, HoldersTakeAndGive, HoldersFinite DEF PermitsConserved
<1>3. CASE CancelQueued(t) \/ Begin(t) \/ Finish(t) \/ Crash(t) \/ Interrupt(t)
  <2>1. Holders' = Holders /\ permits' = permits
    BY <1>3 DEF CancelQueued, Begin, Finish, Crash, Interrupt, Holders
  <2>2. QED  BY <2>1 DEF PermitsConserved
<1>4. QED  BY <1>1, <1>2, <1>3 DEF Task

LEMMA PermitsStep == TypeInv /\ PermitsConserved /\ [Next]_vars => PermitsConserved'
<1> SUFFICES ASSUME TypeInv, PermitsConserved, [Next]_vars  PROVE PermitsConserved'
  OBVIOUS
<1>1. CASE \E r \in Requests : Submit(r)
  <2>1. Holders' = Holders /\ permits' = permits
    BY <1>1 DEF Submit, Holders, Inside, TypeInv, TypeOK, Linked
  <2>2. QED  BY <2>1 DEF PermitsConserved
<1>2. CASE ProcessGone
  <2>1. Holders' = {} /\ permits' = MaxConcurrent
    BY <1>2 DEF ProcessGone, Holders, Live, Inside
  <2>2. QED  BY <2>1, FS_EmptySet, ConstantsAssumption DEF PermitsConserved
<1>3. CASE UNCHANGED <<phase, permits>>
  BY <1>3 DEF PermitsConserved, Holders
<1>4. ASSUME NEW r \in Requests, Handler(r)  PROVE Submit(r) \/ UNCHANGED <<phase, permits>>
  BY <1>4 DEF Handler, StartClaim, StartConflict, RetryClaim, RetryConflict, CancelConflict, CancelTask,
     CancelMissed, CancelOverwrite, CancelJoined, CancelMark, Delete, taskVars
<1>5. ASSUME Process  PROVE ProcessGone \/ UNCHANGED <<phase, permits>>
  BY <1>5 DEF Process, ShutdownBegin, ShutdownCancel, ShutdownEnd, Kill, Restart, taskVars
<1>6. CASE \E i \in Investigations : Create(i)
  BY <1>6, <1>3 DEF Create, taskVars
<1>7. CASE \E r \in Requests, o \in Ops, i \in Investigations : Arrive(r, o, i)
  BY <1>7, <1>3 DEF Arrive, taskVars
<1>8. CASE UNCHANGED vars
  BY <1>8, <1>3 DEF vars, taskVars
<1>9. QED  BY <1>1, <1>2, <1>3, <1>4, <1>5, <1>6, <1>7, <1>8, PermitsTasks DEF Next

(* The semaphore never loses and never gains a permit: at every moment the *)
(* free permits and the executions inside `_guarded` add up to the         *)
(* configured maximum, whatever is cancelled and whenever.                 *)
THEOREM PermitsAreConserved == Spec => []PermitsConserved
<1>1. Init => PermitsConserved
  <2>1. Init => Holders = {}
    BY DEF Init, Holders, Inside
  <2>2. QED  BY <2>1, FS_EmptySet, ConstantsAssumption DEF Init, PermitsConserved
<1>2. TypeInv /\ PermitsConserved /\ [Next]_vars => PermitsConserved'
  BY PermitsStep
<1>3. QED  BY <1>1, <1>2, TypeInit, TypeStep, PTL DEF Spec

----------------------------------------------------------------------------
(***************************************************************************)
(* One starter.  Whoever has claimed, or has a task, has moved the row     *)
(* off CREATED, and nothing moves a row back to CREATED.                   *)
(***************************************************************************)
Claimed(r) == at[r] = "claimed" \/ phase[r] # "none"

ClaimInv ==
  \A r \in Requests :
    /\ Claimed(r) => status[on[r]] \notin {"absent", "created"}
    /\ at[r] # "idle" => status[on[r]] # "absent"
    /\ op[r] = "start" /\ at[r] = "ok" => phase[r] # "none"

StarterInv == ClaimInv /\ OneStarter

\* No step but Create makes a row say "created", none makes it say "absent".
NoNewBeginning(i) ==
  /\ status[i] # "absent" => status'[i] # "absent"
  /\ status[i] \notin {"absent", "created"} => status'[i] # "created"

LEMMA CreatedOnlyOnce ==
  ASSUME TypeInv, [Next]_vars, NEW i \in Investigations
  PROVE  NoNewBeginning(i)
<1>1. ASSUME NEW r \in Requests, Handler(r)  PROVE NoNewBeginning(i)
  BY <1>1 DEF Handler, StartClaim, StartConflict, RetryClaim, RetryConflict, Submit, CancelConflict,
     CancelTask, CancelMissed, CancelOverwrite, CancelJoined, CancelMark, MarkRow, Delete, Write, rowVars,
     TypeInv, TypeOK, NoNewBeginning
<1>2. ASSUME NEW t \in Requests, Task(t)  PROVE NoNewBeginning(i)
  BY <1>2 DEF Task, Acquire, CancelQueued, Begin, Finish, Crash, Return, Interrupt, Landed, InterruptMark,
     Mark, MarkRow, Terminal, Write, rowVars, TypeInv, TypeOK, NoNewBeginning
<1>3. ASSUME Process  PROVE NoNewBeginning(i)
  BY <1>3 DEF Process, ShutdownBegin, ShutdownCancel, ShutdownEnd, Kill, ProcessGone, Restart, rowVars,
     TypeInv, TypeOK, NoNewBeginning
<1>4. CASE \E j \in Investigations : Create(j)
  BY <1>4 DEF Create, Write, TypeInv, TypeOK, NoNewBeginning
<1>5. CASE \E r \in Requests, o \in Ops, j \in Investigations : Arrive(r, o, j)
  BY <1>5 DEF Arrive, rowVars, NoNewBeginning
<1>6. CASE UNCHANGED vars
  BY <1>6 DEF vars, rowVars, NoNewBeginning
<1>7. QED  BY <1>1, <1>2, <1>3, <1>4, <1>5, <1>6 DEF Next

\* What most steps leave alone: who asked what, which requests were claimed,
\* which start requests were accepted, and who has a task.
Settled(q) ==
  /\ at'[q] = "idle" <=> at[q] = "idle"
  /\ op'[q] = op[q] /\ on'[q] = on[q]
  /\ phase'[q] = "none" <=> phase[q] = "none"
  /\ at'[q] = "claimed" => at[q] = "claimed"
  /\ at'[q] = "ok" /\ op[q] = "start" => at[q] = "ok"

LEMMA HandlersSettle ==
  ASSUME TypeInv, NEW r \in Requests, Handler(r), NEW q \in Requests
  PROVE  StartClaim(r) \/ RetryClaim(r) \/ Submit(r) \/ Settled(q)
<1> USE DEF TypeInv, TypeOK, Linked, Settled, Answer, taskVars
<1>1. CASE StartConflict(r) \/ RetryConflict(r) \/ CancelConflict(r) \/ CancelMissed(r)
  BY <1>1 DEF StartConflict, RetryConflict, CancelConflict, CancelMissed
<1>2. CASE CancelTask(r)  BY <1>2 DEF CancelTask
<1>3. CASE CancelOverwrite(r)  BY <1>3 DEF CancelOverwrite
<1>4. CASE CancelJoined(r)  BY <1>4 DEF CancelJoined
<1>5. CASE CancelMark(r)  BY <1>5 DEF CancelMark
<1>6. CASE Delete(r)  BY <1>6 DEF Delete
<1>7. QED  BY <1>1, <1>2, <1>3, <1>4, <1>5, <1>6 DEF Handler

LEMMA TasksSettle ==
  ASSUME TypeInv, NEW t \in Requests, Task(t), NEW q \in Requests
  PROVE  Settled(q)
BY DEF Task, Acquire, CancelQueued, Begin, Finish, Crash, Return, Interrupt, InterruptMark, Mark, Move, Leave,
   reqVars, TypeInv, TypeOK, Settled

LEMMA ProcessSettles ==
  ASSUME TypeInv, Process, NEW q \in Requests
  PROVE  Settled(q)
BY DEF Process, ShutdownBegin, ShutdownCancel, ShutdownEnd, Kill, ProcessGone, Restart, InFlight, Live, Inside,
   reqVars, taskVars, TypeInv, TypeOK, Settled

LEMMA StarterStep == TypeInv /\ StarterInv /\ [Next]_vars => StarterInv'
<1> SUFFICES ASSUME TypeInv, StarterInv, [Next]_vars  PROVE StarterInv'
  OBVIOUS
<1>0. \A i \in Investigations : NoNewBeginning(i)
  BY CreatedOnlyOnce
<1>1. ASSUME NEW r \in Requests, StartClaim(r) \/ RetryClaim(r)  PROVE StarterInv'
  <2>1. /\ phase' = phase /\ op' = op /\ on' = on
        /\ at' = [at EXCEPT ![r] = "claimed"] /\ at[r] = "loaded"
        /\ on[r] \in Investigations /\ status' = [status EXCEPT ![on[r]] = "running"]
    BY <1>1 DEF StartClaim, RetryClaim, Write, Answer, taskVars, TypeInv, Linked
  <2>2. ClaimInv'
    BY <1>0, <2>1 DEF TypeInv, TypeOK, Linked, StarterInv, ClaimInv, Claimed, NoNewBeginning
  <2>3. \A q \in Requests : op[q] = "start" /\ at[q] \in {"claimed", "ok"} /\ on[q] = on[r] => op[r] # "start"
    BY <1>1 DEF StartClaim, RetryClaim, StarterInv, ClaimInv, Claimed
  <2>4. OneStarter'
    BY <2>1, <2>3 DEF TypeInv, TypeOK, StarterInv, OneStarter
  <2>5. QED  BY <2>2, <2>4 DEF StarterInv
<1>3. ASSUME NEW r \in Requests, Submit(r)  PROVE StarterInv'
  <2>1. ClaimInv'
    BY <1>3 DEF Submit, Answer, rowVars, TypeInv, TypeOK, StarterInv, ClaimInv, Claimed
  <2>2. OneStarter'
    BY <1>3 DEF Submit, Answer, TypeInv, TypeOK, StarterInv, OneStarter
  <2>3. QED  BY <2>1, <2>2 DEF StarterInv
<1>4. CASE \A q \in Requests : Settled(q)
  BY <1>0, <1>4 DEF Settled, TypeInv, Linked, StarterInv, ClaimInv, Claimed, OneStarter, NoNewBeginning
<1>5. ASSUME NEW i \in Investigations, Create(i)  PROVE StarterInv'
  BY <1>4, <1>5 DEF Create, taskVars, reqVars, Settled
<1>6. ASSUME NEW r \in Requests, NEW o \in Ops, NEW i \in Investigations, Arrive(r, o, i)  PROVE StarterInv'
  BY <1>0, <1>6 DEF Arrive, Present, Answer, rowVars, taskVars, TypeInv, TypeOK, Linked, StarterInv, ClaimInv,
     Claimed, OneStarter
<1>7. CASE UNCHANGED vars
  BY <1>4, <1>7 DEF vars, taskVars, reqVars, Settled
<1>8. QED
  BY <1>1, <1>3, <1>4, <1>5, <1>6, <1>7, HandlersSettle, TasksSettle, ProcessSettles DEF Next

(* However many start requests race, whatever else happens meanwhile, one  *)
(* of them at most is accepted for an investigation.                       *)
THEOREM DatabaseElectsOneStarter == Spec => []OneStarter
<1>1. Init => StarterInv
  BY DEF Init, StarterInv, ClaimInv, Claimed, OneStarter
<1>2. Spec => []StarterInv
  BY <1>1, TypeInit, TypeStep, StarterStep, PTL DEF Spec
<1>3. QED  BY <1>2, PTL DEF StarterInv

(* No late task, cancel or sweep brings a deleted investigation back.      *)
THEOREM DeletedForGood == Spec => DeletedStaysDeleted
<1>1. ASSUME TypeInv, [Next]_vars, NEW i \in Investigations, status[i] = "deleted"
      PROVE  status'[i] = "deleted"
  <2> USE <1>1 DEF TypeInv, TypeOK, Linked, Write, Present
  <2>1. ASSUME NEW r \in Requests, Handler(r)  PROVE status'[i] = "deleted"
    BY <2>1 DEF Handler, StartClaim, StartConflict, RetryClaim, RetryConflict, Submit, CancelConflict, Retryable,
       CancelTask, CancelMissed, CancelOverwrite, CancelJoined, CancelMark, MarkRow, Delete, rowVars
  <2>2. ASSUME NEW t \in Requests, Task(t)  PROVE status'[i] = "deleted"
    BY <2>2 DEF Task, Acquire, CancelQueued, Begin, Finish, Crash, Return, Interrupt, Landed, InterruptMark,
       Mark, MarkRow, rowVars
  <2>3. ASSUME Process  PROVE status'[i] = "deleted"
    BY <2>3 DEF Process, ShutdownBegin, ShutdownCancel, ShutdownEnd, Kill, ProcessGone, Restart, rowVars
  <2>4. CASE \E j \in Investigations : Create(j)
    BY <2>4 DEF Create
  <2>5. CASE \E r \in Requests, o \in Ops, j \in Investigations : Arrive(r, o, j)
    BY <2>5 DEF Arrive, rowVars
  <2>6. CASE UNCHANGED vars
    BY <2>6 DEF vars, rowVars
  <2>7. QED  BY <2>1, <2>2, <2>3, <2>4, <2>5, <2>6 DEF Next
<1>2. TypeInv /\ [Next]_vars => [\A i \in Investigations : status[i] = "deleted" => status'[i] = "deleted"]_vars
  BY <1>1
<1>3. QED  BY <1>2, TypeInit, TypeStep, PTL DEF Spec, DeletedStaysDeleted

----------------------------------------------------------------------------
(***************************************************************************)
(* No silent loss.  A task whose cancellation is requested is the one a    *)
(* cancel handler awaits (and will mark), or the process is draining; a    *)
(* process that stops has no handler under way, and one that is down has   *)
(* nothing under way at all.                                               *)
(***************************************************************************)
Awaited(t) == \E r \in Requests : at[r] = "waiting" /\ joined[r] = t /\ on[r] = on[t]

DrainInv ==
  /\ server # "up" => InFlight = {}
  /\ server = "down" => LiveTasks = {}
  /\ \A t \in cancelled : t \in LiveTasks /\ (Awaited(t) \/ server = "draining")

LossInv == DrainInv /\ NoSilentLoss

LEMMA DrainHandlers ==
  ASSUME TypeInv, DrainInv, NEW r \in Requests, Handler(r)
  PROVE  DrainInv'
<1> USE DEF TypeInv, TypeOK, Linked, DrainInv, Awaited, InFlight, LiveTasks, Answer, taskVars, serverVars
<1>1. CASE StartClaim(r)  BY <1>1 DEF StartClaim
<1>2. CASE StartConflict(r)  BY <1>2 DEF StartConflict
<1>3. CASE RetryClaim(r)  BY <1>3 DEF RetryClaim
<1>4. CASE RetryConflict(r)  BY <1>4 DEF RetryConflict
<1>5. CASE Submit(r)  BY <1>5 DEF Submit, Live
<1>6. CASE CancelConflict(r)  BY <1>6 DEF CancelConflict
<1>7. CASE CancelTask(r)  BY <1>7 DEF CancelTask, TasksOf
<1>8. CASE CancelMissed(r)  BY <1>8 DEF CancelMissed
<1>9. CASE CancelOverwrite(r)  BY <1>9 DEF CancelOverwrite
<1>10. CASE CancelJoined(r)  BY <1>10 DEF CancelJoined, Live, Inside
<1>11. CASE CancelMark(r)  BY <1>11 DEF CancelMark
<1>12. CASE Delete(r)  BY <1>12 DEF Delete
<1>13. QED  BY <1>1, <1>2, <1>3, <1>4, <1>5, <1>6, <1>7, <1>8, <1>9, <1>10, <1>11, <1>12 DEF Handler

LEMMA DrainTasks ==
  ASSUME TypeInv, DrainInv, NEW t \in Requests, Task(t)
  PROVE  DrainInv'
<1> USE DEF TypeInv, TypeOK, DrainInv, Awaited, InFlight, LiveTasks, Live, Inside, Move, Leave, reqVars, serverVars
<1>1. CASE Acquire(t)  BY <1>1 DEF Acquire
<1>2. CASE CancelQueued(t)  BY <1>2 DEF CancelQueued
<1>3. CASE Begin(t)  BY <1>3 DEF Begin
<1>4. CASE Finish(t)  BY <1>4 DEF Finish
<1>5. CASE Crash(t)  BY <1>5 DEF Crash
<1>6. CASE Return(t)  BY <1>6 DEF Return
<1>7. CASE Interrupt(t)  BY <1>7 DEF Interrupt
<1>8. CASE InterruptMark(t)  BY <1>8 DEF InterruptMark
<1>9. CASE Mark(t)  BY <1>9 DEF Mark
<1>10. QED  BY <1>1, <1>2, <1>3, <1>4, <1>5, <1>6, <1>7, <1>8, <1>9 DEF Task

LEMMA DrainProcess ==
  ASSUME TypeInv, DrainInv, Process
  PROVE  DrainInv'
<1> USE DEF TypeInv, TypeOK, DrainInv, Awaited, InFlight, LiveTasks, Live, Inside, reqVars, taskVars
<1>1. CASE ShutdownBegin  BY <1>1 DEF ShutdownBegin
<1>2. CASE ShutdownCancel  BY <1>2 DEF ShutdownCancel
<1>3. CASE ProcessGone  BY <1>3 DEF ProcessGone
<1>4. CASE Restart  BY <1>4 DEF Restart
<1>5. QED  BY <1>1, <1>2, <1>3, <1>4 DEF Process, ShutdownEnd, Kill

LEMMA DrainStep == TypeInv /\ DrainInv /\ [Next]_vars => DrainInv'
<1> SUFFICES ASSUME TypeInv, DrainInv, [Next]_vars  PROVE DrainInv'
  OBVIOUS
<1>1. CASE \E i \in Investigations : Create(i)
  BY <1>1 DEF Create, DrainInv, Awaited, InFlight, LiveTasks, taskVars, reqVars, serverVars
<1>2. CASE \E r \in Requests, o \in Ops, i \in Investigations : Arrive(r, o, i)
  BY <1>2 DEF Arrive, TypeInv, TypeOK, Linked, DrainInv, Awaited, InFlight, LiveTasks, Live, Inside, Answer,
     taskVars, serverVars
<1>3. CASE UNCHANGED vars
  BY <1>3 DEF vars, DrainInv, Awaited, InFlight, LiveTasks, taskVars, reqVars, serverVars
<1>4. QED  BY <1>1, <1>2, <1>3, DrainHandlers, DrainTasks, DrainProcess DEF Next

\* One investigation's share of NoSilentLoss.
Accounted(i) == status[i] = "running" => Owned(i) \/ i \in lost

LEMMA AccountedHandlers ==
  ASSUME TypeInv, NEW i \in Investigations, Accounted(i), NEW r \in Requests, Handler(r)
  PROVE  Accounted(i)'
<1> USE DEF TypeInv, TypeOK, Linked, Accounted, Owned, Answer, Write, rowVars, taskVars, serverVars
<1>1. CASE StartClaim(r)  BY <1>1 DEF StartClaim
<1>2. CASE StartConflict(r)  BY <1>2 DEF StartConflict
<1>3. CASE RetryClaim(r)  BY <1>3 DEF RetryClaim
<1>4. CASE RetryConflict(r)  BY <1>4 DEF RetryConflict
<1>5. CASE Submit(r)  BY <1>5 DEF Submit, Live
<1>6. CASE CancelConflict(r)  BY <1>6 DEF CancelConflict
<1>7. CASE CancelTask(r)  BY <1>7 DEF CancelTask
<1>8. CASE CancelMissed(r)  BY <1>8 DEF CancelMissed
<1>9. CASE CancelOverwrite(r)  BY <1>9 DEF CancelOverwrite, Present
<1>10. CASE CancelJoined(r)  BY <1>10 DEF CancelJoined
<1>11. CASE CancelMark(r)  BY <1>11 DEF CancelMark, MarkRow, Present
<1>12. CASE Delete(r)  BY <1>12 DEF Delete
<1>13. QED  BY <1>1, <1>2, <1>3, <1>4, <1>5, <1>6, <1>7, <1>8, <1>9, <1>10, <1>11, <1>12 DEF Handler

LEMMA AccountedTasks ==
  ASSUME TypeInv, DrainInv, NEW i \in Investigations, Accounted(i), NEW t \in Requests, Task(t)
  PROVE  Accounted(i)'
<1> USE DEF TypeInv, TypeOK, Linked, Accounted, Owned, Live, Inside, Move, Leave, Write, rowVars, reqVars, serverVars
<1>1. CASE Acquire(t)  BY <1>1 DEF Acquire
<1>2. CASE CancelQueued(t)  BY <1>2 DEF CancelQueued, DrainInv, Awaited
<1>3. CASE Begin(t)  BY <1>3 DEF Begin
<1>4. CASE Finish(t)  BY <1>4 DEF Finish, Terminal
<1>5. CASE Crash(t)  BY <1>5 DEF Crash
<1>6. CASE Return(t)  BY <1>6 DEF Return
<1>7. CASE Interrupt(t)  BY <1>7 DEF Interrupt
<1>8. CASE InterruptMark(t)  BY <1>8 DEF InterruptMark, DrainInv, Awaited
<1>9. CASE Mark(t)  BY <1>9 DEF Mark, MarkRow, Present
<1>10. QED  BY <1>1, <1>2, <1>3, <1>4, <1>5, <1>6, <1>7, <1>8, <1>9 DEF Task

LEMMA AccountedProcess ==
  ASSUME TypeInv, DrainInv, NEW i \in Investigations, Accounted(i), Process
  PROVE  Accounted(i)'
<1> USE DEF TypeInv, TypeOK, Accounted, Owned, rowVars, taskVars, reqVars
<1>1. CASE ShutdownBegin  BY <1>1 DEF ShutdownBegin
<1>2. CASE ShutdownCancel  BY <1>2 DEF ShutdownCancel
<1>3. CASE ProcessGone  BY <1>3 DEF ProcessGone
<1>4. CASE Restart  BY <1>4 DEF Restart
<1>5. QED  BY <1>1, <1>2, <1>3, <1>4 DEF Process, ShutdownEnd, Kill

LEMMA LossStep == TypeInv /\ LossInv /\ [Next]_vars => LossInv'
<1> SUFFICES ASSUME TypeInv, LossInv, [Next]_vars  PROVE LossInv'
  OBVIOUS
<1>1. DrainInv'
  BY DrainStep DEF LossInv
<1>2. ASSUME NEW i \in Investigations  PROVE Accounted(i)'
  <2>1. Accounted(i) /\ DrainInv
    BY DEF LossInv, NoSilentLoss, Accounted
  <2>2. CASE \E j \in Investigations : Create(j)
    BY <2>1, <2>2 DEF Create, Write, TypeInv, TypeOK, Accounted, Owned, taskVars, reqVars, serverVars
  <2>3. CASE \E r \in Requests, o \in Ops, j \in Investigations : Arrive(r, o, j)
    BY <2>1, <2>3 DEF Arrive, TypeInv, TypeOK, Linked, Accounted, Owned, Live, Inside, Answer, rowVars, taskVars,
       serverVars
  <2>4. CASE UNCHANGED vars
    BY <2>1, <2>4 DEF vars, Accounted, Owned, rowVars, taskVars, reqVars, serverVars
  <2>5. QED  BY <2>1, <2>2, <2>3, <2>4, AccountedHandlers, AccountedTasks, AccountedProcess DEF Next
<1>3. QED  BY <1>1, <1>2 DEF LossInv, NoSilentLoss, Accounted

(* Whatever races, crashes or shuts down, a row that says RUNNING has      *)
(* somebody left who will write its end, or the write was tried and lost.  *)
THEOREM NothingIsLostSilently == Spec => []NoSilentLoss
<1>1. Init => LossInv
  BY DEF Init, LossInv, DrainInv, NoSilentLoss, Owned, InFlight, LiveTasks, Live, Inside
<1>2. Spec => []LossInv
  BY <1>1, TypeInit, TypeStep, LossStep, PTL DEF Spec
<1>3. QED  BY <1>2, PTL DEF LossInv
----------------------------------------------------------------------------
(***************************************************************************)
(* Patient clients.  Only one request is in flight.  When it acts on an    *)
(* investigation without asking for a task of it (a claim that is not yet  *)
(* submitted, a cancel that is about to write) there is none left; when it *)
(* waits, it waits for the only one.  A task that has not written its end  *)
(* finds RUNNING, or no row.                                               *)
(***************************************************************************)
TasksLeft(r) == {t \in Requests : phase[t] \in Live /\ on[t] = on[r]}

PatientInv ==
  /\ \A r1, r2 \in InFlight : r1 = r2
  /\ \A t1, t2 \in LiveTasks : on[t1] = on[t2] => t1 = t2
  /\ \A t \in Requests : phase[t] \in {"queued", "begin", "work", "mark_failed"} =>
                           status[on[t]] \in {"running", "deleted"}
  /\ \A r \in Requests :
       /\ at[r] \in {"claimed", "marking", "overwriting"} => TasksLeft(r) = {}
       /\ at[r] = "loaded" /\ seen[r] \in Retryable => TasksLeft(r) = {}
       /\ at[r] = "waiting" => TasksLeft(r) \subseteq {joined[r]}
       /\ at[r] = "claimed" => status[on[r]] = "running"

LEMMA PatientInit == Init => PatientInv
BY DEF Init, PatientInv, InFlight, LiveTasks, TasksLeft, Live, Inside

LEMMA PatientHandlers ==
  ASSUME TypeInv, ClaimInv, PatientInv, NEW r \in Requests, Handler(r)
  PROVE  PatientInv'
<1> USE DEF TypeInv, TypeOK, Linked, PatientInv, InFlight, LiveTasks, TasksLeft, Answer, Write, rowVars, taskVars
<1>1. CASE StartClaim(r)  BY <1>1 DEF StartClaim, ClaimInv, Claimed, Live, Inside
<1>2. CASE StartConflict(r)  BY <1>2 DEF StartConflict
<1>3. CASE RetryClaim(r)  BY <1>3 DEF RetryClaim
<1>4. CASE RetryConflict(r)  BY <1>4 DEF RetryConflict
<1>5. CASE Submit(r)  BY <1>5 DEF Submit, Live, Inside
<1>6. CASE CancelConflict(r)  BY <1>6 DEF CancelConflict
<1>7. CASE CancelTask(r)  BY <1>7 DEF CancelTask, TasksOf
<1>8. CASE CancelMissed(r)  BY <1>8 DEF CancelMissed, TasksOf
<1>9. CASE CancelOverwrite(r)  BY <1>9 DEF CancelOverwrite, Live, Inside
<1>10. CASE CancelJoined(r)  BY <1>10 DEF CancelJoined, Live, Inside
<1>11. CASE CancelMark(r)  BY <1>11 DEF CancelMark, MarkRow, Live, Inside
<1>12. CASE Delete(r)  BY <1>12 DEF Delete
<1>13. QED  BY <1>1, <1>2, <1>3, <1>4, <1>5, <1>6, <1>7, <1>8, <1>9, <1>10, <1>11, <1>12 DEF Handler

LEMMA PatientTasks ==
  ASSUME TypeInv, PatientInv, NEW t \in Requests, Task(t)
  PROVE  PatientInv'
<1> USE DEF TypeInv, TypeOK, Linked, PatientInv, InFlight, LiveTasks, TasksLeft, Live, Inside, Move, Leave, Write,
            rowVars, reqVars
<1>1. CASE Acquire(t)  BY <1>1 DEF Acquire
<1>2. CASE CancelQueued(t)  BY <1>2 DEF CancelQueued
<1>3. CASE Begin(t)  BY <1>3 DEF Begin
<1>4. CASE Finish(t)  BY <1>4 DEF Finish
<1>5. CASE Crash(t)  BY <1>5 DEF Crash
<1>6. CASE Return(t)  BY <1>6 DEF Return
<1>7. CASE Interrupt(t)  BY <1>7 DEF Interrupt, Landed
<1>8. CASE InterruptMark(t)  BY <1>8 DEF InterruptMark
<1>9. CASE Mark(t)  BY <1>9 DEF Mark, MarkRow
<1>10. QED  BY <1>1, <1>2, <1>3, <1>4, <1>5, <1>6, <1>7, <1>8, <1>9 DEF Task

LEMMA PatientProcess ==
  ASSUME TypeInv, DrainInv, PatientInv, Process
  PROVE  PatientInv'
<1> USE DEF TypeInv, TypeOK, Linked, DrainInv, PatientInv, InFlight, LiveTasks, TasksLeft, Live, Inside, rowVars,
            reqVars, taskVars
<1>1. CASE ShutdownBegin  BY <1>1 DEF ShutdownBegin
<1>2. CASE ShutdownCancel  BY <1>2 DEF ShutdownCancel
<1>3. CASE ProcessGone  BY <1>3 DEF ProcessGone
<1>4. CASE Restart  BY <1>4 DEF Restart
<1>5. QED  BY <1>1, <1>2, <1>3, <1>4 DEF Process, ShutdownEnd, Kill

\* Whoever asks when nothing is on its way finds the tasks of an investigation
\* in the phases in which its row says RUNNING.
LEMMA PatientArrive ==
  ASSUME Patient, TypeInv, PatientInv,
         NEW r \in Requests, NEW o \in Ops, NEW i \in Investigations, Arrive(r, o, i)
  PROVE  PatientInv'
BY DEF Arrive, Quiet, Present, Answer, TypeInv, TypeOK, Linked, PatientInv, InFlight, LiveTasks, TasksLeft, Live,
   Inside, Retryable, rowVars, taskVars

LEMMA PatientStep ==
  Patient /\ TypeInv /\ ClaimInv /\ DrainInv /\ PatientInv /\ [Next]_vars => PatientInv'
<1> SUFFICES ASSUME Patient, TypeInv, ClaimInv, DrainInv, PatientInv, [Next]_vars  PROVE PatientInv'
  OBVIOUS
<1>1. ASSUME NEW i \in Investigations, Create(i)  PROVE PatientInv'
  BY <1>1 DEF Create, Write, TypeInv, TypeOK, Linked, ClaimInv, Claimed, PatientInv, InFlight, LiveTasks, TasksLeft,
     taskVars, reqVars
<1>2. CASE UNCHANGED vars
  BY <1>2 DEF vars, PatientInv, InFlight, LiveTasks, TasksLeft, rowVars, taskVars, reqVars
<1>3. QED  BY <1>1, <1>2, PatientArrive, PatientHandlers, PatientTasks, PatientProcess DEF Next

LEMMA PatientInvariant ==
  ASSUME Patient
  PROVE  Spec => [](TypeInv /\ ClaimInv /\ DrainInv /\ PatientInv)
<1>1. Init => StarterInv /\ DrainInv
  BY DEF Init, StarterInv, ClaimInv, Claimed, OneStarter, DrainInv, InFlight, LiveTasks, Live, Inside
<1>2. Spec => [](TypeInv /\ StarterInv /\ DrainInv)
  BY <1>1, TypeInit, TypeStep, StarterStep, DrainStep, PTL DEF Spec
<1>3. StarterInv => ClaimInv
  BY DEF StarterInv
<1>4. TypeInv /\ StarterInv /\ DrainInv /\ PatientInv /\ [Next]_vars => PatientInv'
  BY <1>3, PatientStep
<1>5. QED  BY <1>2, <1>3, <1>4, PatientInit, PTL DEF Spec

(* However many patient clients start, cancel and retry, no investigation  *)
(* has two executions at once, and the row of one under way says RUNNING.  *)
THEOREM OneExecutionAtATime == Spec => []AtMostOneExecution
<1>1. CASE Patient
  <2>1. PatientInv => AtMostOneExecution
    BY DEF PatientInv, AtMostOneExecution, Executing, TasksOf, LiveTasks
  <2>2. Spec => [](TypeInv /\ ClaimInv /\ DrainInv /\ PatientInv)
    BY <1>1, PatientInvariant
  <2>3. QED  BY <2>1, <2>2, PTL
<1>2. CASE ~Patient
  <2>1. AtMostOneExecution
    BY <1>2 DEF AtMostOneExecution
  <2>2. QED  BY <2>1, PTL
<1>3. QED  BY <1>1, <1>2

(***************************************************************************)
(* The contract of a patient client.  An execution under way is a claim    *)
(* that is not yet submitted or a task that has not settled.               *)
(***************************************************************************)
UnderWay == {i \in Investigations :
               Executing(i) # {} \/ \E r \in Requests : on[r] = i /\ at[r] = "claimed"}

MeansTask(t) == phase[t] \in {"queued", "begin", "work"}

\* What makes an investigation busy, without the sets of tasks.
LEMMA WhoIsUnderWay ==
  ASSUME NEW i \in Investigations
  PROVE  i \in UnderWay <=> \E r \in Requests : on[r] = i /\ (at[r] = "claimed" \/ MeansTask(r))
BY DEF UnderWay, Executing, TasksOf, LiveTasks, MeansTask, Live, Inside

LEMMA WhoWillBeUnderWay ==
  ASSUME NEW i \in Investigations
  PROVE  i \in UnderWay' <=> \E r \in Requests : on'[r] = i /\ (at'[r] = "claimed" \/ MeansTask(r)')
BY DEF UnderWay, Executing, TasksOf, LiveTasks, MeansTask, Live, Inside

ContractStep == Contract!Next \/ UNCHANGED <<status, UnderWay>>

\* The steps of the contract, with what they stand for here.
LEMMA StepOpens ==
  ASSUME NEW i \in Investigations, status[i] = "absent", Write(i, "created"), UnderWay' = UnderWay
  PROVE  ContractStep
BY DEF ContractStep, UnderWay, Write, Contract!Next, Contract!Open, Contract!Become

LEMMA StepClaims ==
  ASSUME NEW i \in Investigations, i \notin UnderWay, status[i] \in {"created"} \union Retryable,
         Write(i, "running"), UnderWay' = UnderWay \union {i}
  PROVE  ContractStep
BY DEF ContractStep, UnderWay, Write, Retryable, Contract!Next, Contract!Claim, Contract!Become, Contract!Retryable

LEMMA StepEnds ==
  ASSUME NEW i \in Investigations, i \in UnderWay, status[i] = "running",
         NEW s \in Terminal, Write(i, s), UnderWay' = UnderWay \ {i}
  PROVE  ContractStep
BY DEF ContractStep, UnderWay, Write, Terminal, Contract!Next, Contract!End, Contract!Become, Contract!Terminal

LEMMA StepBreaksOff ==
  ASSUME status' = status, UnderWay' \subseteq UnderWay
  PROVE  ContractStep
<1>1. \E S \in SUBSET UnderWay : UnderWay' = UnderWay \ S
  <2>1. UnderWay' = UnderWay \ (UnderWay \ UnderWay')
    OBVIOUS
  <2>2. QED  BY <2>1
<1>2. QED  BY <1>1 DEF ContractStep, UnderWay, Contract!Next, Contract!BreakOff

LEMMA StepCloses ==
  ASSUME NEW i \in Investigations, i \notin UnderWay, status[i] = "running",
         NEW s \in {"failed", "halted"}, Write(i, s), UnderWay' = UnderWay
  PROVE  ContractStep
BY DEF ContractStep, UnderWay, Write, Contract!Next, Contract!CloseOrphan, Contract!Become

LEMMA StepHalts ==
  ASSUME NEW i \in Investigations, i \notin UnderWay, status[i] \in {"created"} \union Terminal,
         Write(i, "halted"), UnderWay' = UnderWay
  PROVE  ContractStep
BY DEF ContractStep, UnderWay, Write, Terminal, Contract!Next, Contract!Halt, Contract!Become, Contract!Terminal

LEMMA StepRemoves ==
  ASSUME NEW i \in Investigations, status[i] # "absent", Write(i, "deleted"), UnderWay' = UnderWay
  PROVE  ContractStep
BY DEF ContractStep, UnderWay, Write, Contract!Next, Contract!Remove, Contract!Become

LEMMA ContractHandlers ==
  ASSUME TypeInv, ClaimInv, PatientInv, NEW r \in Requests, Handler(r)
  PROVE  ContractStep
<1> DEFINE i == on[r]
<1> USE DEF TypeInv, TypeOK, Linked
<1>0. i \in Investigations
  BY DEF Handler, StartClaim, StartConflict, RetryClaim, RetryConflict, Submit, CancelConflict,
     CancelTask, CancelMissed, CancelOverwrite, CancelJoined, CancelMark, Delete
<1>1. CASE StartClaim(r) \/ RetryClaim(r)
  <2>1. /\ at[r] = "loaded" /\ Write(i, "running") /\ status[i] \in {"created"} \union Retryable
        /\ phase' = phase /\ on' = on /\ at' = [at EXCEPT ![r] = "claimed"]
    BY <1>1 DEF StartClaim, RetryClaim, Answer, taskVars
  <2>2. \A q \in Requests : at[q] # "claimed"
    BY <2>1 DEF PatientInv, InFlight
  <2>3. \A t \in Requests : on[t] = i => ~MeansTask(t)
    BY <1>1 DEF StartClaim, RetryClaim, ClaimInv, Claimed, PatientInv, TasksLeft, MeansTask, Live, Inside, Retryable
  <2>4. i \notin UnderWay
    BY <1>0, <2>2, <2>3, WhoIsUnderWay
  <2>5. UnderWay' = UnderWay \union {i}
    BY <1>0, <2>1, WhoIsUnderWay, WhoWillBeUnderWay DEF UnderWay, MeansTask
  <2>6. QED  BY <1>0, <2>1, <2>4, <2>5, StepClaims
<1>2. CASE Submit(r)
  <2>1. /\ status' = status /\ at[r] = "claimed" /\ at' = [at EXCEPT ![r] = "ok"] /\ on' = on
        /\ phase' = [phase EXCEPT ![r] = "queued"]
    BY <1>2 DEF Submit, Answer, rowVars
  <2>2. UnderWay' \subseteq UnderWay
    BY <2>1, WhoIsUnderWay, WhoWillBeUnderWay DEF UnderWay, MeansTask
  <2>3. QED  BY <2>1, <2>2, StepBreaksOff
<1>3. ASSUME ~(StartClaim(r) \/ RetryClaim(r) \/ Submit(r))  PROVE UnderWay' = UnderWay
  <2>1. /\ phase' = phase /\ on' = on
        /\ \A q \in Requests : at'[q] = "claimed" <=> at[q] = "claimed"
    BY <1>3 DEF Handler, StartConflict, RetryConflict, CancelConflict, CancelTask, CancelMissed, CancelOverwrite,
       CancelJoined, CancelMark, Delete, Answer, taskVars
  <2>2. QED  BY <2>1, WhoIsUnderWay, WhoWillBeUnderWay DEF UnderWay, MeansTask
<1>4. CASE CancelOverwrite(r) \/ CancelMark(r)
  <2>1. UnderWay' = UnderWay
    BY <1>3, <1>4 DEF CancelOverwrite, CancelMark, StartClaim, RetryClaim, Submit
  <2>2. i \notin UnderWay
    <3>1. at[r] \in {"marking", "overwriting"}
      BY <1>4 DEF CancelOverwrite, CancelMark
    <3>2. QED  BY <1>0, <3>1, WhoIsUnderWay DEF PatientInv, InFlight, TasksLeft, MeansTask, Live, Inside
  <2>3. status' = status \/ (Write(i, "halted") /\ Present(i))
    BY <1>4 DEF CancelOverwrite, CancelMark, MarkRow, rowVars
  <2>4. Present(i) => status[i] \in {"created", "running"} \union Terminal
    BY <1>0 DEF Present
  <2>5. QED  BY <1>0, <2>1, <2>2, <2>3, <2>4, StepCloses, StepHalts, StepBreaksOff
<1>5. CASE Delete(r)
  <2>1. UnderWay' = UnderWay
    BY <1>3, <1>5 DEF Delete, StartClaim, RetryClaim, Submit
  <2>2. status' = status \/ (Write(i, "deleted") /\ status[i] # "absent")
    BY <1>5 DEF Delete, Present
  <2>3. QED  BY <1>0, <2>1, <2>2, StepRemoves, StepBreaksOff
<1>6. CASE StartConflict(r) \/ RetryConflict(r) \/ CancelConflict(r) \/ CancelTask(r) \/ CancelMissed(r)
           \/ CancelJoined(r)
  <2>1. status' = status
    BY <1>6 DEF StartConflict, RetryConflict, CancelConflict, CancelTask, CancelMissed, CancelJoined, rowVars
  <2>2. UnderWay' = UnderWay
    BY <1>3, <1>6 DEF StartConflict, RetryConflict, CancelConflict, CancelTask, CancelMissed, CancelJoined,
       StartClaim, RetryClaim, Submit, Answer
  <2>3. QED  BY <2>1, <2>2, StepBreaksOff
<1>7. QED  BY <1>1, <1>2, <1>4, <1>5, <1>6 DEF Handler

\* A task that is not done is the only one of its investigation, and nobody is
\* about to submit another.
LEMMA TaskIsAlone ==
  ASSUME TypeInv, PatientInv, NEW t \in Requests, phase[t] \in Live
  PROVE  /\ on[t] \in Investigations
         /\ \A q \in Requests \ {t} : on[q] = on[t] => at[q] # "claimed" /\ ~MeansTask(q)
BY DEF TypeInv, Linked, PatientInv, InFlight, LiveTasks, TasksLeft, MeansTask, Live, Inside

LEMMA ContractTasks ==
  ASSUME TypeInv, ClaimInv, PatientInv, NEW t \in Requests, Task(t)
  PROVE  ContractStep
<1> DEFINE i == on[t]
<1> USE DEF TypeInv, TypeOK, Linked, Move, Leave
<1>0. /\ phase[t] \in Live /\ i \in Investigations
      /\ at[t] = "ok" /\ at' = at /\ on' = on
      /\ \A q \in Requests \ {t} : on[q] = i => at[q] # "claimed" /\ ~MeansTask(q)
      /\ \A q \in Requests \ {t} : phase'[q] = phase[q]
  <2>1. phase[t] \in Live
    BY DEF Task, Acquire, CancelQueued, Begin, Finish, Crash, Return, Interrupt, InterruptMark, Mark, Live, Inside
  <2>2. at' = at /\ on' = on /\ \A q \in Requests \ {t} : phase'[q] = phase[q]
    BY DEF Task, Acquire, CancelQueued, Begin, Finish, Crash, Return, Interrupt, InterruptMark, Mark, reqVars
  <2>3. QED  BY <2>1, <2>2, TaskIsAlone DEF Live, Inside
<1>1. ASSUME MeansTask(t)' => MeansTask(t)  PROVE UnderWay' \subseteq UnderWay
  BY <1>0, <1>1, WhoIsUnderWay, WhoWillBeUnderWay DEF UnderWay, MeansTask
<1>2. ASSUME ~MeansTask(t)  PROVE i \notin UnderWay
  BY <1>0, <1>2, WhoIsUnderWay DEF MeansTask
<1>3. ASSUME ~MeansTask(t), ~MeansTask(t)'  PROVE UnderWay' = UnderWay
  BY <1>0, <1>3, WhoIsUnderWay, WhoWillBeUnderWay DEF UnderWay, MeansTask
<1>4. ASSUME MeansTask(t), ~MeansTask(t)'  PROVE i \in UnderWay /\ UnderWay' = UnderWay \ {i}
  BY <1>0, <1>4, WhoIsUnderWay, WhoWillBeUnderWay DEF UnderWay, MeansTask
<1>5. CASE Acquire(t) \/ CancelQueued(t) \/ Crash(t) \/ Return(t) \/ Begin(t)
  <2>1. status' = status
    BY <1>5 DEF Acquire, CancelQueued, Crash, Return, Begin, Present, Write, PatientInv, rowVars
  <2>2. MeansTask(t)' => MeansTask(t)
    BY <1>5 DEF Acquire, CancelQueued, Crash, Return, Begin, MeansTask
  <2>3. QED  BY <1>1, <2>1, <2>2, StepBreaksOff
<1>6. CASE Finish(t) \/ Interrupt(t)
  <2>1. ~MeansTask(t)'
    BY <1>6 DEF Finish, Interrupt, MeansTask
  <2>2. \/ status' = status
        \/ MeansTask(t) /\ status[i] = "running" /\ \E s \in Terminal : Write(i, s)
    BY <1>0, <1>6 DEF Finish, Interrupt, Landed, Present, Write, PatientInv, MeansTask
  <2>3. QED  BY <1>0, <1>1, <1>4, <2>1, <2>2, StepBreaksOff, StepEnds
<1>7. CASE InterruptMark(t) \/ Mark(t)
  <2>1. ~MeansTask(t) /\ ~MeansTask(t)'
    BY <1>7 DEF InterruptMark, Mark, MeansTask
  <2>2. \/ status' = status
        \/ Present(i) /\ Write(i, IF phase[t] = "mark_halted" THEN "halted" ELSE "failed")
    BY <1>7 DEF InterruptMark, Mark, MarkRow, rowVars
  <2>3. Present(i) => /\ status[i] \in {"running"} \union Terminal
                      /\ phase[t] = "mark_failed" => status[i] = "running"
    BY <1>0, <1>7 DEF InterruptMark, Mark, Present, PatientInv, ClaimInv, Claimed, Live, Inside
  <2>4. phase[t] \in {"mark_halted", "mark_failed"}
    BY <1>7 DEF InterruptMark, Mark
  <2>5. QED  BY <1>0, <1>2, <1>3, <2>1, <2>2, <2>3, <2>4, StepBreaksOff, StepCloses, StepHalts
<1>8. QED  BY <1>5, <1>6, <1>7 DEF Task

LEMMA ContractProcess ==
  ASSUME TypeInv, DrainInv, Process
  PROVE  ContractStep
<1> USE DEF TypeInv, TypeOK
<1>1. CASE ShutdownBegin \/ ShutdownCancel
  <2>1. status' = status /\ UnderWay' = UnderWay
    BY <1>1 DEF ShutdownBegin, ShutdownCancel, UnderWay, Executing, TasksOf, LiveTasks, rowVars, reqVars, taskVars
  <2>2. QED  BY <2>1, StepBreaksOff
<1>2. CASE ProcessGone
  <2>1. status' = status /\ UnderWay' \subseteq UnderWay
    BY <1>2, WhoIsUnderWay, WhoWillBeUnderWay DEF ProcessGone, UnderWay, MeansTask, InFlight, Live, Inside, rowVars
  <2>2. QED  BY <2>1, StepBreaksOff
<1>3. CASE Restart
  <2>1. UnderWay = {} /\ UnderWay' = {}
    BY <1>3, WhoIsUnderWay, WhoWillBeUnderWay
       DEF Restart, UnderWay, DrainInv, MeansTask, InFlight, LiveTasks, Live, Inside, reqVars, taskVars
  <2>2. QED  BY <1>3, <2>1 DEF Restart, ContractStep, UnderWay, Contract!Next, Contract!Sweep
<1>4. QED  BY <1>1, <1>2, <1>3 DEF Process, ShutdownEnd, Kill

LEMMA ContractNext ==
  TypeInv /\ ClaimInv /\ DrainInv /\ PatientInv /\ [Next]_vars => ContractStep
<1> SUFFICES ASSUME TypeInv, ClaimInv, DrainInv, PatientInv, [Next]_vars  PROVE ContractStep
  OBVIOUS
<1>1. ASSUME NEW i \in Investigations, Create(i)  PROVE ContractStep
  <2>1. UnderWay' = UnderWay
    BY <1>1 DEF Create, UnderWay, Executing, TasksOf, LiveTasks, reqVars, taskVars
  <2>2. QED  BY <1>1, <2>1, StepOpens DEF Create
<1>2. ASSUME NEW r \in Requests, NEW o \in Ops, NEW i \in Investigations, Arrive(r, o, i)  PROVE ContractStep
  <2>1. status' = status /\ UnderWay' \subseteq UnderWay
    BY <1>2, WhoIsUnderWay, WhoWillBeUnderWay
       DEF Arrive, Answer, UnderWay, MeansTask, TypeInv, TypeOK, Linked, rowVars, taskVars
  <2>2. QED  BY <2>1, StepBreaksOff
<1>3. CASE UNCHANGED vars
  BY <1>3 DEF ContractStep, UnderWay, Executing, TasksOf, LiveTasks, vars, rowVars, reqVars, taskVars
<1>4. QED  BY <1>1, <1>2, <1>3, ContractHandlers, ContractTasks, ContractProcess DEF Next

(* For patient clients the handlers, the runner and the process together   *)
(* implement InvestigationContract: an execution starts only by a claim    *)
(* and nobody but itself moves its row off RUNNING while it is under way.  *)
THEOREM PatientClientsHaveTheContract == Patient => (Spec => KeepsContract)
<1> SUFFICES ASSUME Patient  PROVE Spec => KeepsContract
  OBVIOUS
<1>1. Init => Contract!Init
  <2>1. Init => UnderWay = {}
    BY DEF Init, UnderWay, Executing, TasksOf, LiveTasks, Live, Inside
  <2>2. QED  BY <2>1 DEF Init, UnderWay, Contract!Init
<1>2. Spec => [](TypeInv /\ ClaimInv /\ DrainInv /\ PatientInv)
  BY PatientInvariant
<1>3. ContractStep => [Contract!Next]_<<status, UnderWay>>
  BY DEF ContractStep
<1>4. QED  BY <1>1, <1>2, <1>3, ContractNext, PTL DEF Spec, KeepsContract, Contract!Spec, UnderWay
=============================================================================
