-------------------------- MODULE QuarantineProofs --------------------------
(***************************************************************************)
(* Proofs about Quarantine for every set of investigations, requests,      *)
(* contents and submissions, whatever the contents look like, and for any  *)
(* number of restarts.                                                     *)
(***************************************************************************)
EXTENDS Quarantine, TLAPS

\* The submissions that are under way, which the server knows by heart only.
Underway == {"admitted", "staged", "kept"}

Digest == [sha256 : Contents, kept : BOOLEAN]

Backups == [pc : {"writing", "accepted", "refused"}, at : 1..5, rows : SUBSET Digest,
            tree : SUBSET Contents, listed : SUBSET Requests]

TypeInv ==
  /\ investigations \in [Investigations ->
        [status : {"created", "running", "ended", "deleted"}, kept : BOOLEAN]]
  /\ \A a \in artifacts : a.investigation \in Investigations /\ a.sha256 \in Contents
  /\ staging \subseteq Requests /\ stored \subseteq Contents
  /\ request \in [Requests ->
        [pc : Underway \union {"idle", "over", "answered", "killed"},
         investigation : Investigations \union {None},
         sent : Submissions \union {None}]]
  /\ \A r \in Requests : request[r].pc \in Underway =>
        request[r].investigation \in Investigations /\ Sent(r) \in Submissions
  /\ \A r \in Requests : request[r].pc = "kept" => Accepted(Sent(r))
  /\ intake \in [Investigations -> {"idle", "begins", "intake"}]
  /\ backup \in Backups
  /\ restore \in [pc : {"idle", "done", "failed"}, rows : SUBSET Contents,
                  tree : SUBSET Contents]

----------------------------------------------------------------------------
(* What the submissions and the stand-ins that are accepted may be.         *)

\* Content that is accepted is content, and none is what a rejection needs.
LEMMA AcceptedIsContent ==
  ASSUME NEW s \in Submissions, Accepted(s)
  PROVE  s.content \in Contents
BY ConstantsAssumption DEF Accepted

LEMMA StandInIsContent ==
  ASSUME NEW i \in Investigations, NEW s \in StandIns(i)
  PROVE  /\ s.content \in Contents
         /\ Classified(s.content, s.name, s.declared) # "rejected"
<1>1. s.content \in {Target[i].answer, Target[i].value} BY DEF StandIns
<1>2. Accepted(s) BY DEF StandIns
<1> QED BY <1>1, <1>2, ConstantsAssumption DEF Accepted

\* An executable is detected as one, and no text is then made of it.
LEMMA NoTextOfExecutables ==
  ASSUME NEW content, NEW name, NEW declared,
         Header[content].magic = "binary_file",
         Classified(content, name, declared) # "rejected"
  PROVE  /\ declared \notin Texts
         /\ Classified(content, name, declared) \notin Texts
<1>1. Detected(content) = "binary_file" BY DEF Detected
<1>2. CASE declared \in Captures BY <1>1, <1>2 DEF Classified, Captures, Texts
<1>3. CASE declared \in Texts BY <1>1, <1>3 DEF Classified, Captures, Texts
<1>4. CASE declared = "unknown" BY <1>1, <1>4 DEF Classified, Captures, Texts
<1>5. CASE declared \notin Captures \union Texts \union {"unknown"}
  BY <1>5 DEF Classified
<1> QED BY <1>2, <1>3, <1>4, <1>5

----------------------------------------------------------------------------
(* Types.                                                                  *)

LEMMA TypeInit == Init => TypeInv
BY DEF Init, TypeInv, Backups, NoRequest, NoBackup, NoRestore, Underway, Sent

LEMMA TypeRow ==
  ASSUME TypeInv, NEW i \in Investigations, Update(i) \/ Claim(i) \/ Delete(i)
  PROVE  TypeInv'
<1> USE DEF TypeInv, Underway, outside, Sent
<1>1. CASE Update(i) BY ZenonT(60), <1>1 DEF Update, Accepted
<1>2. CASE Claim(i) BY <1>2 DEF Claim, SetStatus, Accepted
<1>3. CASE Delete(i) BY <1>3 DEF Delete, Accepted
<1> QED BY <1>1, <1>2, <1>3

LEMMA TypeSubmission ==
  ASSUME TypeInv, NEW r \in Requests, Submission(r)
  PROVE  TypeInv'
<1> USE DEF TypeInv, Underway, outside, database
<1>1. ASSUME NEW i \in Investigations, NEW s \in Submissions, Arrive(r, i, s)
      PROVE  TypeInv'
  BY <1>1 DEF Arrive, Sent, Accepted
<1>2. CASE Stage(r) BY <1>2 DEF Stage, Step, Sent, Accepted
<1>3. CASE Keep(r)
  <2>1. Sent(r) \in Submissions /\ Accepted(Sent(r)) BY <1>3 DEF Keep, Complete
  <2>2. stored' \subseteq Contents BY <1>3, <2>1, AcceptedIsContent DEF Keep
  <2>3. staging' \subseteq Requests BY <1>3 DEF Keep
  <2>4. request' \in [Requests ->
          [pc : Underway \union {"idle", "over", "answered", "killed"},
           investigation : Investigations \union {None},
           sent : Submissions \union {None}]]
    BY <1>3 DEF Keep, Step
  <2>5. \A q \in Requests : Sent(q)' = Sent(q)
    BY <1>3 DEF Keep, Step, Sent
  <2>6. \A q \in Requests : q # r => request'[q] = request[q]
    BY <1>3 DEF Keep, Step
  <2>7. /\ request'[r].pc = "kept"
        /\ request'[r].investigation = request[r].investigation
        /\ request[r].pc \in Underway
    BY <1>3 DEF Keep, Step, Complete
  <2> QED BY SMTT(60), <1>3, <2>1, <2>2, <2>3, <2>4, <2>5, <2>6, <2>7 DEF Keep
<1>4. CASE Reject(r) BY <1>4 DEF Reject, Over, NoRequest, Sent, Accepted
<1>5. CASE Cancel(r) BY <1>5 DEF Cancel, Over, NoRequest, Sent, Accepted
<1>6. CASE Record(r)
  <2>1. Sent(r) \in Submissions /\ request[r].investigation \in Investigations
    BY <1>6 DEF Record
  <2>2. Sent(r).content \in Contents BY <1>6, <2>1, AcceptedIsContent DEF Record
  <2> QED BY <1>6, <2>1, <2>2 DEF Record, Over, NoRequest, Sent, Accepted
<1>7. CASE Fail(r) BY <1>7 DEF Fail, Over, NoRequest, Sent, Accepted
<1> QED BY <1>1, <1>2, <1>3, <1>4, <1>5, <1>6, <1>7 DEF Submission

LEMMA TypeIntake ==
  ASSUME TypeInv, NEW i \in Investigations, Intake(i)
  PROVE  TypeInv'
<1> USE DEF TypeInv, Underway, outside, database, Sent
<1>1. CASE Begin(i) BY <1>1 DEF Begin, Accepted
<1>2. CASE Miss(i) BY <1>2 DEF Miss, Accepted
<1>3. CASE WithoutArtifact(i) BY <1>3 DEF WithoutArtifact, Accepted
<1>4. CASE End(i)
  <2>1. stored' \subseteq Contents BY <1>4, StandInIsContent DEF End
  <2>2. Status(i) \in {"created", "running", "ended", "deleted"} BY DEF Status
  <2> QED BY <1>4, <2>1, <2>2 DEF End, SetStatus, Accepted
<1>5. ASSUME NEW s \in StandIns(i), StandIn(i, s) PROVE TypeInv'
  <2>1. s.content \in Contents BY StandInIsContent
  <2> QED BY <1>5, <2>1 DEF StandIn, Accepted
<1> QED BY <1>1, <1>2, <1>3, <1>4, <1>5 DEF Intake

LEMMA TypeRestart == TypeInv /\ Restart => TypeInv'
<1> SUFFICES ASSUME TypeInv, Restart PROVE TypeInv'
  OBVIOUS
<1>1. staging' \subseteq Requests /\ stored' \subseteq Contents
  <2>1. ASSUME NEW r \in InFlight, Left(r) PROVE staging' \subseteq Requests /\ stored' \subseteq Contents
    BY <2>1, AcceptedIsContent DEF TypeInv, Underway, InFlight, Left, Complete, Sent
  <2> QED BY <2>1 DEF Restart, TypeInv
<1>2. \A r \in Requests : request'[r].pc \notin Underway
  BY DEF Restart, TypeInv, InFlight, NoRequest, Underway
<1> QED BY SMTT(60), <1>1, <1>2
     DEF Restart, TypeInv, InFlight, NoRequest, Underway, Status, Sent

\* One step further, with whatever was copied.
LEMMA Advancing ==
  ASSUME NEW fields \in Backups, fields.at \in 1..4, Advance(fields)
  PROVE  /\ backup' \in Backups
         /\ backup'.at = fields.at + 1 /\ backup'.pc = fields.pc
         /\ backup'.rows = fields.rows /\ backup'.tree = fields.tree
BY DEF Advance, Backups

LEMMA StepsInOrder ==
  ASSUME backup \in Backups
  PROVE  /\ Due("database") => backup.at = 1
         /\ Due("tree") => backup.at = 2
         /\ Due("list") => backup.at = 3
         /\ Due("copy") => backup.at = 4
         /\ Due("verify") => backup.at = 5
BY DEF Due, Steps, Backups

\* What each step of a backup makes of it, the others being left alone.
LEMMA SnapshotTaken ==
  ASSUME TypeInv, Snapshot
  PROVE  /\ backup' \in Backups
         /\ backup'.at = 2 /\ backup'.pc = "writing"
         /\ \A d \in backup'.rows : \E a \in artifacts : d.sha256 = a.sha256
<1> DEFINE rows == {[sha256 |-> a.sha256, kept |-> investigations[a.investigation].kept] :
                      a \in artifacts}
           fields == [backup EXCEPT !.rows = rows]
<1>1. backup \in Backups /\ backup.at = 1 /\ backup.pc = "writing"
  BY StepsInOrder DEF TypeInv, Snapshot, Due
<1>2. rows \in SUBSET Digest BY DEF TypeInv, Digest
<1>3. Advance(fields) BY DEF Snapshot
<1>4. \A d \in rows : \E a \in artifacts : d.sha256 = a.sha256 OBVIOUS
<1> HIDE DEF rows
<1>5. fields \in Backups /\ fields.at = 1 /\ fields.pc = "writing" /\ fields.rows = rows
  BY <1>1, <1>2 DEF Backups
<1> HIDE DEF fields
<1> QED BY <1>3, <1>4, <1>5, Advancing

LEMMA TreeCopied ==
  ASSUME TypeInv, CopyTree
  PROVE  /\ backup' \in Backups
         /\ backup'.at = 3 /\ backup'.pc = "writing"
         /\ backup'.rows = backup.rows /\ backup'.tree = stored
<1> DEFINE fields == [backup EXCEPT !.tree = stored]
<1>1. backup \in Backups /\ backup.at = 2 /\ backup.pc = "writing"
  BY StepsInOrder DEF TypeInv, CopyTree, Due
<1>2. Advance(fields) BY DEF CopyTree
<1>3. /\ fields \in Backups /\ fields.at = 2 /\ fields.pc = "writing"
      /\ fields.rows = backup.rows /\ fields.tree = stored
  BY <1>1 DEF Backups, TypeInv
<1> HIDE DEF fields
<1> QED BY <1>2, <1>3, Advancing

\* Neither step of the staging directory changes what was copied before.
LEMMA StagingCopied ==
  ASSUME TypeInv, ListStaging \/ CopyStaging
  PROVE  /\ backup' \in Backups /\ backup'.pc \in {"writing", "refused"}
         /\ \/ backup'.rows = backup.rows /\ backup'.tree = backup.tree
               /\ backup.at > 2 /\ backup'.at > 2
            \/ backup' = [NoBackup EXCEPT !.pc = "refused"]
<1> DEFINE listing == [backup EXCEPT !.listed = staging]
           copying == [backup EXCEPT !.listed = {}]
<1>1. backup \in Backups /\ backup.at \in 3..4 /\ backup.pc = "writing"
  BY StepsInOrder DEF TypeInv, ListStaging, CopyStaging, Due
<1>2. \/ Advance(listing) \/ Advance(copying)
      \/ backup' = [NoBackup EXCEPT !.pc = "refused"]
  BY DEF ListStaging, CopyStaging
<1>3. [NoBackup EXCEPT !.pc = "refused"] \in Backups
      /\ [NoBackup EXCEPT !.pc = "refused"].pc = "refused"
  BY DEF NoBackup, Backups
<1>4. \A fields \in {listing, copying} :
        /\ fields \in Backups /\ fields.at = backup.at /\ fields.pc = "writing"
        /\ fields.rows = backup.rows /\ fields.tree = backup.tree
  BY <1>1 DEF Backups, TypeInv
<1> HIDE DEF listing, copying
<1>5. ASSUME NEW fields \in {listing, copying}, Advance(fields)
      PROVE  /\ backup' \in Backups /\ backup'.pc = "writing"
             /\ backup'.rows = backup.rows /\ backup'.tree = backup.tree
             /\ backup'.at > 2
  BY <1>1, <1>4, <1>5, Advancing
<1>6. CASE Advance(listing) BY <1>1, <1>5, <1>6
<1>7. CASE Advance(copying) BY <1>1, <1>5, <1>7
<1>8. CASE backup' = [NoBackup EXCEPT !.pc = "refused"] BY <1>3, <1>8
<1> QED BY <1>2, <1>6, <1>7, <1>8

LEMMA TypeBackup == TypeInv /\ (Backup \/ Restore) => TypeInv'
<1> SUFFICES ASSUME TypeInv, Backup \/ Restore PROVE TypeInv'
  OBVIOUS
<1>1. UNCHANGED <<database, staging, stored, request, intake>>
  BY DEF Backup, Snapshot, CopyTree, ListStaging, CopyStaging, Verify, Restore,
         Restored, RestoreFails, Server
<1>2. backup' \in Backups
  <2>1. CASE Verify BY <2>1 DEF Verify, NoBackup, TypeInv, Backups
  <2>2. CASE Restore BY <2>2 DEF Restore, Restored, RestoreFails, TypeInv
  <2> QED BY <2>1, <2>2, SnapshotTaken, TreeCopied, StagingCopied DEF Backup
<1>3. restore' \in [pc : {"idle", "done", "failed"}, rows : SUBSET Contents,
                    tree : SUBSET Contents]
  BY DEF Backup, Snapshot, CopyTree, ListStaging, CopyStaging, Verify, Restore,
         Restored, RestoreFails, NoRestore, TypeInv, Backups, Digest
<1> QED BY <1>1, <1>2, <1>3 DEF TypeInv, database, Sent

LEMMA TypeNext == TypeInv /\ [Next]_vars => TypeInv'
<1> SUFFICES ASSUME TypeInv, [Next]_vars PROVE TypeInv'
  OBVIOUS
<1>1. CASE UNCHANGED vars BY <1>1 DEF vars, TypeInv, Sent
<1> QED BY <1>1, TypeRow, TypeSubmission, TypeIntake, TypeRestart, TypeBackup
     DEF Next, Row

\* The types hold of every reachable state, and a submission that is under way
\* has an investigation and something that was sent.
THEOREM TypeCorrect == Spec => []TypeInv
BY TypeInit, TypeNext, PTL DEF Spec

----------------------------------------------------------------------------
(* Bytes.                                                                  *)

\* No step of the server takes a file or an audit row away: a purge leaves the
\* bytes, which is why those of another investigation are safe from it.
LEMMA NothingIsUnkept ==
  ASSUME TypeInv, [Next]_vars
  PROVE  stored \subseteq stored' /\ audited \subseteq audited'
<1>1. CASE UNCHANGED vars BY <1>1 DEF vars
<1>2. ASSUME NEW i \in Investigations, Row(i)
      PROVE  stored \subseteq stored' /\ audited \subseteq audited'
  BY <1>2 DEF Row, Update, Claim, Delete, Intake, Begin, Miss, WithoutArtifact, End,
     StandIn, outside, database
<1>3. ASSUME NEW r \in Requests, Submission(r)
      PROVE  stored \subseteq stored' /\ audited \subseteq audited'
  BY <1>3 DEF Submission, Arrive, Stage, Keep, Reject, Cancel, Record, Fail, outside,
     database
<1>4. CASE Restart BY <1>4 DEF Restart, Left
<1>5. CASE Backup \/ Restore
  BY <1>5 DEF Backup, Snapshot, CopyTree, ListStaging, CopyStaging, Verify, Restore,
     Restored, RestoreFails, Server, database
<1> QED BY <1>1, <1>2, <1>3, <1>4, <1>5 DEF Next

\* What makes RowsHaveTheirBytes inductive: between the move into place and the
\* commit, the bytes are already there.
BytesInv ==
  /\ RowsHaveTheirBytes
  /\ \A r \in Requests : request[r].pc = "kept" => Sent(r).content \in stored

LEMMA BytesNext == TypeInv /\ BytesInv /\ [Next]_vars => BytesInv'
<1> SUFFICES ASSUME TypeInv, BytesInv, [Next]_vars PROVE BytesInv'
  OBVIOUS
<1> DEFINE Backed(a) ==
      /\ a.sha256 \in stored'
      /\ a.by \in Requests => [action |-> "artifact.uploaded", by |-> a.by] \in audited'
<1>1. \A a \in artifacts : Backed(a)
  BY NothingIsUnkept DEF BytesInv, RowsHaveTheirBytes
<1>2. ASSUME artifacts' \subseteq artifacts, UNCHANGED request
      PROVE  BytesInv'
  BY <1>1, <1>2, NothingIsUnkept DEF BytesInv, RowsHaveTheirBytes, Sent
<1>3. CASE UNCHANGED vars BY <1>2, <1>3 DEF vars
<1>4. ASSUME NEW i \in Investigations, Row(i) PROVE BytesInv'
  <2>1. CASE Update(i) \/ Claim(i) \/ Delete(i)
    BY <1>2, <2>1 DEF Update, Claim, Delete
  <2>2. CASE Begin(i) \/ Miss(i) \/ WithoutArtifact(i) \/ End(i)
    BY <1>2, <2>2 DEF Begin, Miss, WithoutArtifact, End, database
  <2>3. ASSUME NEW s \in StandIns(i), StandIn(i, s) PROVE BytesInv'
    <3>1. \A a \in artifacts' \ artifacts : a.by = "runner" /\ a.sha256 = s.content
      BY <2>3 DEF StandIn
    <3>2. s.content \in stored' /\ UNCHANGED request BY <2>3 DEF StandIn
    <3>3. \A a \in artifacts' : Backed(a) BY <1>1, <3>1, <3>2, ConstantsAssumption
    <3> QED BY <3>2, <3>3, NothingIsUnkept DEF BytesInv, RowsHaveTheirBytes, Sent
  <2> QED BY <1>4, <2>1, <2>2, <2>3 DEF Row, Intake
<1>5. ASSUME NEW r \in Requests, Submission(r) PROVE BytesInv'
  <2>1. ASSUME UNCHANGED artifacts, request'[r].pc # "kept",
               \A q \in Requests : q # r => request'[q] = request[q]
        PROVE  BytesInv'
    BY <1>1, <2>1, NothingIsUnkept DEF BytesInv, RowsHaveTheirBytes, Sent
  <2>2. ASSUME NEW i \in Investigations, NEW s \in Submissions, Arrive(r, i, s)
        PROVE  BytesInv'
    BY <2>1, <2>2 DEF Arrive, database, TypeInv
  <2>3. CASE Stage(r) BY <2>1, <2>3 DEF Stage, Step, database, TypeInv
  <2>4. CASE Reject(r) \/ Cancel(r) \/ Fail(r)
    BY <2>1, <2>4 DEF Reject, Cancel, Fail, Over, NoRequest, database, TypeInv
  <2>5. CASE Keep(r)
    <3>1. Sent(r)' = Sent(r) /\ \A q \in Requests : q # r => request'[q] = request[q]
      BY <2>5 DEF Keep, Step, TypeInv, Sent
    <3>2. Sent(r).content \in stored' /\ UNCHANGED artifacts
      BY <2>5 DEF Keep, database
    <3> QED BY <1>1, <3>1, <3>2, NothingIsUnkept DEF BytesInv, RowsHaveTheirBytes, Sent
  <2>6. CASE Record(r)
    <3>1. \A a \in artifacts' \ artifacts : a.by = r /\ a.sha256 = Sent(r).content
      BY <2>6 DEF Record
    <3>2. /\ Sent(r).content \in stored'
          /\ [action |-> "artifact.uploaded", by |-> r] \in audited'
      BY <2>6, NothingIsUnkept DEF Record, BytesInv
    <3>3. \A a \in artifacts' : Backed(a) BY <1>1, <3>1, <3>2
    <3>4. request'[r].pc # "kept" /\ \A q \in Requests : q # r => request'[q] = request[q]
      BY <2>6 DEF Record, Over, NoRequest, TypeInv
    <3> QED BY <3>3, <3>4, NothingIsUnkept DEF BytesInv, RowsHaveTheirBytes, Sent
  <2> QED BY <1>5, <2>2, <2>3, <2>4, <2>5, <2>6 DEF Submission
<1>6. CASE Restart
  <2>1. \A r \in Requests : request'[r].pc # "kept"
    BY <1>6 DEF Restart, InFlight, NoRequest
  <2> QED BY <1>1, <1>6, <2>1 DEF Restart, BytesInv, RowsHaveTheirBytes
<1>7. CASE Backup \/ Restore
  BY <1>2, <1>7 DEF Backup, Snapshot, CopyTree, ListStaging, CopyStaging, Verify,
     Restore, Restored, RestoreFails, Server, database
<1> QED BY <1>3, <1>4, <1>5, <1>6, <1>7 DEF Next

LEMMA BytesInit == Init => BytesInv
BY DEF Init, BytesInv, RowsHaveTheirBytes, NoRequest

\* Every artifact has its bytes and every submitted one its audit row, however
\* many submissions of the same content are recorded, refused, cancelled or purged.
THEOREM BytesAreKept == Spec => []RowsHaveTheirBytes
<1>1. BytesInv => RowsHaveTheirBytes BY DEF BytesInv
<1> QED BY <1>1, BytesInit, BytesNext, TypeCorrect, PTL DEF Spec

----------------------------------------------------------------------------
(* Staging files.                                                          *)

LEMMA SweptNext == TypeInv /\ StagingIsSwept /\ [Next]_vars => StagingIsSwept'
<1> SUFFICES ASSUME TypeInv, StagingIsSwept, [Next]_vars PROVE StagingIsSwept'
  OBVIOUS
<1>1. ASSUME UNCHANGED <<staging, request>> PROVE StagingIsSwept'
  BY <1>1 DEF StagingIsSwept
<1>2. CASE UNCHANGED vars BY <1>1, <1>2 DEF vars
<1>3. ASSUME NEW i \in Investigations, Row(i) PROVE StagingIsSwept'
  BY <1>1, <1>3 DEF Row, Update, Claim, Delete, Intake, Begin, Miss, WithoutArtifact,
     End, StandIn
<1>4. ASSUME NEW r \in Requests, Submission(r) PROVE StagingIsSwept'
  <2>1. \A q \in Requests : q # r => request'[q] = request[q]
    BY <1>4 DEF Submission, Arrive, Stage, Keep, Reject, Cancel, Record, Fail, Step,
       Over, TypeInv
  <2>2. ASSUME r \notin staging', staging' \subseteq staging PROVE StagingIsSwept'
    BY <2>1, <2>2 DEF StagingIsSwept, TypeInv
  <2>3. CASE Stage(r) BY <2>1, <2>3 DEF Stage, Step, StagingIsSwept, TypeInv
  <2>4. CASE Keep(r) \/ Reject(r) \/ Cancel(r)
    BY <2>2, <2>4 DEF Keep, Reject, Cancel
  <2>5. ASSUME UNCHANGED staging, request[r].pc \in {"idle", "kept"}
        PROVE  StagingIsSwept'
    BY <2>2, <2>5 DEF StagingIsSwept
  <2>6. CASE Record(r) \/ Fail(r) BY <2>5, <2>6 DEF Record, Fail
  <2>7. ASSUME NEW i \in Investigations, NEW s \in Submissions, Arrive(r, i, s)
        PROVE  StagingIsSwept'
    BY <2>5, <2>7 DEF Arrive
  <2> QED BY <1>4, <2>3, <2>4, <2>6, <2>7 DEF Submission
<1>5. CASE Restart
  <2>1. \A r \in InFlight : request'[r].pc = "killed"
    BY <1>5 DEF Restart, InFlight, NoRequest
  <2>2. \A r \in Requests \ InFlight : request'[r] = request[r]
    BY <1>5 DEF Restart
  <2>3. staging' \subseteq staging \union InFlight BY <1>5 DEF Restart, Left
  <2>4. \A r \in staging : r \in InFlight \/ request[r].pc = "killed"
    BY DEF StagingIsSwept, InFlight, TypeInv
  <2> QED BY <2>1, <2>2, <2>3, <2>4 DEF StagingIsSwept, TypeInv, InFlight
<1>6. CASE Backup \/ Restore
  BY <1>1, <1>6 DEF Backup, Snapshot, CopyTree, ListStaging, CopyStaging, Verify,
     Restore, Restored, RestoreFails, Server
<1> QED BY <1>2, <1>3, <1>4, <1>5, <1>6 DEF Next

\* A staging file is that of an upload under way or of one a kill cut off; no
\* refusal, error or cancellation at any await leaves one.
THEOREM NoStagingFileIsLeft == Spec => []StagingIsSwept
<1>1. Init => StagingIsSwept BY DEF Init, StagingIsSwept
<1> QED BY <1>1, SweptNext, TypeCorrect, PTL DEF Spec

----------------------------------------------------------------------------
(* Kinds.                                                                  *)

\* By whatever way it came, what was accepted is not recorded as a text unless
\* its bytes are none of an executable.
LEMMA AcceptedKindIsHonest ==
  ASSUME NEW s \in Submissions, Accepted(s), KindOf(s) \in Texts
  PROVE  Header[s.content].magic # "binary_file"
BY NoTextOfExecutables DEF Accepted, KindOf

LEMMA HonestNext == TypeInv /\ KindsAreHonest /\ [Next]_vars => KindsAreHonest'
<1> SUFFICES ASSUME TypeInv, KindsAreHonest, [Next]_vars,
                    NEW a \in artifacts' \ artifacts, a.kind \in Texts
             PROVE  Header[a.sha256].magic # "binary_file"
  BY DEF KindsAreHonest
<1>1. \/ \E r \in Requests : Record(r)
      \/ \E i \in Investigations : \E s \in StandIns(i) : StandIn(i, s)
  BY DEF Next, vars, Row, Update, Claim, Delete, Intake, Begin, Miss, WithoutArtifact,
     End, Submission, Arrive, Stage, Keep, Reject, Cancel, Fail, Restart, Backup,
     Snapshot, CopyTree, ListStaging, CopyStaging, Verify, Restore, Restored,
     RestoreFails, Server, database
<1>2. ASSUME NEW r \in Requests, Record(r)
      PROVE  Header[a.sha256].magic # "binary_file"
  <2>1. Sent(r) \in Submissions /\ Accepted(Sent(r))
    BY <1>2 DEF Record, TypeInv, Underway
  <2>2. a.sha256 = Sent(r).content /\ a.kind = KindOf(Sent(r)) BY <1>2 DEF Record
  <2> QED BY <2>1, <2>2, AcceptedKindIsHonest
<1>3. ASSUME NEW i \in Investigations, NEW s \in StandIns(i), StandIn(i, s)
      PROVE  Header[a.sha256].magic # "binary_file"
  <2>1. a.sha256 = s.content /\ a.kind = Classified(s.content, s.name, s.declared)
    BY <1>3 DEF StandIn
  <2> QED BY <2>1, StandInIsContent, NoTextOfExecutables
<1> QED BY <1>1, <1>2, <1>3

\* Whatever clients declare and however the bytes came, no artifact that is called
\* a log or a text is an executable.
THEOREM KindsStayHonest == Spec => []KindsAreHonest
<1>1. Init => KindsAreHonest BY DEF Init, KindsAreHonest
<1> QED BY <1>1, HonestNext, TypeCorrect, PTL DEF Spec

----------------------------------------------------------------------------
(* Backups.                                                                *)

\* What is copied first is already in the tree that is copied next; it does not
\* matter what the policy says of it, nor what was purged in between.
BackupInv ==
  /\ \A d \in backup.rows : d.sha256 \in stored
  /\ backup.at > 2 \/ backup.pc = "accepted" =>
        \A d \in backup.rows : d.sha256 \in backup.tree
  /\ restore.pc = "done" => restore.rows \subseteq restore.tree

LEMMA BackupInit == Init => BackupInv
BY DEF Init, BackupInv, NoBackup, NoRestore

LEMMA BackupNext ==
  TypeInv /\ RowsHaveTheirBytes /\ BackupInv /\ [Next]_vars => BackupInv'
<1> SUFFICES ASSUME TypeInv, RowsHaveTheirBytes, BackupInv, [Next]_vars
             PROVE  BackupInv'
  OBVIOUS
<1>1. ASSUME UNCHANGED <<backup, restore>> PROVE BackupInv'
  BY <1>1, NothingIsUnkept DEF BackupInv
<1>2. \/ UNCHANGED <<backup, restore>>
      \/ (Backup \/ Restore) /\ UNCHANGED stored
  BY DEF Next, vars, Row, Update, Claim, Delete, Intake, Begin, Miss, WithoutArtifact,
     End, StandIn, Submission, Arrive, Stage, Keep, Reject, Cancel, Record, Fail,
     Restart, Backup, Snapshot, CopyTree, ListStaging, CopyStaging, Verify, Restore,
     Restored, RestoreFails, Server, outside
<1>3. CASE Backup /\ UNCHANGED stored
  <2>1. UNCHANGED restore
    BY <1>3 DEF Backup, Snapshot, CopyTree, ListStaging, CopyStaging, Verify
  <2>2. CASE Snapshot
    <3>1. /\ backup'.at = 2 /\ backup'.pc = "writing"
          /\ \A d \in backup'.rows : \E a \in artifacts : d.sha256 = a.sha256
      BY <2>2, SnapshotTaken
    <3>2. \A d \in backup'.rows : d.sha256 \in stored'
      BY <1>3, <3>1 DEF RowsHaveTheirBytes
    <3>3. ~(backup'.at > 2 \/ backup'.pc = "accepted") BY <3>1
    <3> QED BY <2>1, <3>2, <3>3 DEF BackupInv
  <2>3. CASE CopyTree BY <1>3, <2>1, <2>3, TreeCopied DEF BackupInv
  <2>4. CASE ListStaging \/ CopyStaging
    BY <1>3, <2>1, <2>4, StagingCopied DEF BackupInv, NoBackup
  <2>5. CASE Verify
    <3>1. backup.at = 5 BY <2>5, StepsInOrder DEF Verify, TypeInv
    <3>2. \/ backup' = [backup EXCEPT !.pc = "accepted"]
          \/ backup' = [NoBackup EXCEPT !.pc = "refused"]
      BY <2>5 DEF Verify
    <3>3. CASE backup' = [backup EXCEPT !.pc = "accepted"]
      BY <1>3, <2>1, <3>1, <3>3 DEF BackupInv, TypeInv, Backups
    <3>4. CASE backup' = [NoBackup EXCEPT !.pc = "refused"]
      BY <2>1, <3>4 DEF BackupInv, NoBackup
    <3> QED BY <3>2, <3>3, <3>4
  <2> QED BY <1>3, <2>2, <2>3, <2>4, <2>5 DEF Backup
<1>4. CASE Restore /\ UNCHANGED stored
  <2>1. UNCHANGED backup BY <1>4 DEF Restore, Restored, RestoreFails
  <2>2. CASE Restored BY <1>4, <2>1, <2>2 DEF Restored, BackupInv
  <2>3. CASE RestoreFails BY <1>4, <2>1, <2>3 DEF RestoreFails, NoRestore, BackupInv
  <2> QED BY <1>4, <2>2, <2>3 DEF Restore
<1> QED BY <1>1, <1>2, <1>3, <1>4

\* A backup that was accepted, and a restore of it, has the bytes of every artifact
\* its database names, whatever the server did while it was written: the database
\* comes first, and files are only ever added.
THEOREM BackupsAreWhole == Spec => []BackupsRestore
<1>1. BackupInv => BackupsRestore BY DEF BackupInv, BackupsRestore
<1> QED BY <1>1, BackupInit, BackupNext, BytesAreKept, TypeCorrect, PTL DEF Spec
=============================================================================
