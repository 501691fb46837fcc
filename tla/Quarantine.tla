----------------------------- MODULE Quarantine -----------------------------
(***************************************************************************)
(* Artifacts and their bytes.  An artifact is a row of the database that   *)
(* names a file of the quarantine directory by the digest of its content;  *)
(* the file comes first and the row later, in another system, and the same *)
(* content of two submissions is one file.                                 *)
(*                                                                         *)
(* Modelled: core/security/files.py (classification, store_stream and      *)
(* store_bytes), the three handlers that submit an artifact, the creation, *)
(* update and deletion of an investigation as far as artifacts go, the     *)
(* intake of a missing artifact in OrchestratorAgent._begin, the audit     *)
(* rows of submissions, and core/backup.py, which runs in a process of its *)
(* own while all of this goes on.                                          *)
(*                                                                         *)
(* A content is a model value: its name is its digest, and Header[c] is    *)
(* what the code looks at in its bytes.                                    *)
(***************************************************************************)
EXTENDS Naturals, FiniteSets

CONSTANTS
    Investigations,     \* those create_investigation has inserted
    Requests,           \* requests that submit an artifact
    Contents,           \* byte strings, by their SHA-256
    Header,             \* Contents -> what detect_magic_bytes sees, and the size
    Submissions,        \* [via, content, name, declared] a client may send
    Target,             \* Investigations -> [url, log, answer, value] of its target
    MaxRestarts,        \* kills of the server
    None

ASSUME ConstantsAssumption ==
    /\ None \notin Contents /\ "runner" \notin Requests
    /\ \A s \in Submissions :
          s.content \in Contents \union {None} /\ s.via \in {"file", "url", "text"}
    /\ \A i \in Investigations :
          {Target[i].answer, Target[i].value} \subseteq Contents \union {None}
    /\ MaxRestarts \in Nat

VARIABLES
    investigations,     \* [status, kept] of each investigation's row
    artifacts,          \* rows of the table artifacts
    audited,            \* rows of audit_log about submissions
    staging,            \* requests that have a file under _staging
    stored,             \* contents that have a file of their own
    request,            \* the submissions on their way
    intake,             \* where the first transaction of an execution is
    backup,             \* one `acip backup` and the directory it writes
    restore,            \* one `acip restore` of that directory
    restarts

vars == <<investigations, artifacts, audited, staging, stored, request, intake,
          backup, restore, restarts>>
database == <<investigations, artifacts, audited>>
outside == <<backup, restore, restarts>>

-----------------------------------------------------------------------------
(* What a content is taken for *)

Captures == {"pcap", "pcap_ng"}
Texts == {"linux_auth_log", "sys_log", "web_server_log", "generic_log", "generic_text"}

\* detect_magic_bytes: the magic number first, then whether it reads as text
Detected(content) ==
    LET header == Header[content] IN
    IF header.magic # "none" THEN header.magic
    ELSE CASE ~header.text -> "undetected"
           [] header.text /\ "auth" \in header.words -> "linux_auth_log"
           [] header.text /\ header.words \intersect {"auth", "web"} = {"web"} ->
                "web_server_log"
           [] OTHER -> "generic_text"

\* the extension of the file name, asked only when the bytes say nothing
Hinted(name) ==
    CASE name \in {"pcap", "cap"} -> "pcap"
      [] name = "pcapng" -> "pcap_ng"
      [] name \in {"log", "txt"} -> "generic_text"
      [] OTHER -> "unknown"

\* Slip: what is declared as text is not looked at
ClassifiedByWord(content, name, declared) ==
    IF declared = "unknown" THEN Detected(content) ELSE declared

\* detect_artifact_kind, "rejected" where it raises
Classified(content, name, declared) ==
    LET detected == Detected(content) IN
    CASE declared \in Captures ->
            IF detected \in Captures THEN declared ELSE "rejected"
      [] declared \in Texts ->
            IF detected = "binary_file" THEN "rejected" ELSE declared
      [] declared = "unknown" ->
            IF detected = "undetected" THEN Hinted(name) ELSE detected
      [] OTHER -> declared

\* store_stream and store_bytes accept it: neither empty nor too large, nor misnamed
Accepted(s) ==
    /\ s.content # None
    /\ Header[s.content].size = "fits"
    /\ Classified(s.content, s.name, s.declared) # "rejected"

\* the kind the handler records: only an upload takes the detected one
KindOf(s) ==
    IF s.via = "file" /\ s.declared = "unknown"
    THEN Classified(s.content, s.name, s.declared)
    ELSE s.declared

-----------------------------------------------------------------------------
NoRequest == [pc |-> "idle", investigation |-> None, sent |-> None]
NoBackup == [pc |-> "writing", at |-> 1, rows |-> {}, tree |-> {}, listed |-> {}]
NoRestore == [pc |-> "idle", rows |-> {}, tree |-> {}]

Init ==
    /\ investigations =
          [i \in Investigations |-> [status |-> "created", kept |-> TRUE]]
    /\ artifacts = {} /\ audited = {}
    /\ staging = {} /\ stored = {}
    /\ request = [r \in Requests |-> NoRequest]
    /\ intake = [i \in Investigations |-> "idle"]
    /\ backup = NoBackup /\ restore = NoRestore
    /\ restarts = 0

Status(i) == investigations[i].status
Present(i) == Status(i) # "deleted"
RowsOf(i) == {a \in artifacts : a.investigation = i}
SetStatus(i, status) == investigations' = [investigations EXCEPT ![i].status = status]

(* The row of an investigation *)

\* PATCH: the investigation's retention state, at any time
Update(i) ==
    /\ Present(i)
    /\ investigations' = [investigations EXCEPT ![i].kept = ~@]
    /\ UNCHANGED <<artifacts, audited, staging, stored, request, intake, outside>>

\* start or retry claims the row and its task begins to run
Claim(i) ==
    /\ Status(i) \in {"created", "ended"}
    /\ SetStatus(i, "running")
    /\ intake' = [intake EXCEPT ![i] = "begins"]
    /\ UNCHANGED <<artifacts, audited, staging, stored, request, outside>>

\* Slip: a purge takes the bytes with it, shared or not
DeleteBytes(i) ==
    /\ Present(i)
    /\ investigations' = [investigations EXCEPT ![i] = [status |-> "deleted", kept |-> TRUE]]
    /\ artifacts' = artifacts \ RowsOf(i)
    /\ stored' = stored \ {a.sha256 : a \in RowsOf(i)}
    /\ UNCHANGED <<audited, staging, request, intake, outside>>

\* DELETE: the artifacts' rows go by cascade, the bytes and the trail stay
Delete(i) ==
    /\ Present(i)
    /\ investigations' = [investigations EXCEPT ![i] = [status |-> "deleted", kept |-> TRUE]]
    /\ artifacts' = artifacts \ RowsOf(i)
    /\ UNCHANGED <<audited, staging, stored, request, intake, outside>>

-----------------------------------------------------------------------------
(* A submission *)

Sent(r) == request[r].sent
Step(r, pc) == request' = [request EXCEPT ![r].pc = pc]
Over(r, how) == request' = [request EXCEPT ![r] = [NoRequest EXCEPT !.pc = how]]

\* the row is loaded and its status compared once and for all
Arrive(r, i, s) ==
    /\ request[r].pc = "idle" /\ Status(i) = "created"
    /\ request' = [request EXCEPT ![r] =
          [pc |-> "admitted", investigation |-> i, sent |-> s]]
    /\ UNCHANGED <<database, staging, stored, intake, outside>>

\* an upload is written to a file of its own while its chunks come in
Stage(r) ==
    /\ request[r].pc = "admitted" /\ Sent(r).via = "file"
    /\ staging' = staging \union {r}
    /\ Step(r, "staged")
    /\ UNCHANGED <<database, stored, intake, outside>>

\* a file is ready where its chunks are in, anything else in one go: a fetched
\* answer and a pasted text pass through _staging without an await
Complete(r) ==
    \/ request[r].pc = "staged"
    \/ request[r].pc = "admitted" /\ Sent(r).via # "file"

\* the rest of store_stream, which awaits nothing: known bytes stay where they are
Keep(r) ==
    /\ Complete(r) /\ Accepted(Sent(r))
    /\ staging' = staging \ {r}
    /\ stored' = stored \union {Sent(r).content}
    /\ Step(r, "kept")
    /\ UNCHANGED <<database, intake, outside>>

\* refused content, a failed fetch, a failing disk: the staging file goes, and the
\* audit row is written in the session that the raise rolls back
Reject(r) ==
    /\ Complete(r)
    /\ staging' = staging \ {r}
    /\ Over(r, "over")
    /\ UNCHANGED <<database, stored, intake, outside>>

\* Slip: only errors clean up, which a cancellation is not
CancelUncaught(r) ==
    /\ request[r].pc \in {"admitted", "staged"}
    /\ Over(r, "over")
    /\ UNCHANGED <<database, staging, stored, intake, outside>>

\* the request is cancelled at an await, of which an upload has many
Cancel(r) ==
    /\ request[r].pc \in {"admitted", "staged"}
    /\ staging' = staging \ {r}
    /\ Over(r, "over")
    /\ UNCHANGED <<database, stored, intake, outside>>

\* the artifact and its audit row, in one transaction; the status is not asked again
Record(r) ==
    LET i == request[r].investigation IN
    /\ request[r].pc = "kept" /\ Present(i)
    /\ artifacts' = artifacts \union
          {[investigation |-> i, by |-> r, sha256 |-> Sent(r).content, kind |-> KindOf(Sent(r))]}
    /\ audited' = audited \union {[action |-> "artifact.uploaded", by |-> r]}
    /\ Over(r, "answered")
    /\ UNCHANGED <<investigations, staging, stored, intake, outside>>

\* the investigation is gone, or the commit fails: the bytes stay without a row
Fail(r) ==
    /\ request[r].pc = "kept"
    /\ Over(r, "over")
    /\ UNCHANGED <<database, staging, stored, intake, outside>>

Submission(r) ==
    \/ \E i \in Investigations, s \in Submissions : Arrive(r, i, s)
    \/ Stage(r) \/ Keep(r) \/ Reject(r) \/ Cancel(r) \/ Record(r) \/ Fail(r)

-----------------------------------------------------------------------------
(* The first transaction of an execution, as far as it reads and adds artifacts *)

\* there are artifacts, or the fallback is due
Begin(i) ==
    /\ intake[i] = "begins" /\ Status(i) = "running" /\ RowsOf(i) # {}
    /\ intake' = [intake EXCEPT ![i] = "idle"]
    /\ UNCHANGED <<database, staging, stored, request, outside>>

\* none: the target is to stand in, and to fetch it takes time
Miss(i) ==
    /\ intake[i] = "begins" /\ Status(i) = "running" /\ RowsOf(i) = {}
    /\ intake' = [intake EXCEPT ![i] = "intake"]
    /\ UNCHANGED <<database, staging, stored, request, outside>>

\* the answer of a URL, else the target's own words, in the kind each is given
StandIns(i) ==
    LET target == Target[i]
        answer == [content |-> target.answer, name |-> "bin", declared |-> "url_response"]
        words == [content |-> target.value, name |-> "txt",
                  declared |-> IF target.log THEN "linux_auth_log" ELSE "generic_text"]
    IN  {s \in {words} \union (IF target.url THEN {answer} ELSE {}) : Accepted(s)}

\* stored, recorded and all artifacts loaded again, a late upload's among them
StandIn(i, s) ==
    LET row == [investigation |-> i, by |-> "runner", sha256 |-> s.content,
                kind |-> Classified(s.content, s.name, s.declared)] IN
    /\ intake[i] = "intake" /\ Status(i) = "running"
    /\ stored' = stored \union {s.content}
    /\ artifacts' = artifacts \union {row}
    /\ intake' = [intake EXCEPT ![i] = "idle"]
    /\ UNCHANGED <<investigations, audited, staging, request, outside>>

\* nothing could stand in, which only a log line says
WithoutArtifact(i) ==
    /\ intake[i] = "intake" /\ Status(i) = "running"
    /\ intake' = [intake EXCEPT ![i] = "idle"]
    /\ UNCHANGED <<database, staging, stored, request, outside>>

\* the execution ends, or the transaction of its intake fails and the bytes stay
End(i) ==
    /\ Status(i) = "running" \/ intake[i] # "idle"
    /\ stored' \in {stored} \union
          {stored \union {s.content} :
              s \in IF intake[i] = "intake" THEN StandIns(i) ELSE {}}
    /\ SetStatus(i, IF Status(i) = "running" THEN "ended" ELSE Status(i))
    /\ intake' = [intake EXCEPT ![i] = "idle"]
    /\ UNCHANGED <<artifacts, audited, staging, request, outside>>

Intake(i) ==
    \/ Begin(i) \/ Miss(i) \/ WithoutArtifact(i) \/ End(i)
    \/ \E s \in StandIns(i) : StandIn(i, s)

-----------------------------------------------------------------------------
(* The server is killed and started again *)

InFlight == {r \in Requests : request[r].pc \in {"admitted", "staged", "kept"}}

\* a kill runs no handler: what is staged stays, and a submission that is passing
\* through store_stream leaves its staging file or its bytes behind
Left(r) ==
    /\ Complete(r)
    /\ \/ staging' = staging \union {r} /\ UNCHANGED stored
       \/ /\ Accepted(Sent(r))
          /\ staging' = staging \ {r} /\ stored' = stored \union {Sent(r).content}

Restart ==
    /\ restarts < MaxRestarts
    /\ restarts' = restarts + 1
    /\ UNCHANGED <<staging, stored>> \/ \E r \in InFlight : Left(r)
    /\ request' = [r \in Requests |->
          IF r \in InFlight THEN [NoRequest EXCEPT !.pc = "killed"] ELSE request[r]]
    /\ investigations' = [i \in Investigations |->
          IF Status(i) = "running" THEN [investigations[i] EXCEPT !.status = "ended"]
          ELSE investigations[i]]
    /\ intake' = [i \in Investigations |-> "idle"]
    /\ UNCHANGED <<artifacts, audited, backup, restore>>

-----------------------------------------------------------------------------
(* Backup and restore, by processes of the command line *)

\* Slip: the tree is copied before the rows that refer to it
StepsTreeFirst == <<"tree", "list", "copy", "database", "verify">>

\* the order of create_backup; copytree lists _staging and copies it afterwards
Steps == <<"database", "tree", "list", "copy", "verify">>
Due(step) == backup.pc = "writing" /\ Steps[backup.at] = step
Advance(fields) == backup' = [fields EXCEPT !.at = @ + 1]
Server == <<database, staging, stored, request, intake, restarts>>

Snapshot ==
    /\ Due("database")
    /\ Advance([backup EXCEPT !.rows =
          {[sha256 |-> a.sha256, kept |-> investigations[a.investigation].kept] : a \in artifacts}])
    /\ UNCHANGED <<Server, restore>>

\* finished files are never moved, so those listed are those copied
CopyTree ==
    /\ Due("tree")
    /\ Advance([backup EXCEPT !.tree = stored])
    /\ UNCHANGED <<Server, restore>>

ListStaging ==
    /\ Due("list")
    /\ Advance([backup EXCEPT !.listed = staging])
    /\ UNCHANGED <<Server, restore>>

\* a listed file that is gone when its turn comes makes copytree raise in the end
CopyStaging ==
    /\ Due("copy")
    /\ IF backup.listed \subseteq staging THEN Advance([backup EXCEPT !.listed = {}])
       ELSE backup' = [NoBackup EXCEPT !.pc = "refused"]
    /\ UNCHANGED <<Server, restore>>

\* verify_backup: bytes may be missing only where the policy no longer keeps them
Verified == \A r \in backup.rows : r.kept => r.sha256 \in backup.tree

Verify ==
    /\ Due("verify")
    /\ backup' = IF Verified THEN [backup EXCEPT !.pc = "accepted"]
                 ELSE [NoBackup EXCEPT !.pc = "refused"]
    /\ UNCHANGED <<Server, restore>>

Backup == Snapshot \/ CopyTree \/ ListStaging \/ CopyStaging \/ Verify

\* restore_backup, into empty places nobody else uses: database, tree, paths; any
\* exception on the way empties both again
Restored ==
    /\ restore.pc = "idle" /\ backup.pc = "accepted" /\ Verified
    /\ restore' = [pc |-> "done", rows |-> {r.sha256 : r \in backup.rows}, tree |-> backup.tree]
    /\ UNCHANGED <<Server, backup>>

RestoreFails ==
    /\ restore.pc = "idle" /\ backup.pc = "accepted"
    /\ restore' = [NoRestore EXCEPT !.pc = "failed"]
    /\ UNCHANGED <<Server, backup>>

Restore == Restored \/ RestoreFails

-----------------------------------------------------------------------------
Row(i) == Update(i) \/ Claim(i) \/ Delete(i) \/ Intake(i)

Next ==
    \/ \E i \in Investigations : Row(i)
    \/ \E r \in Requests : Submission(r)
    \/ Restart \/ Backup \/ Restore

Spec == Init /\ [][Next]_vars

-----------------------------------------------------------------------------
(* Every artifact of the database has its bytes in the quarantine, whoever else
   submitted, was refused or purged the same content, and every submitted one has
   its audit row.  Agents open storage_path without asking whether it is there. *)
RowsHaveTheirBytes ==
    \A a \in artifacts :
        /\ a.sha256 \in stored
        /\ a.by \in Requests => [action |-> "artifact.uploaded", by |-> a.by] \in audited

(* A file under _staging belongs to an upload that is still coming in, or to one
   that a kill cut off: refusals, errors and cancellations leave none behind. *)
StagingIsSwept ==
    \A r \in staging : request[r].pc \in {"staged", "killed"}

(* What a row calls a log or a text is no executable, for all three ways to submit,
   two of which record what the client declared, and for the stand-ins. *)
KindsAreHonest ==
    \A a \in artifacts : a.kind \in Texts => Header[a.sha256].magic # "binary_file"

(* A backup that was accepted, and what a restore makes of it, holds the bytes of
   every artifact its database names, whether or not the policy still asks for them
   and whatever was submitted, purged or updated while it was written. *)
BackupsRestore ==
    /\ backup.pc = "accepted" => \A r \in backup.rows : r.sha256 \in backup.tree
    /\ restore.pc = "done" => restore.rows \subseteq restore.tree
=============================================================================
