----------------------- MODULE InvestigationContract -----------------------
(***************************************************************************)
(* What a client that asks one thing at a time may rely on: the status of  *)
(* an investigation and whether an execution is under way.  An execution   *)
(* starts only by a claim, only when none is under way and never from      *)
(* COMPLETED; while it is under way nobody but itself moves the status off *)
(* RUNNING.  Once it is over a late cancel may still turn the result into  *)
(* HALTED, and an execution that broke off leaves a RUNNING row for the    *)
(* one who cancelled it, or for the sweep of the next start, to close.     *)
(***************************************************************************)
CONSTANT Investigations

VARIABLES
  st,      \* the status of each investigation
  busy     \* the investigations being executed

Terminal  == {"completed", "partial", "failed", "halted"}
Retryable == {"failed", "halted", "partial"}

Init ==
  /\ st = [i \in Investigations |-> "absent"]
  /\ busy = {}

Become(i, s) == st' = [st EXCEPT ![i] = s]

Open(i) ==
  /\ st[i] = "absent"
  /\ Become(i, "created")
  /\ UNCHANGED busy

Claim(i) ==
  /\ i \notin busy
  /\ st[i] \in {"created"} \union Retryable
  /\ Become(i, "running")
  /\ busy' = busy \union {i}

End(i) ==
  /\ i \in busy
  /\ st[i] = "running"
  /\ \E s \in Terminal : Become(i, s)
  /\ busy' = busy \ {i}

\* Executions end without a word: cancelled, crashed, killed with the process.
BreakOff ==
  /\ \E S \in SUBSET busy : busy' = busy \ S
  /\ UNCHANGED st

CloseOrphan(i) ==
  /\ i \notin busy
  /\ st[i] = "running"
  /\ \E s \in {"failed", "halted"} : Become(i, s)
  /\ UNCHANGED busy

Halt(i) ==
  /\ i \notin busy
  /\ st[i] \in {"created"} \union Terminal
  /\ Become(i, "halted")
  /\ UNCHANGED busy

Sweep ==
  /\ busy = {}
  /\ st' = [i \in Investigations |-> IF st[i] = "running" THEN "failed" ELSE st[i]]
  /\ UNCHANGED busy

Remove(i) ==
  /\ st[i] # "absent"
  /\ Become(i, "deleted")
  /\ UNCHANGED busy

Next ==
  \/ \E i \in Investigations :
       Open(i) \/ Claim(i) \/ End(i) \/ CloseOrphan(i) \/ Halt(i) \/ Remove(i)
  \/ BreakOff
  \/ Sweep

Spec == Init /\ [][Next]_<<st, busy>>
=============================================================================
