---------------------------- MODULE MCExecution ----------------------------
(* Small instances of Execution for TLC.                                   *)
EXTENDS Execution

CONSTANTS triage, logs, mitre, report

\* The planners' order with one agent the artifacts call for, and with one more
\* that is always scheduled.
ShortOrder == <<triage, logs, report>>
LongOrder  == <<triage, logs, mitre, report>>
=============================================================================
