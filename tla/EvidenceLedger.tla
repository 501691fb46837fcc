--------------------------- MODULE EvidenceLedger ---------------------------
(***************************************************************************)
(* What the evidence record of an investigation promises to a reader of    *)
(* the database: entries and claims are only ever added, a claim together  *)
(* with or after everything it cites, the number of entries stays within   *)
(* the quota, and the only way to lose any of them is to lose them all     *)
(* together with the investigation, after which nothing is added any more. *)
(***************************************************************************)
EXTENDS Integers, FiniteSets

CONSTANT Quota

VARIABLES
  entries,    \* the observations recorded
  claims,     \* what was said about them: the kind of the claim and what it cites
  closed      \* the investigation was deleted

Assertive == {"fact", "inference"}

Grounded(claim, known) ==
  /\ claim.cites \subseteq known
  /\ claim.class \in Assertive => claim.cites # {}

Init ==
  /\ entries = {} /\ claims = {}
  /\ closed = FALSE

Extend ==
  /\ ~closed
  /\ entries \subseteq entries'
  /\ Cardinality(entries') <= Quota
  /\ claims \subseteq claims'
  /\ \A c \in claims' : Grounded(c, entries')
  /\ UNCHANGED closed

Destroy ==
  /\ entries' = {} /\ claims' = {}
  /\ closed' = TRUE

Next == Extend \/ Destroy

Spec == Init /\ [][Next]_<<entries, claims, closed>>
=============================================================================
