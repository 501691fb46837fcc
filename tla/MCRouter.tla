------------------------------ MODULE MCRouter ------------------------------
(* The chain of a narrative, a chain whose first model nobody serves, and a   *)
(* rule whose only model nobody serves.                                       *)
EXTENDS ModelRouter

CONSTANTS summary, primary, secondary, gone

Chains == {<<summary, primary, secondary>>, <<gone, primary>>, <<gone>>}
=============================================================================
