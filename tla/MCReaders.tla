----------------------------- MODULE MCReaders -----------------------------
(* Evidence of two moments and undated, with ties in both columns of the order. *)
EXTENDS Readers, TLC

CONSTANTS h1, h2

MCRows == {<<0, 1, 1, 2>>, <<0, 1, 2, 1>>, <<0, 2, 1, 3>>, <<1, 0, 1, 4>>, <<1, 0, 1, 5>>}
MCCites == h1 :> {<<0, 1, 1, 2>>} @@ h2 :> {<<0, 2, 1, 3>>, <<1, 0, 1, 4>>}
MCOrigin ==
    [r \in MCRows |->
        IF r[1] = 0 THEN {"tool_runs", "artifacts", "agent_runs"}
        ELSE {"tool_runs", "agent_runs"}]
=============================================================================
