---------------------------- MODULE MCTurnLoop ------------------------------
(***************************************************************************)
(* The tool calls of a response, for model checking TurnLoop.              *)
(***************************************************************************)
EXTENDS TurnLoop

CONSTANTS t1, t2

One == {<<t1>>}
OneOrTwo == {<<t1>>, <<t1, t2>>}

=============================================================================
