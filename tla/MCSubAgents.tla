---------------------------- MODULE MCSubAgents -----------------------------
(* Model checking of SubAgents. *)
EXTENDS SubAgents, TLC

\* A spawn last, a spawn with a tool after it during which results come early,
\* and two spawns in one response.
MCToolLists == {<<"spawn">>, <<"spawn", "bash">>, <<"spawn", "spawn">>}

\* Agents of the same mode are interchangeable.
AgentSymmetry == Permutations(Writer) \union Permutations(Agent \ Writer)

=============================================================================
