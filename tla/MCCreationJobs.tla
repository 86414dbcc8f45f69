--------------------------- MODULE MCCreationJobs ---------------------------
(* CreationJobs on small instances.                                          *)
EXTENDS CreationJobs, TLC

\* A managed conversation that is given a message, and a seeded empty one.
MCIntents == {[worktree |-> TRUE, message |-> TRUE], [worktree |-> FALSE, message |-> FALSE]}

\* The managed one alone.
MCManaged == {[worktree |-> TRUE, message |-> TRUE]}

ProcessSymmetry == Permutations(Process)

=============================================================================
