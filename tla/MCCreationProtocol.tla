------------------------- MODULE MCCreationProtocol -------------------------
(* CreationProtocol on a small instance: two workers that may draw the same  *)
(* token, two stages, three attempts.                                        *)
EXTENDS CreationProtocol

\* CREATION_RETRY_DELAYS_MS for MaxAttempts = 3, in ticks.
MCRetryDelay == <<1, 2>>

=============================================================================
