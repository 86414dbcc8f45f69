------------------------------ MODULE FencedJob ------------------------------
(***************************************************************************)
(* What the durable creation machinery promises about the authority over   *)
(* one job, whatever carries it out: the pure protocol of                  *)
(* CreationProtocol and the SQL statements and workers of CreationJobs     *)
(* both implement this specification.                                      *)
(*                                                                         *)
(* Authority is an epoch.  Taking the job and withdrawing it from its      *)
(* owner both begin a new epoch, so whatever an owner of an earlier epoch  *)
(* still does can be told apart; the owner may settle the job or put it    *)
(* back, in its own epoch; a withdrawn job never has an owner again.       *)
(***************************************************************************)
EXTENDS Naturals

VARIABLES
    phase,   \* "pending", "owned", "settled", "withdrawn" or "closed"
    epoch,   \* number of times authority was taken or withdrawn
    owner    \* epoch of the current owner, 0 when there is none

vars == <<phase, epoch, owner>>

TypeOK ==
    /\ phase \in {"pending", "owned", "settled", "withdrawn", "closed"}
    /\ epoch \in Nat
    /\ owner \in Nat

Init == phase = "pending" /\ epoch = 0 /\ owner = 0

\* A worker takes a job nobody owns, or takes it over from a lapsed owner.
Acquire ==
    /\ phase \in {"pending", "owned"}
    /\ phase' = "owned"
    /\ epoch' = epoch + 1
    /\ owner' = epoch'

\* The owner puts the job back for a retry or settles it (ready or failed).
Yield ==
    /\ phase = "owned"
    /\ phase' \in {"pending", "settled"}
    /\ owner' = 0
    /\ UNCHANGED epoch

\* The user cancels or deletes.
Withdraw ==
    /\ phase' = "withdrawn"
    /\ epoch' = epoch + 1
    /\ owner' = 0

\* What the job left behind has been reconciled.
Close ==
    /\ phase = "withdrawn"
    /\ phase' = "closed"
    /\ UNCHANGED <<epoch, owner>>

Next == Acquire \/ Yield \/ Withdraw \/ Close

Spec == Init /\ [][Next]_vars

=============================================================================
