-------------------------- MODULE CreationProtocol --------------------------
(***************************************************************************)
(* The pure durable conversation-creation protocol: decide_creation of     *)
(* phoenix-state-machine/src/creation_protocol.rs, which maps a durable    *)
(* job state and one event to the next state and its effects.              *)
(*                                                                         *)
(* A worker is given a claim by a RunStage or ReconcileStage effect and    *)
(* keeps it for ever: `issued' holds every claim ever given out, and any   *)
(* of them may be presented again at any later time, by a worker that was  *)
(* slow, paused or superseded.  An event carries the time its sender read, *)
(* which may be older than the current time when the event is applied.     *)
(* Claim tokens are drawn from an arbitrary set and may repeat, so what    *)
(* the properties show rests on the generation and not on the randomness   *)
(* of the token.                                                           *)
(***************************************************************************)
EXTENDS Integers

CONSTANTS
    Worker,          \* CreationWorkerId
    Token,           \* CreationClaimToken
    LastStage,       \* the number of stages (9 in the code); Finalize is the last
    MaxAttempts,     \* MAX_CREATION_ATTEMPTS (4 in the code)
    RetryDelay,      \* CREATION_RETRY_DELAYS_MS, indexed by the failed attempt
    LeaseDuration,   \* the lease durations a worker may ask for
    NoClaim,         \* the value of `claim' when the job is not claimed
    MaxNow,          \* bound on logical time
    MaxGeneration    \* bound on generations (u64 in the code)

VARIABLES
    now,         \* logical time
    status,      \* discriminant of CreationStatus
    claim,       \* the CreationClaim of Claimed, or NoClaim
    retryAt,     \* next_attempt_at of RetryScheduled, 0 otherwise
    stage,       \* CreationStage, 1 .. LastStage
    attempt,
    generation,
    issued,      \* every claim handed to a worker by an effect
    tombstone    \* whether a DeleteTombstone effect was emitted

vars == <<now, status, claim, retryAt, stage, attempt, generation, issued, tombstone>>

ASSUME StageAssumption == LastStage \in Nat \ {0}
ASSUME AttemptAssumption == MaxAttempts \in Nat \ {0}
ASSUME DelayAssumption == RetryDelay \in [1 .. MaxAttempts - 1 -> Nat]
ASSUME LeaseAssumption == LeaseDuration \subseteq Nat
ASSUME BoundAssumption == MaxNow \in Nat /\ MaxGeneration \in Nat

Status == {"accepted", "claimed", "retry_scheduled", "cancelling", "cancelled",
           "deletion_pending", "ready", "failed"}

\* What identifies a claim: authorize() compares these three fields and never
\* the lease_until the worker holds.
Identity == [worker : Worker, generation : Nat, token : Token]

Claim == [worker : Worker, generation : Nat, token : Token, leaseUntil : Nat]

ASSUME NoClaimAssumption == NoClaim \notin Claim

IdentityOf(c) == [worker |-> c.worker, generation |-> c.generation, token |-> c.token]

-----------------------------------------------------------------------------

\* CreationProtocolState::accepted
Init ==
    /\ now = 0
    /\ status = "accepted"
    /\ claim = NoClaim
    /\ retryAt = 0
    /\ stage = 1
    /\ attempt = 0
    /\ generation = 0
    /\ issued = {}
    /\ tombstone = FALSE

\* Status "claimed" carries its claim, every other status drops it.
Become(s) == status' = s /\ claim' = NoClaim

\* The current claim is the one presented, and it belongs to the current
\* generation.
Owns(c) ==
    /\ status = "claimed"
    /\ IdentityOf(claim) = c
    /\ generation = c.generation

\* authorize(): a claim presented with a time at which its lease has lapsed is
\* refused as well.
Authorized(c, t) == Owns(c) /\ claim.leaseUntil > t

-----------------------------------------------------------------------------

\* Faulty variant: a lease counts as lapsed one tick early.
Claimable_LeaseOffByOne(t) ==
    \/ status = "accepted"
    \/ status = "retry_scheduled" /\ retryAt <= t
    \/ status = "claimed" /\ claim.leaseUntil <= t + 1

\* Faulty variant: a job being cancelled is offered to the workers again.
Claimable_Cancelling(t) ==
    \/ status \in {"accepted", "cancelling"}
    \/ status = "retry_scheduled" /\ retryAt <= t
    \/ status = "claimed" /\ claim.leaseUntil <= t

\* Faulty variant: a takeover begins a new attempt.
AttemptOnClaim_TakeoverCounts == IF status = "accepted" THEN 1 ELSE attempt + 1

\* Whether a claim request made at time t is legal, and the attempt it begins:
\* a first claim, a retry that is due, or the takeover of a lapsed lease, which
\* continues the same attempt.
Claimable(t) ==
    \/ status = "accepted"
    \/ status = "retry_scheduled" /\ retryAt <= t
    \/ status = "claimed" /\ claim.leaseUntil <= t

AttemptOnClaim ==
    IF status = "accepted" THEN 1
    ELSE IF status = "retry_scheduled" THEN attempt + 1
    ELSE attempt

\* Faulty variant: a claim does not advance the generation.
ClaimRequested_SameGeneration(w, k, t, d) ==
    /\ d # 0
    /\ Claimable(t)
    /\ attempt' = AttemptOnClaim
    /\ status' = "claimed"
    /\ claim' = [worker |-> w, generation |-> generation, token |-> k, leaseUntil |-> t + d]
    /\ retryAt' = 0
    /\ issued' = issued \union {IdentityOf(claim')}
    /\ UNCHANGED <<now, stage, generation, tombstone>>

\* ClaimRequested.  The effect is ReconcileStage on a takeover and RunStage
\* otherwise; both hand the new claim to the worker.
ClaimRequested(w, k, t, d) ==
    /\ d # 0
    /\ Claimable(t)
    /\ generation < MaxGeneration
    /\ attempt' = AttemptOnClaim
    /\ generation' = generation + 1
    /\ status' = "claimed"
    /\ claim' = [worker |-> w, generation |-> generation', token |-> k, leaseUntil |-> t + d]
    /\ retryAt' = 0
    /\ issued' = issued \union {IdentityOf(claim')}
    /\ UNCHANGED <<now, stage, tombstone>>

\* LeaseRenewed
LeaseRenewed(c, t, d) ==
    /\ d # 0
    /\ Authorized(c, t)
    /\ claim' = [worker |-> c.worker, generation |-> c.generation, token |-> c.token,
                 leaseUntil |-> t + d]
    /\ UNCHANGED <<now, status, retryAt, stage, attempt, generation, issued, tombstone>>

\* StageSucceeded: the next stage under the same claim, or Ready after the last.
StageSucceeded(c, t) ==
    /\ Authorized(c, t)
    /\ \/ /\ stage < LastStage
          /\ stage' = stage + 1
          /\ UNCHANGED <<status, claim>>
       \/ /\ stage = LastStage
          /\ Become("ready")
          /\ UNCHANGED stage
    /\ UNCHANGED <<now, retryAt, attempt, generation, issued, tombstone>>

\* StageFailedRetryable: the last attempt fails for good, any other is retried
\* after its delay.
StageFailedRetryable(c, t) ==
    /\ Authorized(c, t)
    /\ \/ /\ attempt >= MaxAttempts
          /\ Become("failed")
          /\ UNCHANGED retryAt
       \/ /\ attempt < MaxAttempts
          /\ attempt \in DOMAIN RetryDelay
          /\ Become("retry_scheduled")
          /\ retryAt' = t + RetryDelay[attempt]
    /\ UNCHANGED <<now, stage, attempt, generation, issued, tombstone>>

\* StageFailedPermanent
StageFailedPermanent(c, t) ==
    /\ Authorized(c, t)
    /\ Become("failed")
    /\ UNCHANGED <<now, retryAt, stage, attempt, generation, issued, tombstone>>

\* Faulty variant: a cancellation leaves the generation alone.
CancelRequested_SameGeneration ==
    /\ status \in {"accepted", "claimed", "retry_scheduled"}
    /\ Become("cancelling")
    /\ retryAt' = 0
    /\ UNCHANGED <<now, stage, attempt, generation, issued, tombstone>>

\* CancelRequested
CancelRequested ==
    /\ status \in {"accepted", "claimed", "retry_scheduled"}
    /\ generation < MaxGeneration
    /\ generation' = generation + 1
    /\ Become("cancelling")
    /\ retryAt' = 0
    /\ UNCHANGED <<now, stage, attempt, issued, tombstone>>

\* DeleteRequested
DeleteRequested ==
    /\ status \in {"accepted", "claimed", "retry_scheduled", "cancelling", "cancelled", "failed"}
    /\ generation < MaxGeneration
    /\ generation' = generation + 1
    /\ Become("deletion_pending")
    /\ retryAt' = 0
    /\ UNCHANGED <<now, stage, attempt, issued, tombstone>>

\* ReconciliationSucceeded: a cancelled job is kept, a deleted one leaves by the
\* DeleteTombstone effect.  (ReconciliationFailedRetryable only repeats the
\* reconciliation effect and leaves the state as it is.)
ReconciliationSucceeded ==
    /\ \/ /\ status = "cancelling"
          /\ status' = "cancelled"
          /\ UNCHANGED tombstone
       \/ /\ status = "deletion_pending"
          /\ tombstone' = TRUE
          /\ UNCHANGED status
    /\ UNCHANGED <<now, claim, retryAt, stage, attempt, generation, issued>>

\* The clock of the adapters.
Tick ==
    /\ now < MaxNow
    /\ now' = now + 1
    /\ UNCHANGED <<status, claim, retryAt, stage, attempt, generation, issued, tombstone>>

\* An event that presents a claim: any claim ever issued, at any time read so
\* far.
Report(c, t) ==
    \/ \E d \in LeaseDuration : LeaseRenewed(c, t, d)
    \/ StageSucceeded(c, t)
    \/ StageFailedRetryable(c, t)
    \/ StageFailedPermanent(c, t)

Next ==
    \/ Tick
    \/ \E t \in 0 .. now :
          \/ \E w \in Worker, k \in Token, d \in LeaseDuration : ClaimRequested(w, k, t, d)
          \/ \E c \in issued : Report(c, t)
    \/ CancelRequested
    \/ DeleteRequested
    \/ ReconciliationSucceeded

Spec == Init /\ [][Next]_vars

-----------------------------------------------------------------------------
(* Properties *)

\* Every variable has its type; a claim is carried by status "claimed" only.
TypeOK ==
    /\ now \in Nat
    /\ status \in Status
    /\ claim \in Claim \union {NoClaim}
    /\ status = "claimed" <=> claim # NoClaim
    /\ retryAt \in Nat
    /\ stage \in 1 .. LastStage
    /\ attempt \in 0 .. MaxAttempts
    /\ generation \in Nat
    /\ issued \subseteq Identity
    /\ tombstone \in BOOLEAN

\* A worker that has lost its authority never gets it back: once authorize()
\* refuses a claim that was handed out, no later claim, renewal, cancellation
\* or deletion makes the same claim current again, even when workers and
\* tokens repeat.
AuthorityNeverRegained == [][\A c \in issued : ~Owns(c) => ~Owns(c)']_vars

\* A job passes from one worker to another only when the first one's lease has
\* lapsed, however stale the time in the second one's request.
LiveLeaseRespected ==
    [][status = "claimed" /\ status' = "claimed" /\ generation' # generation
          => claim.leaseUntil <= now]_vars

\* The attempt counter: a retry is only ever scheduled when an attempt is left,
\* a claimed job is in one of its MAX_CREATION_ATTEMPTS attempts, and so the
\* "invalid retry attempt" error of StageFailedRetryable is unreachable.
AttemptsBounded ==
    /\ status = "retry_scheduled" => attempt \in 1 .. MaxAttempts - 1
    /\ status = "claimed" => attempt \in 1 .. MaxAttempts
    /\ status = "claimed" /\ attempt < MaxAttempts => attempt \in DOMAIN RetryDelay

\* A cancelled or deleted job is never provisioned again: whatever claims are
\* still out, no report moves it to another stage, attempt or lifecycle.
WithdrawnIsFinal ==
    [][(status \in {"cancelling", "cancelled", "deletion_pending"})
          => (status' \in {"cancelling", "cancelled", "deletion_pending"}
                 /\ stage' = stage /\ attempt' = attempt)]_vars

\* The claim discipline that makes AuthorityNeverRegained inductive: claims
\* handed out have pairwise different generations, none from the future, and
\* the current claim is one of them.
IssuedClaims ==
    /\ \A c \in issued : c.generation <= generation
    /\ \A c, d \in issued : c.generation = d.generation => c = d
    /\ status = "claimed" => /\ IdentityOf(claim) \in issued
                             /\ claim.generation = generation

-----------------------------------------------------------------------------
(* Refinement *)

AbstractPhase ==
    IF status \in {"accepted", "retry_scheduled"} THEN "pending"
    ELSE IF status = "claimed" THEN "owned"
    ELSE IF status \in {"ready", "failed"} THEN "settled"
    ELSE IF status = "cancelled" THEN "closed"
    ELSE "withdrawn"

Abs == INSTANCE FencedJob WITH
          phase <- AbstractPhase,
          epoch <- generation,
          owner <- IF status = "claimed" THEN generation ELSE 0

\* The pure protocol is a fenced job.
ImplementsFencedJob == Abs!Spec

=============================================================================
