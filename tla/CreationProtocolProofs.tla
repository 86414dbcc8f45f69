----------------------- MODULE CreationProtocolProofs -----------------------
(* Proofs about CreationProtocol for every set of workers and tokens, every  *)
(* number of stages and attempts and every bound.                            *)
EXTENDS CreationProtocol, TLAPS

USE SMTT(60), ZenonT(60)

USE StageAssumption, AttemptAssumption, DelayAssumption, LeaseAssumption,
    BoundAssumption, NoClaimAssumption

\* The inductive invariant.  TypeOK is not inductive by itself (the attempt
\* counter stays within its range because a retry is only scheduled below the
\* limit) and AuthorityNeverRegained needs IssuedClaims.
IInv == TypeOK /\ AttemptsBounded /\ IssuedClaims

\* Every variable keeps its type, and the attempt counter its bounds, through
\* every event of decide_creation.
LEMMA TypeInductive ==
    TypeOK /\ AttemptsBounded /\ [Next]_vars => TypeOK' /\ AttemptsBounded'
<1> SUFFICES ASSUME TypeOK, AttemptsBounded, [Next]_vars
             PROVE  TypeOK' /\ AttemptsBounded'
  OBVIOUS
<1> USE DEF TypeOK, AttemptsBounded, Status, Claim, Identity, IdentityOf, Become
<1>1. CASE Tick
  BY <1>1 DEF Tick
<1>2. ASSUME NEW t \in 0 .. now, NEW w \in Worker, NEW k \in Token, NEW d \in LeaseDuration,
             ClaimRequested(w, k, t, d)
      PROVE  TypeOK' /\ AttemptsBounded'
  <2>1. d \in Nat /\ t \in Nat
    OBVIOUS
  <2>2. attempt' \in 1 .. MaxAttempts
    BY <1>2 DEF ClaimRequested, Claimable, AttemptOnClaim
  <2>3. claim' \in Claim /\ IdentityOf(claim') \in Identity
    BY <1>2, <2>1 DEF ClaimRequested
  <2>4. TypeOK'
    BY <1>2, <2>2, <2>3 DEF ClaimRequested
  <2>5. AttemptsBounded'
    BY <1>2, <2>2 DEF ClaimRequested
  <2> QED
    BY <2>4, <2>5
<1>3. ASSUME NEW t \in 0 .. now, NEW c \in issued, Report(c, t)
      PROVE  TypeOK' /\ AttemptsBounded'
  <2>1. ASSUME NEW d \in LeaseDuration, LeaseRenewed(c, t, d)
        PROVE  TypeOK' /\ AttemptsBounded'
    BY <2>1 DEF LeaseRenewed, Authorized, Owns
  <2>2. CASE StageSucceeded(c, t)
    BY <2>2 DEF StageSucceeded, Authorized, Owns
  <2>3. CASE StageFailedRetryable(c, t)
    BY <2>3 DEF StageFailedRetryable, Authorized, Owns
  <2>4. CASE StageFailedPermanent(c, t)
    BY <2>4 DEF StageFailedPermanent, Authorized, Owns
  <2> QED
    BY <1>3, <2>1, <2>2, <2>3, <2>4 DEF Report
<1>4. CASE CancelRequested
  BY <1>4 DEF CancelRequested
<1>5. CASE DeleteRequested
  BY <1>5 DEF DeleteRequested
<1>6. CASE ReconciliationSucceeded
  BY ZenonT(60), <1>6 DEF ReconciliationSucceeded
<1>7. CASE UNCHANGED vars
  BY <1>7 DEF vars
<1> QED
  BY <1>1, <1>2, <1>3, <1>4, <1>5, <1>6, <1>7 DEF Next

\* A claim is handed out with a generation no earlier claim has, because every
\* claim and every withdrawal advances the generation.
LEMMA IssuedInductive == TypeOK /\ IssuedClaims /\ [Next]_vars => IssuedClaims'
<1> SUFFICES ASSUME TypeOK, IssuedClaims, [Next]_vars PROVE IssuedClaims'
  OBVIOUS
<1> USE DEF TypeOK, IssuedClaims, Claim, Identity, IdentityOf, Become
<1>1. CASE Tick
  BY <1>1 DEF Tick
<1>2. ASSUME NEW t \in 0 .. now, NEW w \in Worker, NEW k \in Token, NEW d \in LeaseDuration,
             ClaimRequested(w, k, t, d)
      PROVE  IssuedClaims'
  <2> DEFINE new == [worker |-> w, generation |-> generation + 1, token |-> k]
  <2>1. /\ issued' = issued \union {new}
        /\ generation' = generation + 1
        /\ IdentityOf(claim') = new
        /\ claim'.generation = generation'
    BY <1>2 DEF ClaimRequested
  <2>2. \A c \in issued : c.generation < new.generation
    OBVIOUS
  <2> QED
    BY <2>1, <2>2
<1>3. ASSUME NEW t \in 0 .. now, NEW c \in issued, Report(c, t)
      PROVE  IssuedClaims'
  BY <1>3 DEF Report, LeaseRenewed, StageSucceeded, StageFailedRetryable,
              StageFailedPermanent, Authorized, Owns
<1>4. CASE CancelRequested
  BY <1>4 DEF CancelRequested
<1>5. CASE DeleteRequested
  BY <1>5 DEF DeleteRequested
<1>6. CASE ReconciliationSucceeded
  BY <1>6 DEF ReconciliationSucceeded
<1>7. CASE UNCHANGED vars
  BY <1>7 DEF vars
<1> QED
  BY <1>1, <1>2, <1>3, <1>4, <1>5, <1>6, <1>7 DEF Next

\* The inductive invariant holds in every behaviour of the protocol.
THEOREM Invariance == Spec => []IInv
<1>1. Init => IInv
  <2> SUFFICES ASSUME Init PROVE IInv
    OBVIOUS
  <2>1. TypeOK
    <3>1. tombstone \in BOOLEAN /\ issued \subseteq Identity
      BY ZenonT(60) DEF Init
    <3>2. stage \in 1 .. LastStage /\ attempt \in 0 .. MaxAttempts
      BY DEF Init
    <3>3. status \in Status /\ claim = NoClaim /\ status # "claimed"
      BY DEF Init, Status
    <3> QED
      BY <3>1, <3>2, <3>3 DEF Init, TypeOK
  <2>2. AttemptsBounded /\ IssuedClaims
    BY DEF Init, AttemptsBounded, IssuedClaims
  <2> QED
    BY <2>1, <2>2 DEF IInv
<1>2. IInv /\ [Next]_vars => IInv'
  BY TypeInductive, IssuedInductive DEF IInv
<1> QED
  BY <1>1, <1>2, PTL DEF Spec

\* Type correctness.
THEOREM TypeCorrect == Spec => []TypeOK
<1>1. IInv => TypeOK
  BY DEF IInv
<1> QED
  BY <1>1, Invariance, PTL

\* The attempt counter of a job keeps its bounds.
THEOREM AttemptsCorrect == Spec => []AttemptsBounded
<1>1. IInv => AttemptsBounded
  BY DEF IInv
<1> QED
  BY <1>1, Invariance, PTL

\* The claims handed out to workers (decide_creation) have pairwise different
\* generations, and the current claim is one of them.
THEOREM ClaimsAreDistinct == Spec => []IssuedClaims
<1>1. IInv => IssuedClaims
  BY DEF IInv
<1> QED
  BY <1>1, Invariance, PTL

\* A worker that lost its authority never regains it.
THEOREM Fencing == Spec => AuthorityNeverRegained
<1>1. IInv /\ [Next]_vars => [\A c \in issued : ~Owns(c) => ~Owns(c)']_vars
  <2> SUFFICES ASSUME IInv, Next, NEW c \in issued, Owns(c)'
               PROVE  Owns(c)
    BY DEF Owns, vars
  <2> USE DEF IInv, TypeOK, IssuedClaims, Identity, Claim, IdentityOf, Become, Owns
  <2>1. CASE Tick
    BY <2>1 DEF Tick
  <2>2. ASSUME NEW t \in 0 .. now, NEW w \in Worker, NEW k \in Token, NEW d \in LeaseDuration,
               ClaimRequested(w, k, t, d)
        PROVE  FALSE
    BY <2>2 DEF ClaimRequested
  <2>3. ASSUME NEW t \in 0 .. now, NEW b \in issued, Report(b, t)
        PROVE  Owns(c)
    BY <2>3 DEF Report, LeaseRenewed, StageSucceeded, StageFailedRetryable,
                StageFailedPermanent, Authorized
  <2>4. CASE CancelRequested \/ DeleteRequested \/ ReconciliationSucceeded
    BY <2>4 DEF CancelRequested, DeleteRequested, ReconciliationSucceeded
  <2> QED
    BY <2>1, <2>2, <2>3, <2>4 DEF Next
<1> QED
  BY <1>1, Invariance, PTL DEF Spec, AuthorityNeverRegained

\* A live lease is never taken over.
THEOREM LeaseSafety == Spec => LiveLeaseRespected
<1> DEFINE Step == status = "claimed" /\ status' = "claimed" /\ generation' # generation
                      => claim.leaseUntil <= now
<1>1. IInv /\ [Next]_vars => [Step]_vars
  <2> SUFFICES ASSUME IInv, Next, status = "claimed", generation' # generation,
                      status' = "claimed"
               PROVE  claim.leaseUntil <= now
    OBVIOUS
  <2>1. ASSUME NEW t \in 0 .. now, NEW w \in Worker, NEW k \in Token, NEW d \in LeaseDuration,
               ClaimRequested(w, k, t, d)
        PROVE  claim.leaseUntil <= now
    BY <2>1 DEF ClaimRequested, Claimable, IInv, TypeOK, Claim
  <2>2. ASSUME NEW t \in 0 .. now, NEW c \in issued, Report(c, t)
        PROVE  FALSE
    BY <2>2 DEF Report, LeaseRenewed, StageSucceeded, StageFailedRetryable, StageFailedPermanent
  <2>3. CASE Tick \/ CancelRequested \/ DeleteRequested \/ ReconciliationSucceeded
    BY <2>3 DEF Tick, CancelRequested, DeleteRequested, ReconciliationSucceeded, Become
  <2> QED
    BY <2>1, <2>2, <2>3 DEF Next
<1> QED
  BY <1>1, Invariance, PTL DEF Spec, LiveLeaseRespected

\* A cancelled or deleted job is never provisioned again.
THEOREM WithdrawalFinal == Spec => WithdrawnIsFinal
<1> DEFINE Gone == {"cancelling", "cancelled", "deletion_pending"}
           Step == status \in Gone => (status' \in Gone /\ stage' = stage /\ attempt' = attempt)
<1>1. [Next]_vars => [Step]_vars
  <2> SUFFICES ASSUME Next, status \in Gone
               PROVE  status' \in Gone /\ stage' = stage /\ attempt' = attempt
    OBVIOUS
  <2>1. CASE Tick \/ CancelRequested \/ DeleteRequested \/ ReconciliationSucceeded
    BY <2>1 DEF Tick, CancelRequested, DeleteRequested, ReconciliationSucceeded, Become
  <2>2. ASSUME NEW t \in 0 .. now, NEW w \in Worker, NEW k \in Token, NEW d \in LeaseDuration,
               ClaimRequested(w, k, t, d)
        PROVE  FALSE
    BY <2>2 DEF ClaimRequested, Claimable
  <2>3. ASSUME NEW t \in 0 .. now, NEW c \in issued, Report(c, t)
        PROVE  FALSE
    BY <2>3 DEF Report, LeaseRenewed, StageSucceeded, StageFailedRetryable,
                StageFailedPermanent, Authorized, Owns
  <2> QED
    BY <2>1, <2>2, <2>3 DEF Next
<1> QED
  BY <1>1, PTL DEF Spec, WithdrawnIsFinal

\* The pure protocol implements the fenced job: every event is a step of
\* FencedJob or leaves its variables alone.
THEOREM Refinement == Spec => ImplementsFencedJob
<1> USE DEF AbstractPhase
<1>1. Init => Abs!Init
  BY DEF Init, Abs!Init
<1>2. IInv /\ [Next]_vars => [Abs!Next]_Abs!vars
  <2> SUFFICES ASSUME IInv, [Next]_vars PROVE [Abs!Next]_Abs!vars
    OBVIOUS
  <2> USE DEF Abs!Next, Abs!vars, IInv, TypeOK, Become
  <2>1. CASE Tick
    BY <2>1 DEF Tick
  <2>2. ASSUME NEW t \in 0 .. now, NEW w \in Worker, NEW k \in Token, NEW d \in LeaseDuration,
               ClaimRequested(w, k, t, d)
        PROVE  Abs!Acquire
    BY <2>2 DEF ClaimRequested, Claimable, Abs!Acquire
  <2>3. ASSUME NEW t \in 0 .. now, NEW c \in issued, Report(c, t)
        PROVE  Abs!Yield \/ UNCHANGED Abs!vars
    BY <2>3 DEF Report, LeaseRenewed, StageSucceeded, StageFailedRetryable,
                StageFailedPermanent, Authorized, Owns, Abs!Yield
  <2>4. CASE CancelRequested \/ DeleteRequested
    BY <2>4 DEF CancelRequested, DeleteRequested, Abs!Withdraw
  <2>5. CASE ReconciliationSucceeded
    BY <2>5 DEF ReconciliationSucceeded, Abs!Close
  <2>6. CASE UNCHANGED vars
    BY <2>6 DEF vars
  <2> QED
    BY <2>1, <2>2, <2>3, <2>4, <2>5, <2>6 DEF Next
<1> QED
  BY <1>1, <1>2, Invariance, PTL DEF Spec, ImplementsFencedJob, Abs!Spec

=============================================================================
