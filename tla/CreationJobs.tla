---------------------------- MODULE CreationJobs ----------------------------
(***************************************************************************)
(* Durable conversation creation as it is carried out: the SQL statements  *)
(* on the job and its worktree reservation, the creation worker of each    *)
(* Phoenix process, the blocking threads that build worktrees, the runtime *)
(* that is given the initial message, and the user who cancels or deletes. *)
(*                                                                         *)
(* One job.  A step is a transaction, a run of statements that present the *)
(* same claim with nothing but the database between them, or what is done  *)
(* under the repository lock.  A claim is known by its generation, which   *)
(* every claim advances; a cleanup claim by its process, whose worker does *)
(* one thing at a time.  Time is a lease that is live or has lapsed.       *)
(***************************************************************************)
EXTENDS Naturals

CONSTANTS
    Process,        \* live Phoenix processes, each with one creation worker
    Intents,        \* creation intents: whether there is a worktree, a message
    MaxAttempts,    \* 4 in the code
    MaxLapses,      \* bound: leases that lapse while work is in progress, failed removals
    MaxMishaps,     \* bound: crashes, git commands that cannot be run, rollbacks that fail
    MaxClaims       \* bound: generation up to which the job is claimed

ASSUME IntentAssumption == Intents \subseteq [worktree : BOOLEAN, message : BOOLEAN]
ASSUME BoundAssumption ==
    MaxAttempts \in Nat \ {0} /\ {MaxLapses, MaxMishaps, MaxClaims} \subseteq Nat

VARIABLES
    intent,      \* what is to be created
    job,         \* the row of conversation_creation_jobs
    resv,        \* the row of conversation_creation_resource_reservations
    conv,        \* the state in the row of conversations
    message,     \* the initial message is stored
    worktree,    \* the directory: "absent", "remains" (not a git root), "linked" (a
                 \* git root whose checkout is not complete) or "whole"
    worker,      \* what the worker of each process is doing
    threads,     \* blocking threads that build the worktree
    boots,       \* bootstraps a runtime is carrying out or has queued
    runtime,     \* in-memory state of each process's registered runtime
    user,        \* a cancel or delete request that has read `conv'
    spent        \* how much of each bound is used

durable == <<job, resv, conv, message>>
vars == <<intent, job, resv, conv, message, worktree, worker, threads, boots, runtime, user, spent>>

\* CreationStage, in order.
ValidateIntent == 1
ResolveRepository == 2
MaterializeWorktree == 4
FinalizeAttachments == 5
CommitMetadata == 7
Finalize == 9

Live == {"accepted", "claimed", "retry_scheduled"}
Nobody == "nobody"

Free == [at |-> "free", gen |-> 0, stage |-> 0, status |-> "none"]
Busy(p) == worker[p].at # "free"
Provisioning(p) == worker[p].at \in {"begin", "reserve", "build", "mark", "commit", "seeded",
                                     "load", "send", "finalize", "error"}

Later(a, b) == IF a < b THEN b ELSE a

\* create_conversation_with_creation_job
Init ==
    /\ intent \in Intents
    /\ job = [status |-> "accepted", stage |-> ValidateIntent, attempt |-> 0, gen |-> 0,
              live |-> FALSE, cleaner |-> Nobody, cleanerLive |-> FALSE]
    /\ resv = [status |-> "none", gen |-> 0]
    /\ conv = "Provisioning" /\ message = FALSE
    /\ worktree = "absent"
    /\ worker = [p \in Process |-> Free]
    /\ threads = {} /\ boots = {}
    /\ runtime = [p \in Process |-> "none"]
    /\ user = "none"
    /\ spent = [lapses |-> 0, crashes |-> 0, faults |-> 0]

-----------------------------------------------------------------------------
(* Statements.                                                              *)

\* The WHERE clause of every statement a claim is presented to.
Current(g) == job.status = "claimed" /\ job.gen = g /\ job.live

\* The job leaves the hands of its owner.
Settled(s) == [job EXCEPT !.status = s, !.live = FALSE]

\* What was reserved has to be cleaned up, under generation g.
CleanupRequired(g) ==
    IF resv.status \in {"reserved", "present"} THEN [status |-> "cleanup_required", gen |-> g]
                                               ELSE resv

Unreleased == resv.status \notin {"none", "released"}

\* evict_runtime: the runtime is forgotten; it still does what it has queued.
Evict(p) ==
    /\ runtime' = [runtime EXCEPT ![p] = "none"]
    /\ boots' = {[b EXCEPT !.evicted = (b.evicted \/ b.proc = p)] : b \in boots}

Goto(p, at) == worker' = [worker EXCEPT ![p].at = at]
Stop(p) == worker' = [worker EXCEPT ![p] = Free]

\* checkpoint_creation_stage: the stages up to s are stored one by one; with none
\* left nothing is asked of the database.
Checkpoint(p, s, at) ==
    LET w == worker[p]
    IN  \/ /\ w.stage >= s
           /\ Goto(p, at)
           /\ UNCHANGED job
        \/ /\ w.stage < s /\ Current(w.gen)
           /\ job' = [job EXCEPT !.stage = s]
           /\ worker' = [worker EXCEPT ![p].at = at, ![p].stage = s]
        \/ /\ w.stage < s /\ ~Current(w.gen)
           /\ Stop(p)
           /\ UNCHANGED job

-----------------------------------------------------------------------------
(* The worker provisions.                                                   *)

\* Faulty variant: a job whose worker is gone is not offered again.
Claimable_NoTakeover == job.status \in {"accepted", "retry_scheduled"}

Claimable ==
    \/ job.status \in {"accepted", "retry_scheduled"}
    \/ job.status = "claimed" /\ ~job.live

\* claim_next_conversation_creation_job
ClaimJob(p) ==
    /\ ~Busy(p) /\ job.gen < MaxClaims
    /\ Claimable
    /\ job' = [job EXCEPT
          !.status = "claimed", !.gen = @ + 1, !.live = TRUE,
          !.attempt = IF job.status = "accepted" THEN 1
                      ELSE IF job.status = "retry_scheduled" THEN @ + 1 ELSE @]
    /\ worker' = [worker EXCEPT ![p] =
          [at |-> "begin", gen |-> job'.gen, stage |-> job.stage, status |-> "claimed"]]
    /\ UNCHANGED <<intent, resv, conv, message, worktree, threads, boots, runtime, user, spent>>

\* Faulty variant: a stored message is taken for a turn that has begun.
AllowsCompletion_AnyState(c) == c # "LlmRequesting"

\* creation_state_allows_existing_message_completion
AllowsCompletion(c) == c \notin {"Provisioning", "LlmRequesting"}

\* There is no stored message whose turn has begun.
Fresh == ~message \/ ~(AllowsCompletion(conv) \/ conv = "LlmRequesting")

\* complete_conversation_creation_job
CompleteJob(g) == job' = IF Current(g) THEN Settled("ready") ELSE job

\* A runtime is started on the stored state; if that is LlmRequesting and the job
\* is claimed, it asks the model again and completes the creation (materialize_runtime).
StartRuntime(p, kept) ==
    /\ runtime' = [runtime EXCEPT ![p] =
          IF conv = "LlmRequesting" /\ job.status \notin Live THEN "Idle" ELSE conv]
    /\ boots' = kept \cup
          IF conv = "LlmRequesting" /\ job.status = "claimed"
          THEN {[proc |-> p, gen |-> job.gen, at |-> "complete", evicted |-> FALSE]}
          ELSE {}

\* process_job: what an earlier claim left is completed or resumed, or else the
\* job is provisioned from the start.
Begin(p) ==
    /\ worker[p].at = "begin"
    /\ \/ /\ message /\ AllowsCompletion(conv)
          /\ CompleteJob(worker[p].gen)
          /\ Stop(p)
          /\ UNCHANGED <<boots, runtime>>
       \/ /\ message /\ conv = "LlmRequesting"
          /\ IF runtime[p] = "none" THEN StartRuntime(p, boots) ELSE UNCHANGED <<boots, runtime>>
          /\ Stop(p)
          /\ UNCHANGED job
       \/ /\ Fresh
          /\ Checkpoint(p, ResolveRepository, IF intent.worktree THEN "reserve" ELSE "commit")
          /\ UNCHANGED <<boots, runtime>>
    /\ UNCHANGED <<intent, resv, conv, message, worktree, threads, user, spent>>

\* reserve_conversation_creation_resource, its stages, and the thread that builds
\* the worktree.
Reserve(p) ==
    LET w == worker[p]
    IN  /\ w.at = "reserve"
        /\ \/ /\ Current(w.gen)
              /\ job' = [job EXCEPT !.stage = Later(@, MaterializeWorktree)]
              /\ worker' = [worker EXCEPT ![p].at = "build", ![p].stage = job'.stage]
              /\ resv' = [status |-> IF resv.status = "present" THEN "present" ELSE "reserved",
                          gen |-> w.gen]
              /\ threads' = threads \cup {[proc |-> p, gen |-> w.gen]}
           \/ /\ ~Current(w.gen)
              /\ Stop(p)
              /\ UNCHANGED <<job, resv, threads>>
        /\ UNCHANGED <<intent, conv, message, worktree, boots, runtime, user, spent>>

Mishaps == spent.crashes + spent.faults

\* The directory is its own git root.
Rooted == worktree \in {"linked", "whole"}

\* Building anew: what is there is removed first, a build that fails is rolled back.
Built(ok) == IF ok THEN {"whole"} ELSE {"absent", "remains"}

\* Faulty variant: a worktree that is there is built anew.
Rebuilt_Always(ok) == Built(ok)

\* reconcile_owned_worktree_path: a git root of this repository is adopted as it is,
\* its checkout not looked at.
Rebuilt(ok) == IF Rooted THEN {worktree} ELSE Built(ok)

\* The same when git cannot say whose root the directory is (it is then built anew),
\* or when the rollback fails (cleanup_failed_worktree).
Spoiled(ok) == IF ok THEN {"whole"} ELSE {"absent", "remains", "linked"}

\* The blocking thread, under the repository lock.  Its worker may have gone on
\* to something else: then nobody hears of the outcome.
Materialize(t) ==
    LET awaited == worker[t.proc].at = "build" /\ worker[t.proc].gen = t.gen
    IN  /\ threads' = threads \ {t}
        /\ \E ok \in BOOLEAN :
              /\ \/ worktree' \in Rebuilt(ok) /\ UNCHANGED spent
                 \/ /\ Mishaps < MaxMishaps
                    /\ worktree' \in Spoiled(ok)
                    /\ spent' = [spent EXCEPT !.faults = @ + 1]
              /\ IF awaited THEN Goto(t.proc, IF ok THEN "mark" ELSE "error")
                            ELSE UNCHANGED worker
        /\ UNCHANGED <<intent, durable, boots, runtime, user>>

\* mark_creation_resource_present and the stage after it.
MarkPresent(p) ==
    LET w == worker[p]
    IN  /\ w.at = "mark"
        /\ \/ /\ Current(w.gen) /\ resv.gen = w.gen
              /\ resv' = [resv EXCEPT !.status = "present"]
              /\ job' = [job EXCEPT !.stage = Later(@, FinalizeAttachments)]
              /\ worker' = [worker EXCEPT ![p].at = "commit", ![p].stage = job'.stage]
           \/ /\ ~(Current(w.gen) /\ resv.gen = w.gen)
              /\ Stop(p)
              /\ UNCHANGED <<job, resv>>
        /\ UNCHANGED <<intent, conv, message, worktree, threads, boots, runtime, user, spent>>

\* Attachments, expansion and update_conversation_creation_metadata_and_mode, which
\* a claim that finds them done does not repeat.
Commit(p) ==
    /\ worker[p].at = "commit"
    /\ Checkpoint(p, CommitMetadata, IF intent.message THEN "load" ELSE "seeded")
    /\ UNCHANGED <<intent, resv, conv, message, worktree, threads, boots, runtime, user, spent>>

\* complete_seeded_empty_conversation_creation
CompleteSeededEmpty(p) ==
    /\ worker[p].at = "seeded"
    /\ Stop(p)
    /\ IF Current(worker[p].gen)
       THEN /\ job' = [Settled("ready") EXCEPT !.stage = Finalize]
            /\ conv' = "Idle"
            /\ Evict(p)
       ELSE UNCHANGED <<job, conv, boots, runtime>>
    /\ UNCHANGED <<intent, resv, message, worktree, threads, user, spent>>

\* The runtime is replaced by one that loads the stored state.
Load(p) ==
    /\ worker[p].at = "load" /\ conv # "Deleted"
    /\ StartRuntime(p, {[b EXCEPT !.evicted = (b.evicted \/ b.proc = p)] : b \in boots})
    /\ Goto(p, "send")
    /\ UNCHANGED <<intent, durable, worktree, threads, user, spent>>

\* The claim is renewed and CreationProvisioned sent; a runtime that is not in
\* Provisioning rejects it.
Send(p) ==
    LET w == worker[p]
    IN  /\ w.at = "send"
        /\ IF Current(w.gen)
           THEN /\ Goto(p, "finalize")
                /\ boots' = boots \cup
                      IF runtime[p] = "Provisioning"
                      THEN {[proc |-> p, gen |-> w.gen, at |-> "queued", evicted |-> FALSE]}
                      ELSE {}
           ELSE Stop(p) /\ UNCHANGED boots
        /\ UNCHANGED <<intent, durable, worktree, threads, runtime, user, spent>>

\* The last stage; the runtime may have completed the job before.
FinalizeStage(p) ==
    /\ worker[p].at = "finalize"
    /\ job' = IF Current(worker[p].gen) THEN [job EXCEPT !.stage = Finalize] ELSE job
    /\ Stop(p)
    /\ UNCHANGED <<intent, resv, conv, message, worktree, threads, boots, runtime, user, spent>>

AttemptLeft == job.attempt < MaxAttempts

\* A step fails: schedule_conversation_creation_retry if the error is transient and
\* an attempt is left, else fail_conversation_creation_job.  Only the steps that
\* look at the user's request find errors that are not transient.
Fail(p) ==
    LET w == worker[p]
    IN  /\ Provisioning(p) /\ w.at # "build"
        /\ w.at = "begin" => Fresh
        /\ Stop(p)
        /\ \/ /\ Current(w.gen) /\ AttemptLeft
              /\ job' = Settled("retry_scheduled")
              /\ UNCHANGED <<resv, conv, boots, runtime>>
           \/ /\ Current(w.gen)
              /\ w.at \in {"begin", "reserve", "error", "commit"} \/ ~AttemptLeft
              /\ job' = Settled("failed")
              /\ resv' = CleanupRequired(w.gen)
              /\ conv' = "CreationFailed"
              /\ Evict(p)
           \/ /\ ~Current(w.gen)
              /\ UNCHANGED <<job, resv, conv, boots, runtime>>
        /\ UNCHANGED <<intent, message, worktree, threads, user, spent>>

\* The heartbeat finds that the claim is lost: the worker drops what it is doing,
\* unless the job has reached its end.  A thread it waits for goes on.
HeartbeatLost(p) ==
    /\ Provisioning(p) /\ ~Current(worker[p].gen)
    /\ job.status \notin {"ready", "failed", "cancelled"}
    /\ Stop(p)
    /\ UNCHANGED <<intent, durable, worktree, threads, boots, runtime, user, spent>>

-----------------------------------------------------------------------------
(* The runtime bootstraps the conversation.                                 *)

\* CreationProvisioned: the message is stored, the state is stored and the model
\* asked, and the job completed; each may find that the conversation is gone.
BootMessage(b) ==
    /\ b.at = "queued"
    /\ IF conv = "Deleted"
       THEN boots' = boots \ {b} /\ UNCHANGED message
       ELSE /\ message' = TRUE
            /\ boots' = (boots \ {b}) \cup {[b EXCEPT !.at = "stored"]}
    /\ UNCHANGED <<intent, job, resv, conv, worktree, worker, threads, runtime, user, spent>>

BootState(b) ==
    /\ b.at = "stored"
    /\ IF conv = "Deleted"
       THEN boots' = boots \ {b} /\ UNCHANGED <<conv, runtime>>
       ELSE /\ conv' = "LlmRequesting"
            /\ runtime' = IF b.evicted THEN runtime
                          ELSE [runtime EXCEPT ![b.proc] = "LlmRequesting"]
            /\ boots' = (boots \ {b}) \cup {[b EXCEPT !.at = "complete"]}
    /\ UNCHANGED <<intent, job, resv, message, worktree, worker, threads, user, spent>>

BootComplete(b) ==
    /\ b.at = "complete"
    /\ CompleteJob(b.gen)
    /\ boots' = boots \ {b}
    /\ UNCHANGED <<intent, resv, conv, message, worktree, worker, threads, runtime, user, spent>>

\* The first turn ends.
TurnEnds(p) ==
    /\ runtime[p] = "LlmRequesting" /\ conv # "Deleted"
    /\ \A b \in boots : b.proc # p \/ b.evicted
    /\ runtime' = [runtime EXCEPT ![p] = "Idle"]
    /\ conv' = "Idle"
    /\ UNCHANGED <<intent, job, resv, message, worktree, worker, threads, boots, user, spent>>

-----------------------------------------------------------------------------
(* The worker cleans up.                                                    *)

\* claim_next_conversation_creation_cleanup, and the reservations it finds.
ClaimCleanup(p) ==
    /\ ~Busy(p)
    /\ \/ job.status \in {"cancelling", "deletion_pending"}
       \/ job.status = "failed" /\ Unreleased
    /\ ~job.cleanerLive
    /\ job' = [job EXCEPT !.cleaner = p, !.cleanerLive = TRUE]
    /\ worker' = [worker EXCEPT ![p] =
          [at |-> IF Unreleased THEN "sweep" ELSE "finish", gen |-> job.gen, stage |-> 0,
           status |-> job.status]]
    /\ UNCHANGED <<intent, resv, conv, message, worktree, threads, boots, runtime, user, spent>>

\* The blocking part of reconcile_creation_cleanup, under the repository lock: the
\* worktree is removed if the reservation is still to be cleaned up under the
\* cleanup's generation.  git may fail.
Sweep(p) ==
    /\ worker[p].at = "sweep"
    /\ \/ /\ resv = [status |-> "cleanup_required", gen |-> worker[p].gen]
          /\ worktree' = "absent"
          /\ Goto(p, "release")
       \/ /\ resv # [status |-> "cleanup_required", gen |-> worker[p].gen]
          /\ Goto(p, "release")
          /\ UNCHANGED worktree
       \/ /\ spent.lapses < MaxLapses
          /\ Goto(p, "retry")
          /\ UNCHANGED worktree
    /\ spent' = IF worker'[p].at = "retry" THEN [spent EXCEPT !.lapses = @ + 1] ELSE spent
    /\ UNCHANGED <<intent, durable, threads, boots, runtime, user>>

Cleans(p) == job.gen = worker[p].gen /\ job.cleaner = p /\ job.cleanerLive

\* release_creation_resource; if the claim is lost, reconciliation just ends.
Release(p) ==
    /\ worker[p].at = "release"
    /\ IF Cleans(p) /\ resv = [status |-> "cleanup_required", gen |-> worker[p].gen]
       THEN /\ resv' = [resv EXCEPT !.status = "released"]
            /\ Goto(p, "finish")
       ELSE Stop(p) /\ UNCHANGED resv
    /\ UNCHANGED <<intent, job, conv, message, worktree, threads, boots, runtime, user, spent>>

NoCleaner(j) == [j EXCEPT !.cleaner = Nobody, !.cleanerLive = FALSE]

\* finish_conversation_creation_cleanup: a cancelled job is kept, a deleted one goes
\* with its conversation.
FinishCleanup(p) ==
    LET s == worker[p].status
    IN  /\ worker[p].at = "finish"
        /\ IF Cleans(p) /\ job.status = s /\ ~Unreleased
           THEN /\ job' = [NoCleaner(job) EXCEPT !.status =
                      IF s = "cancelling" THEN "cancelled"
                      ELSE IF s = "deletion_pending" THEN "deleted" ELSE s]
                /\ conv' = IF s = "deletion_pending" THEN "Deleted" ELSE conv
                /\ Stop(p)
           ELSE Goto(p, "retry") /\ UNCHANGED <<job, conv>>
        /\ UNCHANGED <<intent, resv, message, worktree, threads, boots, runtime, user, spent>>

\* schedule_conversation_creation_cleanup_retry
RetryCleanup(p) ==
    /\ worker[p].at = "retry"
    /\ job' = IF /\ job.gen = worker[p].gen /\ job.cleaner = p
                 /\ job.status \in {"cancelling", "deletion_pending", "failed"}
              THEN NoCleaner(job) ELSE job
    /\ Stop(p)
    /\ UNCHANGED <<intent, resv, conv, message, worktree, threads, boots, runtime, user, spent>>

-----------------------------------------------------------------------------
(* The user.                                                                *)

\* The cancel and delete handlers read the conversation, and then act.
ReadForCancel ==
    /\ user = "none" /\ conv = "Provisioning"
    /\ user' = "cancel"
    /\ UNCHANGED <<intent, durable, worktree, worker, threads, boots, runtime, spent>>

ReadForDelete ==
    /\ user = "none" /\ conv \in {"Provisioning", "CreationCancelled", "CreationFailed"}
    /\ user' = "delete"
    /\ UNCHANGED <<intent, durable, worktree, worker, threads, boots, runtime, spent>>

\* Faulty variant: the claim keeps its generation.
CancelCreation_SameGeneration(p) ==
    /\ user = "cancel" /\ user' = "none"
    /\ IF job.status \in Live
       THEN /\ job' = NoCleaner(Settled("cancelling"))
            /\ resv' = CleanupRequired(job.gen)
            /\ conv' = "CreationCancelled"
            /\ Evict(p)
       ELSE UNCHANGED <<job, resv, conv, boots, runtime>>
    /\ UNCHANGED <<intent, message, worktree, worker, threads, spent>>

\* Faulty variant: the reservation keeps its generation.
CancelCreation_KeepsReservation(p) ==
    /\ user = "cancel" /\ user' = "none"
    /\ IF job.status \in Live
       THEN /\ job' = NoCleaner([Settled("cancelling") EXCEPT !.gen = @ + 1])
            /\ resv' = CleanupRequired(resv.gen)
            /\ conv' = "CreationCancelled"
            /\ Evict(p)
       ELSE UNCHANGED <<job, resv, conv, boots, runtime>>
    /\ UNCHANGED <<intent, message, worktree, worker, threads, spent>>

\* cancel_conversation_creation, and the eviction of the process that serves it.
CancelCreation(p) ==
    /\ user = "cancel" /\ user' = "none"
    /\ IF job.status \in Live
       THEN /\ job' = NoCleaner([Settled("cancelling") EXCEPT !.gen = @ + 1])
            /\ resv' = CleanupRequired(job.gen + 1)
            /\ conv' = "CreationCancelled"
            /\ Evict(p)
       ELSE UNCHANGED <<job, resv, conv, boots, runtime>>
    /\ UNCHANGED <<intent, message, worktree, worker, threads, spent>>

\* request_conversation_creation_deletion
RequestDeletion(p) ==
    /\ user = "delete" /\ user' = "none"
    /\ IF job.status \in Live \cup {"cancelling", "cancelled", "failed"}
       THEN /\ job' = NoCleaner([Settled("deletion_pending") EXCEPT !.gen = @ + 1])
            /\ resv' = CleanupRequired(job.gen + 1)
            /\ Evict(p)
       ELSE UNCHANGED <<job, resv, boots, runtime>>
    /\ UNCHANGED <<intent, conv, message, worktree, worker, threads, spent>>

-----------------------------------------------------------------------------
(* Time and crashes.                                                        *)

\* Somebody is at work on the claim, or on the turn it began.
Attended ==
    \/ \E p \in Process : Provisioning(p) /\ worker[p].gen = job.gen
    \/ \E b \in boots : b.gen = job.gen
    \/ \E p \in Process : runtime[p] = "LlmRequesting"

CleanupAttended == \E p \in Process : job.cleaner = p /\ Busy(p) /\ ~Provisioning(p)

\* A lease lapses: any time after its holder is gone, and a bounded number of
\* times while somebody is at work and is merely slow.
LeaseLapses ==
    /\ job.status = "claimed" /\ job.live
    /\ Attended => spent.lapses < MaxLapses
    /\ job' = [job EXCEPT !.live = FALSE]
    /\ spent' = IF Attended THEN [spent EXCEPT !.lapses = @ + 1] ELSE spent
    /\ UNCHANGED <<intent, resv, conv, message, worktree, worker, threads, boots, runtime, user>>

CleanupLeaseLapses ==
    /\ job.cleanerLive
    /\ CleanupAttended => spent.lapses < MaxLapses
    /\ job' = [job EXCEPT !.cleanerLive = FALSE]
    /\ spent' = IF CleanupAttended THEN [spent EXCEPT !.lapses = @ + 1] ELSE spent
    /\ UNCHANGED <<intent, resv, conv, message, worktree, worker, threads, boots, runtime, user>>

\* A process stops and starts again.  A thread that builds stops at any point, and
\* git with it; a turn in progress is reset to Idle unless its creation is
\* (reset_all_to_idle).
Crash(p) ==
    /\ Mishaps < MaxMishaps
    /\ spent' = [spent EXCEPT !.crashes = @ + 1]
    /\ Stop(p)
    /\ threads' = {t \in threads : t.proc # p}
    /\ worktree' \in IF threads' = threads \/ Rooted THEN {worktree}
                     ELSE {"absent", "remains", "linked", "whole"}
    /\ boots' = {b \in boots : b.proc # p}
    /\ runtime' = [runtime EXCEPT ![p] = "none"]
    /\ conv' = IF conv = "LlmRequesting" /\ job.status \notin Live THEN "Idle" ELSE conv
    /\ UNCHANGED <<intent, job, resv, message, user>>

WorkerStep(p) ==
    \/ Begin(p) \/ Reserve(p) \/ MarkPresent(p) \/ Commit(p) \/ CompleteSeededEmpty(p)
    \/ Load(p) \/ Send(p) \/ FinalizeStage(p) \/ Fail(p) \/ HeartbeatLost(p)
    \/ Sweep(p) \/ Release(p) \/ FinishCleanup(p) \/ RetryCleanup(p)

BootStep(b) == BootMessage(b) \/ BootState(b) \/ BootComplete(b)

Lapse == LeaseLapses \/ CleanupLeaseLapses

Next ==
    \/ \E p \in Process :
          \/ ClaimJob(p) \/ ClaimCleanup(p) \/ WorkerStep(p)
          \/ TurnEnds(p) \/ CancelCreation(p) \/ RequestDeletion(p) \/ Crash(p)
    \/ \E t \in threads : Materialize(t)
    \/ \E b \in boots : BootStep(b)
    \/ ReadForCancel \/ ReadForDelete \/ Lapse

Spec == Init /\ [][Next]_vars

\* A process that does not crash goes on with what it does and looks for work at
\* every deadline; a lease nobody renews lapses; a turn ends.  The user need not
\* do anything but finish a request.
Fairness ==
    /\ \A p \in Process :
          /\ WF_vars(WorkerStep(p))
          /\ WF_vars(ClaimJob(p) \/ ClaimCleanup(p))
          /\ WF_vars(TurnEnds(p))
    /\ WF_vars(\E t \in threads : Materialize(t))
    /\ WF_vars(\E b \in boots : BootStep(b))
    /\ WF_vars(LeaseLapses /\ ~Attended)
    /\ WF_vars(CleanupLeaseLapses /\ ~CleanupAttended)

LiveSpec == Spec /\ Fairness

-----------------------------------------------------------------------------
(* Properties *)

Status == Live \cup {"cancelling", "cancelled", "deletion_pending", "deleted", "ready", "failed"}
JobRow == [status : Status, stage : 1 .. Finalize, attempt : 0 .. MaxAttempts, gen : Nat,
           live : BOOLEAN, cleaner : Process \cup {Nobody}, cleanerLive : BOOLEAN]
ResvRow == [status : {"none", "reserved", "present", "cleanup_required", "released"}, gen : Nat]
ConvState == {"Provisioning", "LlmRequesting", "Idle", "CreationCancelled", "CreationFailed",
              "Deleted"}
Place == {"free", "begin", "reserve", "build", "mark", "commit", "seeded", "load", "send",
          "finalize", "error", "sweep", "release", "finish", "retry"}
WorkerState == [at : Place, gen : Nat, stage : 0 .. Finalize, status : Status \cup {"none"}]
Thread == [proc : Process, gen : Nat]
Spent == [lapses : Nat, crashes : Nat, faults : Nat]
Boot == [proc : Process, gen : Nat, at : {"queued", "stored", "complete"}, evicted : BOOLEAN]

\* Every variable has its type; no attempt is begun beyond the last.
TypeOK ==
    /\ intent \in Intents
    /\ job \in JobRow /\ resv \in ResvRow /\ conv \in ConvState
    /\ message \in BOOLEAN
    /\ worktree \in {"absent", "remains", "linked", "whole"}
    /\ worker \in [Process -> WorkerState]
    /\ threads \subseteq Thread /\ boots \subseteq Boot
    /\ runtime \in [Process -> ConvState \cup {"none"}]
    /\ user \in {"none", "cancel", "delete"}
    /\ spent \in Spent

\* A job is ready only when its conversation has begun: the message is stored, and
\* the conversation is neither being provisioned nor given up.  The worker that
\* takes over a job and finds the message must not take it for a begun turn
\* (process_job, creation_state_allows_existing_message_completion).
ReadyMeansStarted ==
    job.status = "ready" =>
        /\ conv \in {"LlmRequesting", "Idle"}
        /\ intent.message => message

\* A job that is ready has the worktree it reserved, whatever the threads of
\* superseded claims still do: a worktree of its own unless git could not be run,
\* and the whole of it if moreover no crash cut its building short
\* (reconcile_owned_worktree_path).
ReadyHasWorktree ==
    job.status = "ready" /\ intent.worktree =>
        /\ resv.status = "present"
        /\ spent.faults = 0 => Rooted
        /\ Mishaps = 0 => worktree = "whole"

\* The worktree of a creation is, whatever happened, "a clean checkout of that same
\* tree" (specs/inline-references/executive.md).
ReadyIsWhole == job.status = "ready" /\ intent.worktree => worktree = "whole"

\* A worktree is never there without a reservation by which a cleanup can find it,
\* even if the process stops at any point (reserve_conversation_creation_resource).
ResourceRecorded == worktree # "absent" => resv.status # "none"

\* The job is being worked on, or has come to a good end.
Open == job.status \in Live \cup {"ready"}

\* How far a conversation is begun follows what the job, the bootstraps and the
\* runtimes have done: nothing gives up an open job's conversation, and what will
\* complete the job comes after the message and the state are stored.
BeginsInOrder ==
    /\ Open => conv \in {"Provisioning", "LlmRequesting", "Idle"}
    /\ conv = "LlmRequesting" => message
    /\ \A b \in boots : /\ b.at \in {"stored", "complete"} => message
                        /\ b.at = "complete" => conv # "Provisioning"
    /\ \A p \in Process : /\ runtime[p] = "LlmRequesting" => conv # "Provisioning"
                          /\ worker[p].at = "seeded" => ~intent.message

Beyond == {"commit", "seeded", "load", "send", "finalize"}

\* The worktree of an open job: no cleanup is due, a worktree that is recorded or about
\* to be is there, and whatever comes after the recording finds it recorded.
WorktreeComesFirst ==
    Open /\ intent.worktree =>
        /\ resv.status \in {"none", "reserved", "present"}
        /\ (resv.status = "present" \/ \E p \in Process : worker[p].at = "mark") =>
              (spent.faults = 0 => Rooted)
        /\ (message \/ boots # {} \/ \E p \in Process : worker[p].at \in Beyond) =>
              resv.status = "present"

\* The inductive invariant.
CreationInv ==
    /\ TypeOK /\ (job.status = "retry_scheduled" => job.attempt < MaxAttempts)
    /\ BeginsInOrder /\ WorktreeComesFirst
    /\ ReadyMeansStarted /\ ReadyHasWorktree
    /\ worktree # "absent" \/ threads # {} => resv.status # "none"
    /\ worktree = "linked" => Mishaps > 0

\* A creation does not stay in provisioning: whatever crashes, lapses and fails, the
\* conversation is begun, or the job ready, failed, cancelled or deleted in the end
\* (drain_pending_jobs).
CreationProgresses == job.status \in Live ~> (job.status \notin Live \/ conv # "Provisioning")

\* A cancelled creation is cleaned up, unless it is deleted first
\* (reconcile_creation_cleanup, finish_conversation_creation_cleanup).
CancelCompletes ==
    job.status = "cancelling" ~> job.status \in {"cancelled", "deletion_pending", "deleted"}

\* A failed creation gives its reservation back, unless it is deleted first.
FailedReleased == job.status = "failed" ~> (job.status # "failed" \/ ~Unreleased)

\* A deletion, once requested, removes the conversation in the end.
DeletionCompletes == job.status = "deletion_pending" ~> job.status = "deleted"

\* When a creation is cancelled or deleted, and reconciled, no worktree is left.
NothingLeftBehind == job.status \in {"cancelled", "deleted"} => worktree = "absent"

\* While a creation waits for the model's first answer, somebody will ask for it:
\* a runtime that serves the turn, or that is yet to be loaded.
FirstTurnServed ==
    (/\ conv = "LlmRequesting" /\ job.status \in Live
     /\ boots = {} /\ \A p \in Process : ~Provisioning(p))
        => \E p \in Process : runtime[p] \in {"LlmRequesting", "none"}

\* A job is ready only from its last stage.
ReadyAtFinalize == job.status = "ready" => job.stage = Finalize

\* A cancelled conversation is kept as cancelled until it is deleted.
CancelledStays ==
    [][conv = "CreationCancelled" => conv' \in {"CreationCancelled", "Deleted"}]_vars

-----------------------------------------------------------------------------
(* Refinement *)

AbstractPhase ==
    IF job.status \in {"accepted", "retry_scheduled"} THEN "pending"
    ELSE IF job.status = "claimed" THEN "owned"
    ELSE IF job.status \in {"ready", "failed"} THEN "settled"
    ELSE IF job.status \in {"cancelled", "deleted"} THEN "closed"
    ELSE "withdrawn"

Abs == INSTANCE FencedJob WITH
          phase <- AbstractPhase,
          epoch <- job.gen,
          owner <- IF job.status = "claimed" THEN job.gen ELSE 0

\* The statements on the job implement the fenced job that the pure protocol
\* implements: every claim, cancellation and deletion begins an epoch, and a
\* worker, runtime or cleanup of an earlier one changes nothing.
ImplementsFencedJob == Abs!Spec

=============================================================================
