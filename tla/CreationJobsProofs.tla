------------------------- MODULE CreationJobsProofs -------------------------
(***************************************************************************)
(* Proofs about durable creation as it is carried out: what is ready is     *)
(* begun and has its worktree, and the statements implement the fenced job. *)
(***************************************************************************)
EXTENDS CreationJobs, TLAPS

USE SMTT(60), ZenonT(60)

-----------------------------------------------------------------------------
(* What the shared parts of the actions do.                                 *)

LEMMA JobParts ==
    ASSUME NEW j \in JobRow
    PROVE  /\ j.status \in Status /\ j.stage \in 1 .. Finalize /\ j.attempt \in 0 .. MaxAttempts
           /\ j.gen \in Nat /\ j.live \in BOOLEAN
           /\ j.cleaner \in Process \cup {Nobody} /\ j.cleanerLive \in BOOLEAN
BY DEF JobRow

\* Every other worker is left alone.
OthersKept(p) == \A q \in Process : q # p => worker'[q] = worker[q]

LEMMA GotoFacts ==
    ASSUME TypeOK, NEW p \in Process, NEW at \in Place, Goto(p, at)
    PROVE  /\ worker' \in [Process -> WorkerState]
           /\ worker'[p].at = at /\ worker'[p].gen = worker[p].gen /\ OthersKept(p)
BY DEF TypeOK, Goto, WorkerState, OthersKept

LEMMA StopFacts ==
    ASSUME TypeOK, NEW p \in Process, Stop(p)
    PROVE  /\ worker' \in [Process -> WorkerState]
           /\ worker'[p].at = "free" /\ OthersKept(p)
BY DEF TypeOK, Stop, Free, WorkerState, OthersKept, Place, Finalize

\* A worker is given work.
LEMMA GivenFacts ==
    ASSUME TypeOK, NEW p \in Process, NEW w \in WorkerState,
           worker' = [worker EXCEPT ![p] = w]
    PROVE  worker' \in [Process -> WorkerState] /\ worker'[p] = w /\ OthersKept(p)
BY DEF TypeOK, OthersKept

LEMMA StageFacts ==
    ASSUME TypeOK, NEW p \in Process, NEW at \in Place, NEW s \in 0 .. Finalize,
           worker' = [worker EXCEPT ![p].at = at, ![p].stage = s]
    PROVE  /\ worker' \in [Process -> WorkerState]
           /\ worker'[p].at = at /\ OthersKept(p)
BY ZenonT(60) DEF TypeOK, WorkerState, OthersKept

LEMMA CheckpointFacts ==
    ASSUME TypeOK, NEW p \in Process, NEW s \in 1 .. Finalize, NEW at \in Place,
           Checkpoint(p, s, at)
    PROVE  /\ worker' \in [Process -> WorkerState]
           /\ worker'[p].at \in {at, "free"} /\ OthersKept(p)
           /\ job' \in JobRow /\ job'.status = job.status /\ job'.gen = job.gen
           /\ job'.attempt = job.attempt
<1>1. CASE Goto(p, at) /\ job' = job
  BY <1>1, GotoFacts DEF TypeOK
<1>2. CASE /\ job' = [job EXCEPT !.stage = s]
           /\ worker' = [worker EXCEPT ![p].at = at, ![p].stage = s]
  <2>1. s \in 0 .. Finalize
    BY DEF Finalize
  <2>2. /\ worker' \in [Process -> WorkerState]
        /\ worker'[p].at = at /\ OthersKept(p)
    BY ZenonT(60), <1>2, <2>1, StageFacts
  <2>3. /\ job' \in JobRow /\ job'.status = job.status /\ job'.gen = job.gen
        /\ job'.attempt = job.attempt
    BY <1>2 DEF TypeOK, JobRow
  <2> QED
    BY <2>2, <2>3
<1>3. CASE Stop(p) /\ job' = job
  BY <1>3, StopFacts DEF TypeOK
<1> QED
  BY <1>1, <1>2, <1>3 DEF Checkpoint

\* Bootstraps of p marked as evicted.
Marked(p) == {[b EXCEPT !.evicted = (b.evicted \/ b.proc = p)] : b \in boots}

LEMMA MarkedFacts ==
    ASSUME TypeOK, NEW p \in Process
    PROVE  /\ Marked(p) \subseteq Boot
           /\ \A c \in Marked(p) : \E b \in boots : c.at = b.at
<1> SUFFICES ASSUME NEW c \in Marked(p)
             PROVE  c \in Boot /\ \E b \in boots : c.at = b.at
  OBVIOUS
<1>1. PICK b \in boots : c = [b EXCEPT !.evicted = (b.evicted \/ b.proc = p)]
  BY DEF Marked
<1>2. b \in Boot
  BY DEF TypeOK
<1>3. c \in Boot /\ c.at = b.at
  BY <1>1, <1>2, ZenonT(60) DEF Boot
<1> QED
  BY <1>3

LEMMA EvictFacts ==
    ASSUME TypeOK, NEW p \in Process, Evict(p)
    PROVE  /\ runtime' \in [Process -> ConvState \cup {"none"}]
           /\ \A q \in Process : runtime'[q] \in {"none", runtime[q]}
           /\ boots' \subseteq Boot
           /\ \A c \in boots' : \E b \in boots : c.at = b.at
<1>1. boots' = Marked(p) /\ runtime' = [runtime EXCEPT ![p] = "none"]
  BY DEF Evict, Marked
<1> QED
  BY <1>1, MarkedFacts DEF TypeOK

LEMMA StartFacts ==
    ASSUME TypeOK, NEW p \in Process, NEW kept \in SUBSET Boot, StartRuntime(p, kept)
    PROVE  /\ runtime' \in [Process -> ConvState \cup {"none"}]
           /\ \A q \in Process :
                 runtime'[q] = "LlmRequesting" => runtime[q] = "LlmRequesting" \/ conv = "LlmRequesting"
           /\ boots' \subseteq Boot
           /\ \A c \in boots' : c \in kept \/ (c.at = "complete" /\ conv = "LlmRequesting")
<1> DEFINE new == [proc |-> p, gen |-> job.gen, at |-> "complete", evicted |-> FALSE]
<1>1. new \in Boot /\ new.at = "complete"
  BY JobParts DEF TypeOK, Boot
<1>2. boots' = kept \cup IF conv = "LlmRequesting" /\ job.status = "claimed" THEN {new} ELSE {}
  BY DEF StartRuntime
<1> HIDE DEF new
<1>3. /\ boots' \subseteq Boot
      /\ \A c \in boots' : c \in kept \/ (c.at = "complete" /\ conv = "LlmRequesting")
  BY <1>1, <1>2
<1>4. /\ runtime' \in [Process -> ConvState \cup {"none"}]
      /\ \A q \in Process :
            runtime'[q] = "LlmRequesting" => runtime[q] = "LlmRequesting" \/ conv = "LlmRequesting"
  BY DEF TypeOK, StartRuntime, ConvState
<1> QED
  BY <1>3, <1>4

\* The moves of the job's status and generation: it is claimed, its owner puts it
\* back or settles it, the user withdraws it, a cleanup closes it, or neither changes.
JobMoves ==
    \/ job'.status = job.status /\ job'.gen = job.gen
    \/ Claimable /\ job'.status = "claimed" /\ job'.gen = job.gen + 1
    \/ /\ job.status = "claimed" /\ job'.gen = job.gen
       /\ job'.status \in {"retry_scheduled", "ready", "failed"}
    \/ job'.status \in {"cancelling", "deletion_pending"} /\ job'.gen = job.gen + 1
    \/ job.status = "cancelling" /\ job'.status = "cancelled" /\ job'.gen = job.gen
    \/ job.status = "deletion_pending" /\ job'.status = "deleted" /\ job'.gen = job.gen

\* A job that was given up is not taken up again.
LEMMA OpenFacts ==
    ASSUME JobMoves
    PROVE  /\ Open' => Open
           /\ job'.status = "ready" => job.status \in {"claimed", "ready"}
BY DEF JobMoves, Open, Live, Claimable

LEMMA SettledFacts ==
    ASSUME TypeOK, NEW s \in Status
    PROVE  /\ Settled(s) \in JobRow /\ Settled(s).status = s /\ Settled(s).gen = job.gen
           /\ Settled(s).attempt = job.attempt
BY ZenonT(60) DEF TypeOK, Settled, JobRow

LEMMA WithdrawnFacts ==
    ASSUME TypeOK, NEW s \in {"cancelling", "deletion_pending"},
           job' = NoCleaner([Settled(s) EXCEPT !.gen = @ + 1])
    PROVE  job' \in JobRow /\ job'.status = s /\ job'.gen = job.gen + 1
<1>1. Settled(s) \in JobRow /\ Settled(s).gen = job.gen /\ Settled(s).status = s
  BY SettledFacts DEF Status
<1> DEFINE j == [Settled(s) EXCEPT !.gen = @ + 1]
<1>2. j \in JobRow /\ j.gen = job.gen + 1 /\ j.status = s
  BY <1>1, JobParts DEF TypeOK, JobRow
<1> HIDE DEF j
<1>3. NoCleaner(j) \in JobRow /\ NoCleaner(j).gen = j.gen /\ NoCleaner(j).status = j.status
  BY ZenonT(60), <1>2 DEF NoCleaner, JobRow
<1> QED
  BY <1>2, <1>3 DEF j

LEMMA CompleteFacts ==
    ASSUME TypeOK, NEW g, CompleteJob(g)
    PROVE  /\ job' \in JobRow /\ JobMoves
           /\ job'.status = job.status \/ (job.status = "claimed" /\ job'.status = "ready")
<1>1. CASE Current(g)
  <2>1. job' = Settled("ready") /\ job.status = "claimed"
    BY <1>1 DEF CompleteJob, Current
  <2> QED
    BY <2>1, SettledFacts DEF JobMoves, Status
<1>2. CASE ~Current(g)
  BY <1>2 DEF CompleteJob, TypeOK, JobMoves
<1> QED
  BY <1>1, <1>2

-----------------------------------------------------------------------------
(* What keeps the two parts of the invariant, whichever action it is.       *)

Story == BeginsInOrder /\ ReadyMeansStarted
Sound == spent.faults = 0 => worktree \in {"linked", "whole"}
Grounded == job.status = "ready" /\ intent.worktree => resv.status = "present" /\ Sound
Tree == WorktreeComesFirst /\ Grounded
Recorded ==
    /\ worktree # "absent" \/ threads # {} => resv.status # "none"
    /\ worktree = "linked" => spent.crashes + spent.faults > 0
Tries == job.status = "retry_scheduled" => job.attempt < MaxAttempts

LEMMA Parts ==
    /\ CreationInv <=> TypeOK /\ Tries /\ Story /\ Tree /\ Recorded
    /\ CreationInv' <=> TypeOK' /\ Tries' /\ Story' /\ Tree' /\ Recorded'
<1>1. TypeOK => spent.crashes \in Nat /\ spent.faults \in Nat
  BY DEF TypeOK, Spent
<1>2. TypeOK' => spent'.crashes \in Nat /\ spent'.faults \in Nat
  BY DEF TypeOK, Spent
<1>3. TypeOK /\ Recorded => (ReadyHasWorktree <=> Grounded)
  BY <1>1 DEF Recorded, ReadyHasWorktree, Grounded, Sound, Rooted, Mishaps
<1>4. TypeOK' /\ Recorded' => (ReadyHasWorktree' <=> Grounded')
  BY <1>2 DEF Recorded, ReadyHasWorktree, Grounded, Sound, Rooted, Mishaps
<1>5. CreationInv <=> TypeOK /\ Tries /\ Story /\ WorktreeComesFirst /\ ReadyHasWorktree /\ Recorded
  BY DEF CreationInv, Story, Recorded, Tries, Mishaps
<1>6. CreationInv' <=>
         TypeOK' /\ Tries' /\ Story' /\ WorktreeComesFirst' /\ ReadyHasWorktree' /\ Recorded'
  BY DEF CreationInv, Story, Recorded, Tries, Mishaps
<1> QED
  BY <1>3, <1>4, <1>5, <1>6 DEF Tree

\* The leases that lapsed and the cleanups that failed are counted, no crash or fault is.
OnlyTime == spent' \in Spent /\ spent'.faults = spent.faults /\ spent'.crashes = spent.crashes

LEMMA TimeFacts ==
    ASSUME TypeOK, spent' = spent \/ spent' = [spent EXCEPT !.lapses = @ + 1]
    PROVE  OnlyTime
BY DEF TypeOK, Spent, OnlyTime

\* No worker comes to complete an empty conversation that is given a message.
SeededFits == \A p \in Process : worker'[p].at = "seeded" => worker[p].at = "seeded" \/ ~intent.message

\* A step that begins nothing: the conversation is left alone, or is that of a job
\* that is given up, and no bootstrap or turn is new.
LEMMA StoryKept ==
    ASSUME Story, JobMoves, intent' = intent, message' = message, SeededFits,
           job'.status = "ready" => job.status = "ready",
           \/ conv' = conv
           \/ ~Open' /\ conv' \in {"Deleted", "CreationFailed", "CreationCancelled"},
           \A c \in boots' : \E b \in boots : c.at = b.at,
           \A p \in Process : runtime'[p] = "LlmRequesting" => runtime[p] = "LlmRequesting"
    PROVE  Story'
<1>1. Open' => Open
  BY OpenFacts
<1>2. job'.status = "ready" => Open'
  BY DEF Open
<1>3. BeginsInOrder'
  BY <1>1 DEF Story, BeginsInOrder, SeededFits
<1>4. ReadyMeansStarted'
  BY <1>2 DEF Story, ReadyMeansStarted
<1> QED
  BY <1>3, <1>4 DEF Story

\* What comes after the recording of the worktree.
Past == message \/ boots # {} \/ \E p \in Process : worker[p].at \in Beyond

\* A step that takes nothing away from the worktree of an open job, records it only
\* when it is there, and goes past the recording only when it is recorded.
LEMMA TreeKept ==
    ASSUME Tree, JobMoves, intent' = intent,
           ASSUME Open', Open, intent.worktree
           PROVE  /\ \/ resv'.status = resv.status
                     \/ resv'.status = "reserved" /\ resv.status # "present"
                     \/ resv'.status = "present" /\ (resv.status = "present" \/ Sound')
                  /\ Sound => Sound'
                  /\ \A p \in Process :
                        worker'[p].at = "mark" => worker[p].at = "mark" \/ Sound'
                  /\ Past' => Past \/ resv'.status = "present"
                  /\ job'.status = "ready" => job.status = "ready" \/ Past
    PROVE  Tree'
<1>1. Open' => Open
  BY OpenFacts
<1>2. job'.status = "ready" => Open'
  BY DEF Open
<1>3. WorktreeComesFirst'
  BY <1>1 DEF Tree, WorktreeComesFirst, Past, Sound, Rooted
<1>4. Grounded'
  <2> SUFFICES ASSUME job'.status = "ready", intent.worktree
               PROVE  resv'.status = "present" /\ Sound'
    BY DEF Grounded
  <2>1. Open' /\ Open
    BY <1>1, <1>2
  <2>2. resv.status = "present" /\ Sound
    BY <2>1 DEF Tree, WorktreeComesFirst, Grounded, Past, Sound, Rooted
  <2> QED
    BY <2>1, <2>2
<1> QED
  BY <1>3, <1>4 DEF Tree

\* A step that touches neither the reservation nor the worktree, and nobody goes past
\* the recording in it.
LEMMA TreeAlone ==
    ASSUME Tree, JobMoves, intent' = intent, resv' = resv, worktree' = worktree,
           spent'.faults = spent.faults,
           \A p \in Process : worker'[p].at = "mark" => worker[p].at = "mark",
           Open' /\ Open /\ intent.worktree => (Past' => Past),
           job'.status = "ready" => job.status = "ready" \/ Past
    PROVE  Tree'
<1>1. Sound => Sound'
  BY DEF Sound
<1> QED
  BY ZenonT(60), <1>1, TreeKept

\* A step in which a worker stops or goes on, to something before the recording of the
\* worktree or to a cleanup, and nothing else of consequence changes.
LEMMA QuietKeeps ==
    ASSUME CreationInv, NEW p \in Process,
           worker' \in [Process -> WorkerState], OthersKept(p),
           worker'[p].at \in {"free", "begin", "error", "sweep", "release", "finish", "retry"},
           job' \in JobRow, job'.status = job.status, job'.gen = job.gen,
           job'.attempt = job.attempt, OnlyTime,
           UNCHANGED <<intent, resv, conv, message, worktree, threads, boots, runtime, user>>
    PROVE  CreationInv' /\ JobMoves
<1>1. TypeOK /\ Tries /\ Story /\ Tree /\ Recorded
  BY Parts
<1>2. JobMoves
  BY DEF JobMoves
<1>3. TypeOK' /\ Tries' /\ Recorded'
  BY <1>1 DEF TypeOK, Tries, Recorded, OnlyTime
<1>4. Story'
  BY <1>1, <1>2, StoryKept DEF SeededFits, OthersKept
<1>5. Tree'
  BY <1>1, <1>2, TreeAlone DEF OthersKept, Past, Beyond, OnlyTime
<1> QED
  BY <1>2, <1>3, <1>4, <1>5, Parts

\* A worker just stops.
LEMMA StopKeeps ==
    ASSUME CreationInv, NEW p \in Process, Stop(p),
           UNCHANGED <<intent, durable, worktree, threads, boots, runtime, user, spent>>
    PROVE  CreationInv' /\ JobMoves
<1>1. TypeOK
  BY Parts
<1>2. worker' \in [Process -> WorkerState] /\ worker'[p].at = "free" /\ OthersKept(p)
  BY <1>1, StopFacts
<1>3. /\ job' = job /\ job' \in JobRow /\ OnlyTime
      /\ UNCHANGED <<intent, resv, conv, message, worktree, threads, boots, runtime, user>>
  BY <1>1, TimeFacts DEF TypeOK, durable
<1> QED
  BY <1>2, <1>3, QuietKeeps

-----------------------------------------------------------------------------
(* The worker provisions.                                                   *)

LEMMA ClaimKeeps ==
    ASSUME CreationInv, NEW p \in Process, ClaimJob(p)
    PROVE  CreationInv' /\ JobMoves
<1> DEFINE w == [at |-> "begin", gen |-> job'.gen, stage |-> job.stage, status |-> "claimed"]
<1>1. TypeOK /\ Tries /\ Story /\ Tree /\ Recorded
  BY Parts
<1>2. job \in JobRow
  BY <1>1 DEF TypeOK
<1>3. job' \in JobRow /\ job'.status = "claimed" /\ job'.gen = job.gen + 1
  <2> DEFINE a == IF job.status = "accepted" THEN 1
                  ELSE IF job.status = "retry_scheduled" THEN job.attempt + 1 ELSE job.attempt
  <2>1. a \in 0 .. MaxAttempts
    BY <1>1, <1>2, BoundAssumption, JobParts DEF Tries
  <2>2. job' = [job EXCEPT !.status = "claimed", !.gen = job.gen + 1, !.live = TRUE,
                           !.attempt = a]
    BY DEF ClaimJob
  <2> HIDE DEF a
  <2>3. "claimed" \in Status /\ job.gen + 1 \in Nat
    BY <1>2, JobParts DEF Status, Live
  <2> QED
    BY ZenonT(60), <1>2, <2>1, <2>2, <2>3 DEF JobRow
<1>4. JobMoves
  BY <1>3 DEF ClaimJob, JobMoves
<1>5. w \in WorkerState /\ w.at = "begin"
  BY <1>2, <1>3, JobParts DEF WorkerState, Place, Status, Live, Finalize
<1>6. worker' \in [Process -> WorkerState] /\ worker'[p].at = "begin" /\ OthersKept(p)
  BY ZenonT(60), <1>1, <1>5, GivenFacts DEF ClaimJob
<1>7. UNCHANGED <<intent, resv, conv, message, worktree, threads, boots, runtime, user, spent>>
  BY DEF ClaimJob
<1>8. TypeOK'
  BY <1>1, <1>3, <1>6, <1>7 DEF TypeOK
<1>9. Story'
  BY <1>1, <1>3, <1>4, <1>6, <1>7, StoryKept DEF SeededFits, OthersKept
<1>10. Tree'
  BY <1>1, <1>3, <1>4, <1>6, <1>7, TreeAlone DEF OthersKept, Past, Beyond
<1> QED
  BY <1>1, <1>3, <1>4, <1>7, <1>8, <1>9, <1>10, Parts DEF Tries, Recorded

LEMMA BeginKeeps ==
    ASSUME CreationInv, NEW p \in Process, Begin(p)
    PROVE  CreationInv' /\ JobMoves
<1>1. TypeOK /\ Tries /\ Story /\ Tree /\ Recorded
  BY Parts
<1>2. UNCHANGED <<intent, resv, conv, message, worktree, threads, user, spent>>
  BY DEF Begin
<1>3. CASE /\ message /\ AllowsCompletion(conv)
           /\ CompleteJob(worker[p].gen) /\ Stop(p) /\ UNCHANGED <<boots, runtime>>
  <2>1. worker' \in [Process -> WorkerState] /\ worker'[p].at = "free" /\ OthersKept(p)
    BY <1>1, <1>3, StopFacts
  <2>2. /\ job' \in JobRow /\ JobMoves
        /\ job'.status = job.status \/ (job.status = "claimed" /\ job'.status = "ready")
        /\ job' = job \/ job'.status = "ready"
    BY <1>1, <1>3, CompleteFacts, SettledFacts DEF CompleteJob, Status
  <2>3. TypeOK' /\ Tries' /\ Recorded'
    BY <1>1, <1>2, <1>3, <2>1, <2>2 DEF TypeOK, Tries, Recorded
  <2>4. BeginsInOrder'
    <3>1. Open' => Open
      BY <2>2, OpenFacts
    <3> QED
      BY <1>1, <1>2, <1>3, <2>1, <3>1 DEF Story, BeginsInOrder, OthersKept
  <2>5. ReadyMeansStarted'
    <3>1. job'.status = "ready" => Open
      BY <2>2 DEF Open, Live
    <3> QED
      BY <1>1, <1>2, <1>3, <3>1
         DEF Story, BeginsInOrder, ReadyMeansStarted, AllowsCompletion
  <2>6. Tree'
    BY <1>1, <1>2, <1>3, <2>1, <2>2, TreeAlone DEF OthersKept, Past, Beyond
  <2> QED
    BY <2>2, <2>3, <2>4, <2>5, <2>6, Parts DEF Story
<1>4. CASE /\ message /\ conv = "LlmRequesting"
           /\ IF runtime[p] = "none" THEN StartRuntime(p, boots) ELSE UNCHANGED <<boots, runtime>>
           /\ Stop(p) /\ UNCHANGED job
  <2>1. worker' \in [Process -> WorkerState] /\ worker'[p].at = "free" /\ OthersKept(p)
    BY <1>1, <1>4, StopFacts
  <2>2. JobMoves
    BY <1>4 DEF JobMoves
  <2>3. /\ runtime' \in [Process -> ConvState \cup {"none"}]
        /\ boots' \subseteq Boot
        /\ \A c \in boots' : c \in boots \/ (c.at = "complete" /\ conv = "LlmRequesting")
    BY <1>1, <1>4, StartFacts DEF TypeOK
  <2>4. TypeOK' /\ Tries' /\ Recorded'
    BY <1>1, <1>2, <1>4, <2>1, <2>3 DEF TypeOK, Tries, Recorded
  <2>5. Story'
    BY <1>1, <1>2, <1>4, <2>1, <2>3
       DEF Story, BeginsInOrder, ReadyMeansStarted, Open, OthersKept
  <2>6. Tree'
    BY <1>1, <1>2, <1>4, <2>1, <2>2, TreeAlone DEF OthersKept, Past, Beyond
  <2> QED
    BY <2>2, <2>4, <2>5, <2>6, Parts
<1>5. CASE /\ Checkpoint(p, ResolveRepository, IF intent.worktree THEN "reserve" ELSE "commit")
           /\ UNCHANGED <<boots, runtime>>
  <2> DEFINE at == IF intent.worktree THEN "reserve" ELSE "commit"
  <2>1. at \in Place /\ ResolveRepository \in 1 .. Finalize
    BY DEF Place, ResolveRepository, Finalize
  <2>2. /\ worker' \in [Process -> WorkerState]
        /\ worker'[p].at \in {at, "free"} /\ OthersKept(p)
        /\ job' \in JobRow /\ job'.status = job.status /\ job'.gen = job.gen
        /\ job'.attempt = job.attempt
    BY <1>1, <1>5, <2>1, CheckpointFacts
  <2>3. JobMoves
    BY <2>2 DEF JobMoves
  <2>4. TypeOK' /\ Tries' /\ Recorded'
    BY <1>1, <1>2, <1>5, <2>2 DEF TypeOK, Tries, Recorded
  <2>5. Story'
    BY <1>1, <1>2, <1>5, <2>2, <2>3, StoryKept DEF SeededFits, OthersKept
  <2>6. Tree'
    BY <1>1, <1>2, <1>5, <2>2, <2>3, TreeAlone DEF OthersKept, Past, Beyond
  <2> QED
    BY <2>3, <2>4, <2>5, <2>6, Parts
<1> QED
  BY <1>3, <1>4, <1>5 DEF Begin

LEMMA ReserveKeeps ==
    ASSUME CreationInv, NEW p \in Process, Reserve(p)
    PROVE  CreationInv' /\ JobMoves
<1>1. TypeOK /\ Tries /\ Story /\ Tree /\ Recorded
  BY Parts
<1>2. UNCHANGED <<intent, conv, message, worktree, boots, runtime, user, spent>>
  BY DEF Reserve
<1>3. CASE /\ Current(worker[p].gen)
           /\ job' = [job EXCEPT !.stage = Later(@, MaterializeWorktree)]
           /\ worker' = [worker EXCEPT ![p].at = "build", ![p].stage = job'.stage]
           /\ resv' = [status |-> IF resv.status = "present" THEN "present" ELSE "reserved",
                       gen |-> worker[p].gen]
           /\ threads' = threads \cup {[proc |-> p, gen |-> worker[p].gen]}
  <2>1. worker[p].gen \in Nat
    BY <1>1 DEF TypeOK, WorkerState
  <2>2. /\ job' \in JobRow /\ job'.status = job.status /\ job'.gen = job.gen
        /\ job'.attempt = job.attempt
    BY <1>1, <1>3 DEF TypeOK, JobRow, Later, MaterializeWorktree, Finalize
  <2>3. job'.stage \in 0 .. Finalize /\ "build" \in Place
    BY <2>2, JobParts DEF Place, Finalize
  <2>4. worker' \in [Process -> WorkerState] /\ worker'[p].at = "build" /\ OthersKept(p)
    BY ZenonT(60), <1>1, <1>3, <2>3, StageFacts
  <2>5. /\ resv' \in ResvRow
        /\ resv'.status = IF resv.status = "present" THEN "present" ELSE "reserved"
    BY <1>3, <2>1 DEF ResvRow
  <2>6. threads' \subseteq Thread
    BY <1>1, <1>3, <2>1 DEF TypeOK, Thread
  <2>7. JobMoves
    BY <2>2 DEF JobMoves
  <2>8. TypeOK' /\ Tries' /\ Recorded'
    BY <1>1, <1>2, <2>2, <2>4, <2>5, <2>6 DEF TypeOK, Tries, Recorded
  <2>9. Story'
    BY <1>1, <1>2, <2>2, <2>4, <2>7, StoryKept DEF SeededFits, OthersKept
  <2>10. Sound => Sound'
    BY <1>2 DEF Sound
  <2>11. Tree'
    BY ZenonT(60), <1>1, <1>2, <2>2, <2>4, <2>5, <2>7, <2>10, TreeKept DEF OthersKept, Past, Beyond
  <2> QED
    BY <2>7, <2>8, <2>9, <2>11, Parts
<1>4. CASE Stop(p) /\ UNCHANGED <<job, resv, threads>>
  BY <1>2, <1>4, StopKeeps DEF durable
<1> QED
  BY <1>3, <1>4 DEF Reserve

LEMMA MaterializeKeeps ==
    ASSUME CreationInv, NEW t \in threads, Materialize(t)
    PROVE  CreationInv' /\ JobMoves
<1>1. TypeOK /\ Tries /\ Story /\ Tree /\ Recorded
  BY Parts
<1>2. /\ threads' = threads \ {t}
      /\ UNCHANGED <<intent, job, resv, conv, message, boots, runtime, user>>
  BY DEF Materialize, durable
<1>3. t.proc \in Process
  BY <1>1 DEF TypeOK, Thread
<1>4. PICK ok \in BOOLEAN :
         /\ \/ worktree' \in Rebuilt(ok) /\ spent' = spent
            \/ worktree' \in Spoiled(ok) /\ spent' = [spent EXCEPT !.faults = @ + 1]
         /\ Goto(t.proc, IF ok THEN "mark" ELSE "error") \/ worker' = worker
  BY DEF Materialize
<1>5. /\ worktree' \in {"absent", "remains", "linked", "whole"} /\ spent' \in Spent
      /\ (worktree' = "linked" => spent'.crashes + spent'.faults > 0)
      /\ Sound => Sound'
      /\ ok => Sound'
  <2>1. CASE worktree' \in Rebuilt(ok) /\ spent' = spent
    BY <1>1, <2>1 DEF TypeOK, Rebuilt, Built, Rooted, Sound, Recorded
  <2>2. CASE worktree' \in Spoiled(ok) /\ spent' = [spent EXCEPT !.faults = @ + 1]
    <3>1. /\ spent' \in Spent /\ spent'.faults > 0
          /\ spent'.crashes \in Nat /\ spent'.faults \in Nat
      BY <1>1, <2>2 DEF TypeOK, Spent
    <3> QED
      BY <2>2, <3>1 DEF Spoiled, Sound
  <2> QED
    BY <1>4, <2>1, <2>2
<1>6. /\ worker' \in [Process -> WorkerState]
      /\ \A q \in Process : \/ worker'[q] = worker[q]
                            \/ worker'[q].at = "error"
                            \/ worker'[q].at = "mark" /\ Sound'
  <2>1. CASE worker' = worker
    BY <1>1, <2>1 DEF TypeOK
  <2>2. CASE Goto(t.proc, IF ok THEN "mark" ELSE "error")
    <3> DEFINE at == IF ok THEN "mark" ELSE "error"
    <3>1. at \in Place
      BY DEF Place
    <3>2. worker' \in [Process -> WorkerState] /\ worker'[t.proc].at = at /\ OthersKept(t.proc)
      BY <1>1, <1>3, <2>2, <3>1, GotoFacts
    <3> QED
      BY <1>5, <3>2 DEF OthersKept
  <2> QED
    BY <1>4, <2>1, <2>2
<1>7. JobMoves
  BY <1>2 DEF JobMoves
<1>8. TypeOK' /\ Tries' /\ Recorded'
  BY <1>1, <1>2, <1>5, <1>6 DEF TypeOK, Tries, Recorded
<1>9. Story'
  BY <1>1, <1>2, <1>6, <1>7, StoryKept DEF SeededFits
<1>10. Tree'
  BY ZenonT(60), <1>1, <1>2, <1>5, <1>6, <1>7, TreeKept DEF Past, Beyond
<1> QED
  BY <1>7, <1>8, <1>9, <1>10, Parts

LEMMA MarkKeeps ==
    ASSUME CreationInv, NEW p \in Process, MarkPresent(p)
    PROVE  CreationInv' /\ JobMoves
<1>1. TypeOK /\ Tries /\ Story /\ Tree /\ Recorded
  BY Parts
<1>2. /\ worker[p].at = "mark"
      /\ UNCHANGED <<intent, conv, message, worktree, threads, boots, runtime, user, spent>>
  BY DEF MarkPresent
<1>3. CASE /\ Current(worker[p].gen)
           /\ resv' = [resv EXCEPT !.status = "present"]
           /\ job' = [job EXCEPT !.stage = Later(@, FinalizeAttachments)]
           /\ worker' = [worker EXCEPT ![p].at = "commit", ![p].stage = job'.stage]
  <2>1. /\ job' \in JobRow /\ job'.status = job.status /\ job'.gen = job.gen
        /\ job'.attempt = job.attempt
    BY <1>1, <1>3 DEF TypeOK, JobRow, Later, FinalizeAttachments, Finalize
  <2>2. job'.stage \in 0 .. Finalize /\ "commit" \in Place
    BY <2>1, JobParts DEF Place, Finalize
  <2>3. worker' \in [Process -> WorkerState] /\ worker'[p].at = "commit" /\ OthersKept(p)
    BY ZenonT(60), <1>1, <1>3, <2>2, StageFacts
  <2>4. resv' \in ResvRow /\ resv'.status = "present"
    BY <1>1, <1>3 DEF TypeOK, ResvRow
  <2>5. /\ Open /\ intent.worktree => Sound
        /\ Sound => Sound'
    BY <1>1, <1>2 DEF Tree, WorktreeComesFirst, Sound, Rooted
  <2>6. JobMoves
    BY <2>1 DEF JobMoves
  <2>7. TypeOK' /\ Tries' /\ Recorded'
    BY <1>1, <1>2, <2>1, <2>3, <2>4 DEF TypeOK, Tries, Recorded
  <2>8. Story'
    BY <1>1, <1>2, <2>1, <2>3, <2>6, StoryKept DEF SeededFits, OthersKept
  <2>9. Tree'
    BY ZenonT(60), <1>1, <1>2, <2>1, <2>3, <2>4, <2>5, <2>6, TreeKept DEF OthersKept
  <2> QED
    BY <2>6, <2>7, <2>8, <2>9, Parts
<1>4. CASE Stop(p) /\ UNCHANGED <<job, resv>>
  BY <1>2, <1>4, StopKeeps DEF durable
<1> QED
  BY <1>3, <1>4 DEF MarkPresent

LEMMA CommitKeeps ==
    ASSUME CreationInv, NEW p \in Process, Commit(p)
    PROVE  CreationInv' /\ JobMoves
<1> DEFINE at == IF intent.message THEN "load" ELSE "seeded"
<1>1. TypeOK /\ Tries /\ Story /\ Tree /\ Recorded
  BY Parts
<1>2. /\ worker[p].at = "commit" /\ Checkpoint(p, CommitMetadata, at)
      /\ UNCHANGED <<intent, resv, conv, message, worktree, threads, boots, runtime, user, spent>>
  BY DEF Commit
<1>3. at \in Place /\ CommitMetadata \in 1 .. Finalize
  BY DEF Place, CommitMetadata, Finalize
<1>4. /\ worker' \in [Process -> WorkerState]
      /\ worker'[p].at \in {at, "free"} /\ OthersKept(p)
      /\ job' \in JobRow /\ job'.status = job.status /\ job'.gen = job.gen
      /\ job'.attempt = job.attempt
  BY <1>1, <1>2, <1>3, CheckpointFacts
<1>5. JobMoves
  BY <1>4 DEF JobMoves
<1>6. TypeOK' /\ Tries' /\ Recorded'
  BY <1>1, <1>2, <1>4 DEF TypeOK, Tries, Recorded
<1>7. Story'
  BY <1>1, <1>2, <1>4, <1>5, StoryKept DEF SeededFits, OthersKept
<1>8. Past
  BY <1>2 DEF Past, Beyond
<1>9. Tree'
  BY <1>1, <1>2, <1>4, <1>5, <1>8, TreeAlone DEF OthersKept
<1> QED
  BY <1>5, <1>6, <1>7, <1>9, Parts

LEMMA SeededKeeps ==
    ASSUME CreationInv, NEW p \in Process, CompleteSeededEmpty(p)
    PROVE  CreationInv' /\ JobMoves
<1>1. TypeOK /\ Tries /\ Story /\ Tree /\ Recorded
  BY Parts
<1>2. /\ worker[p].at = "seeded" /\ Stop(p)
      /\ UNCHANGED <<intent, resv, message, worktree, threads, user, spent>>
  BY DEF CompleteSeededEmpty
<1>3. CASE /\ Current(worker[p].gen)
           /\ job' = [Settled("ready") EXCEPT !.stage = Finalize]
           /\ conv' = "Idle" /\ Evict(p)
  <2>1. worker' \in [Process -> WorkerState] /\ worker'[p].at = "free" /\ OthersKept(p)
    BY <1>1, <1>2, StopFacts
  <2>2. Settled("ready") \in JobRow /\ Settled("ready").gen = job.gen
    BY <1>1, SettledFacts DEF Status
  <2>3. job' \in JobRow /\ job'.status = "ready" /\ job'.gen = job.gen
    BY <1>1, <1>3, <2>2, SettledFacts DEF JobRow, Status, Finalize
  <2>4. JobMoves /\ Open
    BY <1>3, <2>3 DEF JobMoves, Current, Open, Live
  <2>5. /\ runtime' \in [Process -> ConvState \cup {"none"}] /\ boots' \subseteq Boot
        /\ \A q \in Process : runtime'[q] \in {"none", runtime[q]}
        /\ \A c \in boots' : \E b \in boots : c.at = b.at
    BY <1>1, <1>3, EvictFacts
  <2>6. TypeOK' /\ Tries' /\ Recorded'
    BY <1>1, <1>2, <1>3, <2>1, <2>3, <2>5 DEF TypeOK, Tries, Recorded, ConvState
  <2>7. ~intent.message
    BY <1>1, <1>2 DEF Story, BeginsInOrder
  <2>8. Story'
    BY <1>1, <1>2, <1>3, <2>1, <2>5, <2>7
       DEF Story, BeginsInOrder, ReadyMeansStarted, OthersKept
  <2>9. Past
    BY <1>2 DEF Past, Beyond
  <2>10. Tree'
    BY <1>1, <1>2, <2>1, <2>4, <2>9, TreeAlone DEF OthersKept
  <2> QED
    BY <2>4, <2>6, <2>8, <2>10, Parts
<1>4. CASE UNCHANGED <<job, conv, boots, runtime>>
  BY <1>2, <1>4, StopKeeps DEF durable
<1> QED
  BY <1>3, <1>4 DEF CompleteSeededEmpty

LEMMA LoadKeeps ==
    ASSUME CreationInv, NEW p \in Process, Load(p)
    PROVE  CreationInv' /\ JobMoves
<1>1. TypeOK /\ Tries /\ Story /\ Tree /\ Recorded
  BY Parts
<1>2. /\ worker[p].at = "load" /\ Goto(p, "send") /\ StartRuntime(p, Marked(p))
      /\ UNCHANGED <<intent, job, resv, conv, message, worktree, threads, user, spent>>
  BY DEF Load, durable, Marked
<1>3. worker' \in [Process -> WorkerState] /\ worker'[p].at = "send" /\ OthersKept(p)
  BY <1>1, <1>2, GotoFacts DEF Place
<1>4. Marked(p) \in SUBSET Boot /\ \A c \in Marked(p) : \E b \in boots : c.at = b.at
  BY <1>1, MarkedFacts
<1>5. /\ runtime' \in [Process -> ConvState \cup {"none"}] /\ boots' \subseteq Boot
      /\ \A q \in Process :
            runtime'[q] = "LlmRequesting" => runtime[q] = "LlmRequesting" \/ conv = "LlmRequesting"
      /\ \A c \in boots' : \/ \E b \in boots : c.at = b.at
                           \/ c.at = "complete" /\ conv = "LlmRequesting"
  BY <1>1, <1>2, <1>4, StartFacts
<1>6. JobMoves
  BY <1>2 DEF JobMoves
<1>7. TypeOK' /\ Tries' /\ Recorded'
  BY <1>1, <1>2, <1>3, <1>5 DEF TypeOK, Tries, Recorded
<1>8. Story'
  BY <1>1, <1>2, <1>3, <1>5 DEF Story, BeginsInOrder, ReadyMeansStarted, Open, OthersKept
<1>9. Past
  BY <1>2 DEF Past, Beyond
<1>10. Tree'
  BY ZenonT(60), <1>1, <1>2, <1>3, <1>6, <1>9, TreeAlone DEF OthersKept
<1> QED
  BY <1>6, <1>7, <1>8, <1>10, Parts

LEMMA SendKeeps ==
    ASSUME CreationInv, NEW p \in Process, Send(p)
    PROVE  CreationInv' /\ JobMoves
<1> DEFINE new == [proc |-> p, gen |-> worker[p].gen, at |-> "queued", evicted |-> FALSE]
<1>1. TypeOK /\ Tries /\ Story /\ Tree /\ Recorded
  BY Parts
<1>2. /\ worker[p].at = "send"
      /\ UNCHANGED <<intent, job, resv, conv, message, worktree, threads, runtime, user, spent>>
  BY DEF Send, durable
<1>3. new \in Boot /\ new.at = "queued"
  BY <1>1 DEF TypeOK, WorkerState, Boot
<1>4. CASE /\ Goto(p, "finalize")
           /\ boots' = boots \cup IF runtime[p] = "Provisioning" THEN {new} ELSE {}
  <2> HIDE DEF new
  <2>1. worker' \in [Process -> WorkerState] /\ worker'[p].at = "finalize" /\ OthersKept(p)
    BY <1>1, <1>4, GotoFacts DEF Place
  <2>2. boots' \subseteq Boot /\ \A c \in boots' : c \in boots \/ c.at = "queued"
    BY <1>1, <1>3, <1>4 DEF TypeOK
  <2>3. JobMoves
    BY <1>2 DEF JobMoves
  <2>4. TypeOK' /\ Tries' /\ Recorded'
    BY <1>1, <1>2, <2>1, <2>2 DEF TypeOK, Tries, Recorded
  <2>5. Story'
    BY <1>1, <1>2, <2>1, <2>2 DEF Story, BeginsInOrder, ReadyMeansStarted, Open, OthersKept
  <2>6. Past
    BY <1>2 DEF Past, Beyond
  <2>7. Tree'
    BY <1>1, <1>2, <2>1, <2>3, <2>6, TreeAlone DEF OthersKept
  <2> QED
    BY <2>3, <2>4, <2>5, <2>7, Parts
<1>5. CASE Stop(p) /\ UNCHANGED boots
  BY <1>2, <1>5, StopKeeps DEF durable
<1> QED
  BY ZenonT(60), <1>4, <1>5 DEF Send

LEMMA FinalizeKeeps ==
    ASSUME CreationInv, NEW p \in Process, FinalizeStage(p)
    PROVE  CreationInv' /\ JobMoves
<1>1. TypeOK
  BY Parts
<1>2. worker' \in [Process -> WorkerState] /\ worker'[p].at = "free" /\ OthersKept(p)
  BY <1>1, StopFacts DEF FinalizeStage
<1>3. /\ job' \in JobRow /\ job'.status = job.status /\ job'.gen = job.gen
      /\ job'.attempt = job.attempt
  BY <1>1 DEF FinalizeStage, TypeOK, JobRow, Finalize
<1> QED
  BY <1>1, <1>2, <1>3, QuietKeeps, TimeFacts DEF FinalizeStage, TypeOK

\* A failed step puts the job back or gives it up; a lost claim changes nothing.
LEMMA FailKeeps ==
    ASSUME CreationInv, NEW p \in Process, Fail(p)
    PROVE  CreationInv' /\ JobMoves
<1>1. TypeOK /\ Tries /\ Story /\ Tree /\ Recorded
  BY Parts
<1>2. Stop(p) /\ UNCHANGED <<intent, message, worktree, threads, user, spent>>
  BY ZenonT(60) DEF Fail
<1>3. worker' \in [Process -> WorkerState] /\ worker'[p].at = "free" /\ OthersKept(p)
  BY <1>1, <1>2, StopFacts
<1>4. CASE /\ Current(worker[p].gen) /\ AttemptLeft
           /\ job' = Settled("retry_scheduled")
           /\ UNCHANGED <<resv, conv, boots, runtime>>
  <2>1. /\ job' \in JobRow /\ job'.status = "retry_scheduled" /\ job'.gen = job.gen
        /\ job'.attempt < MaxAttempts
    BY <1>1, <1>4, SettledFacts DEF Status, Live, AttemptLeft
  <2>2. JobMoves
    BY <1>4, <2>1 DEF JobMoves, Current
  <2>3. TypeOK' /\ Tries' /\ Recorded'
    BY <1>1, <1>2, <1>3, <1>4, <2>1 DEF TypeOK, Tries, Recorded
  <2>4. Story'
    BY ZenonT(60), <1>1, <1>2, <1>3, <1>4, <2>1, <2>2, StoryKept DEF SeededFits, OthersKept
  <2>5. Tree'
    BY <1>1, <1>2, <1>3, <1>4, <2>1, <2>2, TreeAlone DEF OthersKept, Past, Beyond
  <2> QED
    BY <2>2, <2>3, <2>4, <2>5, Parts
<1>5. CASE /\ Current(worker[p].gen) /\ job' = Settled("failed")
           /\ resv' = CleanupRequired(worker[p].gen) /\ conv' = "CreationFailed" /\ Evict(p)
  <2>1. job' \in JobRow /\ job'.status = "failed" /\ job'.gen = job.gen
    BY <1>1, <1>5, SettledFacts DEF Status
  <2>2. JobMoves /\ ~Open'
    BY <1>5, <2>1 DEF JobMoves, Current, Open, Live
  <2>3. resv' \in ResvRow /\ (resv'.status = "none" <=> resv.status = "none")
    BY <1>1, <1>5 DEF TypeOK, CleanupRequired, ResvRow, WorkerState
  <2>4. /\ runtime' \in [Process -> ConvState \cup {"none"}] /\ boots' \subseteq Boot
        /\ \A q \in Process : runtime'[q] \in {"none", runtime[q]}
        /\ \A c \in boots' : \E b \in boots : c.at = b.at
    BY <1>1, <1>5, EvictFacts
  <2>5. TypeOK' /\ Tries' /\ Recorded'
    BY <1>1, <1>2, <1>3, <1>5, <2>1, <2>3, <2>4 DEF TypeOK, Tries, Recorded, ConvState
  <2>6. Story'
    BY ZenonT(60), <1>1, <1>2, <1>3, <1>5, <2>1, <2>2, <2>4, StoryKept DEF SeededFits, OthersKept
  <2>7. Tree'
    BY ZenonT(60), <1>1, <1>2, <2>2, TreeKept
  <2> QED
    BY <2>2, <2>5, <2>6, <2>7, Parts
<1>6. CASE UNCHANGED <<job, resv, conv, boots, runtime>>
  BY <1>2, <1>6, StopKeeps DEF durable
<1> QED
  BY ZenonT(60), <1>4, <1>5, <1>6 DEF Fail

LEMMA HeartbeatKeeps ==
    ASSUME CreationInv, NEW p \in Process, HeartbeatLost(p)
    PROVE  CreationInv' /\ JobMoves
BY StopKeeps DEF HeartbeatLost

-----------------------------------------------------------------------------
(* The runtime bootstraps the conversation.                                 *)

LEMMA BootKeeps ==
    ASSUME CreationInv, NEW b \in boots, BootStep(b)
    PROVE  CreationInv' /\ JobMoves
<1>1. TypeOK /\ Tries /\ Story /\ Tree /\ Recorded
  BY Parts
<1>2. b \in Boot /\ b.proc \in Process /\ Past
  BY <1>1 DEF TypeOK, Boot, Past
<1>3. \A at \in {"stored", "complete"} : [b EXCEPT !.at = at] \in Boot /\ [b EXCEPT !.at = at].at = at
  BY <1>2 DEF Boot
<1>4. CASE BootMessage(b)
  <2>1. /\ UNCHANGED <<intent, job, resv, conv, worktree, worker, threads, runtime, user, spent>>
        /\ \/ boots' = boots \ {b} /\ message' = message
           \/ message' = TRUE /\ boots' = (boots \ {b}) \cup {[b EXCEPT !.at = "stored"]}
    BY <1>4 DEF BootMessage
  <2>2. /\ boots' \subseteq Boot /\ message' \in BOOLEAN /\ (message => message')
        /\ \A c \in boots' : c \in boots \/ (c.at = "stored" /\ message')
    BY ZenonT(60), <1>1, <1>3, <2>1 DEF TypeOK
  <2>3. JobMoves
    BY <2>1 DEF JobMoves
  <2>4. TypeOK' /\ Tries' /\ Recorded'
    BY <1>1, <2>1, <2>2 DEF TypeOK, Tries, Recorded
  <2>5. Story'
    BY <1>1, <2>1, <2>2 DEF Story, BeginsInOrder, ReadyMeansStarted, Open
  <2>6. Tree'
    BY <1>1, <1>2, <2>1, <2>3, TreeAlone
  <2> QED
    BY <2>3, <2>4, <2>5, <2>6, Parts
<1>5. CASE BootState(b)
  <2>1. /\ UNCHANGED <<intent, job, resv, message, worktree, worker, threads, user, spent>>
        /\ \/ boots' = boots \ {b} /\ conv' = conv /\ runtime' = runtime
           \/ /\ conv' = "LlmRequesting"
              /\ runtime' = runtime \/ runtime' = [runtime EXCEPT ![b.proc] = "LlmRequesting"]
              /\ boots' = (boots \ {b}) \cup {[b EXCEPT !.at = "complete"]}
    BY <1>5 DEF BootState
  <2>2. b.at = "stored" /\ message
    BY <1>1, <1>5 DEF BootState, Story, BeginsInOrder
  <2>3. /\ boots' \subseteq Boot /\ conv' \in ConvState
        /\ runtime' \in [Process -> ConvState \cup {"none"}]
        /\ conv' = conv \/ conv' = "LlmRequesting"
        /\ \A c \in boots' : c \in boots \/ (c.at = "complete" /\ conv' = "LlmRequesting")
        /\ \A q \in Process : runtime'[q] = runtime[q] \/ conv' = "LlmRequesting"
    BY ZenonT(60), <1>1, <1>3, <2>1 DEF TypeOK, ConvState
  <2>4. JobMoves
    BY <2>1 DEF JobMoves
  <2>5. TypeOK' /\ Tries' /\ Recorded'
    BY <1>1, <2>1, <2>3 DEF TypeOK, Tries, Recorded
  <2>6. Story'
    BY <1>1, <2>1, <2>2, <2>3 DEF Story, BeginsInOrder, ReadyMeansStarted, Open
  <2>7. Tree'
    BY <1>1, <1>2, <2>1, <2>4, TreeAlone
  <2> QED
    BY <2>4, <2>5, <2>6, <2>7, Parts
<1>6. CASE BootComplete(b)
  <2>1. /\ b.at = "complete" /\ CompleteJob(b.gen) /\ boots' = boots \ {b}
        /\ UNCHANGED <<intent, resv, conv, message, worktree, worker, threads, runtime, user, spent>>
    BY <1>6 DEF BootComplete
  <2>2. /\ job' \in JobRow /\ JobMoves
        /\ job'.status = job.status \/ (job.status = "claimed" /\ job'.status = "ready")
        /\ job' = job \/ job'.status = "ready"
    BY <1>1, <2>1, CompleteFacts, SettledFacts DEF CompleteJob, Status
  <2>3. TypeOK' /\ Tries' /\ Recorded'
    BY <1>1, <2>1, <2>2 DEF TypeOK, Tries, Recorded
  <2>4. message /\ conv # "Provisioning" /\ (Open' => Open) /\ (job'.status = "ready" => Open)
    BY <1>1, <2>1, <2>2, OpenFacts DEF Story, BeginsInOrder, Open, Live
  <2>5. Story'
    BY <1>1, <2>1, <2>4 DEF Story, BeginsInOrder, ReadyMeansStarted
  <2>6. Tree'
    BY <1>1, <1>2, <2>1, <2>2, TreeAlone
  <2> QED
    BY <2>2, <2>3, <2>5, <2>6, Parts
<1> QED
  BY <1>4, <1>5, <1>6 DEF BootStep

LEMMA TurnEndsKeeps ==
    ASSUME CreationInv, NEW p \in Process, TurnEnds(p)
    PROVE  CreationInv' /\ JobMoves
<1>1. TypeOK /\ Tries /\ Story /\ Tree /\ Recorded
  BY Parts
<1>2. /\ runtime' = [runtime EXCEPT ![p] = "Idle"] /\ conv' = "Idle"
      /\ UNCHANGED <<intent, job, resv, message, worktree, worker, threads, boots, user, spent>>
  BY DEF TurnEnds
<1>3. JobMoves
  BY <1>2 DEF JobMoves
<1>4. TypeOK' /\ Tries' /\ Recorded'
  BY <1>1, <1>2 DEF TypeOK, Tries, Recorded, ConvState
<1>5. Story'
  BY <1>1, <1>2 DEF Story, BeginsInOrder, ReadyMeansStarted, Open
<1>6. Tree'
  BY <1>1, <1>2, <1>3, TreeAlone DEF Past
<1> QED
  BY <1>3, <1>4, <1>5, <1>6, Parts

-----------------------------------------------------------------------------
(* The worker cleans up.                                                    *)

LEMMA ClaimCleanupKeeps ==
    ASSUME CreationInv, NEW p \in Process, ClaimCleanup(p)
    PROVE  CreationInv' /\ JobMoves
<1> DEFINE w == [at |-> IF Unreleased THEN "sweep" ELSE "finish", gen |-> job.gen, stage |-> 0,
                 status |-> job.status]
<1>1. TypeOK
  BY Parts
<1>2. /\ job' \in JobRow /\ job'.status = job.status /\ job'.gen = job.gen
      /\ job'.attempt = job.attempt
  BY ZenonT(60), <1>1 DEF ClaimCleanup, TypeOK, JobRow
<1>3. w \in WorkerState /\ w.at \in {"sweep", "finish"}
  BY <1>1, JobParts DEF TypeOK, WorkerState, Place, Finalize
<1>4. /\ worker' \in [Process -> WorkerState] /\ worker'[p].at \in {"sweep", "finish"}
      /\ OthersKept(p)
  BY ZenonT(60), <1>1, <1>3, GivenFacts DEF ClaimCleanup
<1> QED
  BY <1>1, <1>2, <1>4, QuietKeeps, TimeFacts DEF ClaimCleanup, TypeOK

\* A cleanup is due only for a job that was given up, so no open job loses its worktree.
LEMMA SweepKeeps ==
    ASSUME CreationInv, NEW p \in Process, Sweep(p)
    PROVE  CreationInv' /\ JobMoves
<1>1. TypeOK /\ Tries /\ Story /\ Tree /\ Recorded
  BY Parts
<1>2. /\ UNCHANGED <<intent, job, resv, conv, message, threads, boots, runtime, user>>
      /\ spent' = spent \/ spent' = [spent EXCEPT !.lapses = @ + 1]
      /\ Goto(p, "release") \/ Goto(p, "retry")
      /\ worktree' = worktree \/ (worktree' = "absent" /\ resv.status = "cleanup_required")
  BY DEF Sweep, durable
<1>3. /\ worker' \in [Process -> WorkerState] /\ worker'[p].at \in {"release", "retry"}
      /\ OthersKept(p)
  BY <1>1, <1>2, GotoFacts DEF Place
<1>4. JobMoves
  BY <1>2 DEF JobMoves
<1>a. OnlyTime
  BY <1>1, <1>2, TimeFacts
<1>5. TypeOK' /\ Tries' /\ Recorded'
  BY <1>1, <1>2, <1>3, <1>a DEF TypeOK, Tries, Recorded, OnlyTime
<1>6. Story'
  BY <1>1, <1>2, <1>3, <1>4, StoryKept DEF SeededFits, OthersKept
<1>7. Open /\ intent.worktree => (Sound => Sound')
  BY <1>1, <1>2, <1>a DEF Tree, WorktreeComesFirst, Sound, OnlyTime
<1>8. Tree'
  BY ZenonT(60), <1>1, <1>2, <1>3, <1>4, <1>7, TreeKept DEF OthersKept, Past, Beyond
<1> QED
  BY <1>4, <1>5, <1>6, <1>8, Parts

LEMMA ReleaseKeeps ==
    ASSUME CreationInv, NEW p \in Process, Release(p)
    PROVE  CreationInv' /\ JobMoves
<1>1. TypeOK /\ Tries /\ Story /\ Tree /\ Recorded
  BY Parts
<1>2. UNCHANGED <<intent, job, conv, message, worktree, threads, boots, runtime, user, spent>>
  BY DEF Release
<1>3. CASE /\ resv = [status |-> "cleanup_required", gen |-> worker[p].gen]
           /\ resv' = [resv EXCEPT !.status = "released"] /\ Goto(p, "finish")
  <2>1. worker' \in [Process -> WorkerState] /\ worker'[p].at = "finish" /\ OthersKept(p)
    BY <1>1, <1>3, GotoFacts DEF Place
  <2>2. resv' \in ResvRow /\ resv'.status = "released" /\ resv.status = "cleanup_required"
    BY <1>1, <1>3 DEF TypeOK, ResvRow
  <2>3. JobMoves
    BY <1>2 DEF JobMoves
  <2>4. TypeOK' /\ Tries' /\ Recorded'
    BY <1>1, <1>2, <2>1, <2>2 DEF TypeOK, Tries, Recorded
  <2>5. Story'
    BY ZenonT(60), <1>1, <1>2, <2>1, <2>3, StoryKept DEF SeededFits, OthersKept
  <2>6. ~(Open /\ intent.worktree)
    BY <1>1, <2>2 DEF Tree, WorktreeComesFirst
  <2>7. Tree'
    BY ZenonT(60), <1>1, <1>2, <2>3, <2>6, TreeKept
  <2> QED
    BY <2>3, <2>4, <2>5, <2>7, Parts
<1>4. CASE Stop(p) /\ UNCHANGED resv
  BY <1>2, <1>4, StopKeeps DEF durable
<1> QED
  BY <1>3, <1>4 DEF Release

LEMMA NoCleanerFacts ==
    ASSUME NEW j \in JobRow
    PROVE  /\ NoCleaner(j) \in JobRow /\ NoCleaner(j).status = j.status
           /\ NoCleaner(j).gen = j.gen /\ NoCleaner(j).attempt = j.attempt
BY ZenonT(60) DEF NoCleaner, JobRow

LEMMA FinishKeeps ==
    ASSUME CreationInv, NEW p \in Process, FinishCleanup(p)
    PROVE  CreationInv' /\ JobMoves
<1> DEFINE s == worker[p].status
           after == IF s = "cancelling" THEN "cancelled"
                    ELSE IF s = "deletion_pending" THEN "deleted" ELSE s
<1>1. TypeOK /\ Tries /\ Story /\ Tree /\ Recorded
  BY Parts
<1>2. UNCHANGED <<intent, resv, message, worktree, threads, boots, runtime, user, spent>>
  BY DEF FinishCleanup
<1>3. CASE /\ job.status = s /\ job' = [NoCleaner(job) EXCEPT !.status = after]
           /\ conv' = (IF s = "deletion_pending" THEN "Deleted" ELSE conv)
           /\ Stop(p)
  <2>1. worker' \in [Process -> WorkerState] /\ worker'[p].at = "free" /\ OthersKept(p)
    BY <1>1, <1>3, StopFacts
  <2>2. after \in Status /\ job \in JobRow
    BY <1>1, <1>3, JobParts DEF Status, TypeOK
  <2> HIDE DEF after
  <2>3. /\ job' \in JobRow /\ job'.status = after /\ job'.gen = job.gen
        /\ job'.attempt = job.attempt
    BY <1>3, <2>2, NoCleanerFacts DEF JobRow
  <2>4. JobMoves
    BY <1>3, <2>3 DEF JobMoves, after
  <2>5. /\ after = "retry_scheduled" => job.status = "retry_scheduled"
        /\ after = "ready" => job.status = "ready"
        /\ conv' = conv \/ (~Open' /\ conv' = "Deleted")
    BY <1>3, <2>3 DEF after, Open, Live
  <2>6. TypeOK' /\ Tries' /\ Recorded'
    BY <1>1, <1>2, <2>1, <2>3, <2>5 DEF TypeOK, Tries, Recorded, ConvState
  <2>7. Story'
    BY <1>1, <1>2, <2>1, <2>3, <2>4, <2>5, StoryKept DEF SeededFits, OthersKept
  <2>8. Tree'
    BY <1>1, <1>2, <2>1, <2>3, <2>4, <2>5, TreeAlone DEF OthersKept, Past, Beyond
  <2> QED
    BY <2>4, <2>6, <2>7, <2>8, Parts
<1>4. CASE Goto(p, "retry") /\ UNCHANGED <<job, conv>>
  <2>1. worker' \in [Process -> WorkerState] /\ worker'[p].at = "retry" /\ OthersKept(p)
    BY <1>1, <1>4, GotoFacts DEF Place
  <2> QED
    BY <1>1, <1>2, <1>4, <2>1, QuietKeeps, TimeFacts DEF TypeOK
<1> QED
  BY <1>3, <1>4 DEF FinishCleanup

LEMMA RetryCleanupKeeps ==
    ASSUME CreationInv, NEW p \in Process, RetryCleanup(p)
    PROVE  CreationInv' /\ JobMoves
<1>1. TypeOK
  BY Parts
<1>2. worker' \in [Process -> WorkerState] /\ worker'[p].at = "free" /\ OthersKept(p)
  BY <1>1, StopFacts DEF RetryCleanup
<1>3. /\ job' \in JobRow /\ job'.status = job.status /\ job'.gen = job.gen
      /\ job'.attempt = job.attempt
  BY <1>1, NoCleanerFacts DEF RetryCleanup, TypeOK
<1> QED
  BY <1>1, <1>2, <1>3, QuietKeeps, TimeFacts DEF RetryCleanup, TypeOK

-----------------------------------------------------------------------------
(* The user, time and crashes.                                              *)

\* Cancelling and deleting: the job is given up, in a new generation.
LEMMA WithdrawKeeps ==
    ASSUME CreationInv, NEW p \in Process, NEW s \in {"cancelling", "deletion_pending"},
           job' = NoCleaner([Settled(s) EXCEPT !.gen = @ + 1]),
           resv' = CleanupRequired(job.gen + 1), Evict(p),
           conv' = conv \/ conv' = "CreationCancelled", user' = "none",
           UNCHANGED <<intent, message, worktree, worker, threads, spent>>
    PROVE  CreationInv' /\ JobMoves
<1>1. TypeOK /\ Tries /\ Story /\ Tree /\ Recorded
  BY Parts
<1>2. job' \in JobRow /\ job'.status = s /\ job'.gen = job.gen + 1
  BY <1>1, WithdrawnFacts
<1>3. JobMoves /\ ~Open'
  BY <1>2 DEF JobMoves, Open, Live
<1>4. resv' \in ResvRow /\ (resv'.status = "none" <=> resv.status = "none")
  BY <1>1, JobParts DEF TypeOK, CleanupRequired, ResvRow
<1>5. /\ runtime' \in [Process -> ConvState \cup {"none"}] /\ boots' \subseteq Boot
      /\ \A q \in Process : runtime'[q] \in {"none", runtime[q]}
      /\ \A c \in boots' : \E b \in boots : c.at = b.at
  BY <1>1, EvictFacts
<1>6. TypeOK' /\ Tries' /\ Recorded'
  BY <1>1, <1>2, <1>4, <1>5 DEF TypeOK, Tries, Recorded, ConvState
<1>7. Story'
  BY <1>1, <1>2, <1>3, <1>5, StoryKept DEF SeededFits
<1>8. Tree'
  BY ZenonT(60), <1>1, <1>3, TreeKept
<1> QED
  BY <1>3, <1>6, <1>7, <1>8, Parts

\* A step that changes neither the workers nor what the invariant is about.
LEMMA StillKeeps ==
    ASSUME CreationInv, job' \in JobRow, job'.status = job.status, job'.gen = job.gen,
           job'.attempt = job.attempt, user' \in {"none", "cancel", "delete"},
           OnlyTime,
           UNCHANGED <<intent, resv, conv, message, worktree, worker, threads, boots, runtime>>
    PROVE  CreationInv' /\ JobMoves
<1>1. TypeOK /\ Tries /\ Story /\ Tree /\ Recorded
  BY Parts
<1>2. JobMoves
  BY DEF JobMoves
<1>3. TypeOK' /\ Tries' /\ Recorded'
  BY <1>1 DEF TypeOK, Tries, Recorded, OnlyTime
<1>4. Story'
  BY <1>1, <1>2, StoryKept DEF SeededFits
<1>5. Tree'
  BY <1>1, <1>2, TreeAlone DEF Past, OnlyTime
<1> QED
  BY <1>2, <1>3, <1>4, <1>5, Parts

LEMMA CrashKeeps ==
    ASSUME CreationInv, NEW p \in Process, Crash(p)
    PROVE  CreationInv' /\ JobMoves
<1>1. TypeOK /\ Tries /\ Story /\ Tree /\ Recorded
  BY Parts
<1>2. /\ spent' = [spent EXCEPT !.crashes = @ + 1] /\ Stop(p)
      /\ threads' \subseteq threads /\ boots' \subseteq boots
      /\ runtime' = [runtime EXCEPT ![p] = "none"]
      /\ \/ worktree' = worktree
         \/ /\ threads # {} /\ worktree \notin {"linked", "whole"}
            /\ worktree' \in {"absent", "remains", "linked", "whole"}
      /\ conv' = conv \/ (conv = "LlmRequesting" /\ conv' = "Idle")
      /\ UNCHANGED <<intent, job, resv, message, user>>
  BY DEF Crash, Rooted
<1>3. worker' \in [Process -> WorkerState] /\ worker'[p].at = "free" /\ OthersKept(p)
  BY <1>1, <1>2, StopFacts
<1>4. JobMoves
  BY <1>2 DEF JobMoves
<1>5. runtime' \in [Process -> ConvState \cup {"none"}]
  BY <1>1, <1>2 DEF TypeOK
<1>6. threads' \subseteq Thread /\ boots' \subseteq Boot
  BY <1>1, <1>2 DEF TypeOK
<1>a. spent' \in Spent /\ spent'.crashes + spent'.faults > 0 /\ spent'.faults = spent.faults
  BY <1>1, <1>2 DEF TypeOK, Spent
<1>b. Sound => Sound'
  BY <1>2, <1>a DEF Sound
<1>7. TypeOK' /\ Tries' /\ Recorded'
  <2>1. TypeOK'
    BY <1>1, <1>2, <1>3, <1>5, <1>6, <1>a DEF TypeOK, ConvState
  <2>2. Tries'
    BY <1>1, <1>2 DEF Tries
  <2>3. Recorded'
    BY <1>1, <1>2, <1>a DEF Recorded
  <2> QED
    BY <2>1, <2>2, <2>3
<1>8. Story'
  BY <1>1, <1>2, <1>3 DEF TypeOK, Story, BeginsInOrder, ReadyMeansStarted, Open, OthersKept
<1>9. Tree'
  BY ZenonT(60), <1>1, <1>2, <1>3, <1>4, <1>b, TreeKept DEF OthersKept, Past, Beyond
<1> QED
  BY <1>4, <1>7, <1>8, <1>9, Parts

LEMMA InitFits ==
    Init => CreationInv
<1> SUFFICES ASSUME Init
             PROVE  CreationInv
  OBVIOUS
<1>1. job \in JobRow /\ job.status = "accepted"
  BY BoundAssumption DEF Init, JobRow, Status, Live, ValidateIntent, Finalize
<1>2. resv \in ResvRow /\ resv.status = "none"
  BY DEF Init, ResvRow
<1>3. worker \in [Process -> WorkerState] /\ \A p \in Process : worker[p].at = "free"
  BY DEF Init, Free, WorkerState, Place, Finalize
<1>4. /\ runtime \in [Process -> ConvState \cup {"none"}]
      /\ \A p \in Process : runtime[p] = "none"
  BY DEF Init
<1>a. spent \in Spent
  BY DEF Init, Spent
<1>5. TypeOK
  BY ZenonT(60), <1>1, <1>2, <1>3, <1>4, <1>a DEF Init, TypeOK, ConvState
<1>6. Tries /\ Recorded
  BY <1>1 DEF Init, Tries, Recorded
<1>7. Story
  BY <1>1, <1>3, <1>4 DEF Init, Story, BeginsInOrder, ReadyMeansStarted
<1>8. Tree
  BY <1>1, <1>2, <1>3 DEF Init, Tree, WorktreeComesFirst, Grounded, Beyond
<1> QED
  BY <1>5, <1>6, <1>7, <1>8, Parts

\* Every step keeps the invariant, and moves the job in one of the ways listed.
LEMMA NextKeeps ==
    CreationInv /\ [Next]_vars => CreationInv' /\ JobMoves
<1> SUFFICES ASSUME CreationInv, [Next]_vars
             PROVE  CreationInv' /\ JobMoves
  OBVIOUS
<1>0. TypeOK
  BY Parts
<1>1. ASSUME NEW p \in Process, WorkerStep(p)
      PROVE  CreationInv' /\ JobMoves
  BY <1>1, BeginKeeps, ReserveKeeps, MarkKeeps, CommitKeeps, SeededKeeps, LoadKeeps, SendKeeps,
     FinalizeKeeps, FailKeeps, HeartbeatKeeps, SweepKeeps, ReleaseKeeps, FinishKeeps,
     RetryCleanupKeeps DEF WorkerStep
<1>2. ASSUME NEW p \in Process, CancelCreation(p)
      PROVE  CreationInv' /\ JobMoves
  <2>1. CASE job.status \in Live
    BY <1>2, <2>1, WithdrawKeeps DEF CancelCreation
  <2>2. CASE job.status \notin Live
    BY <1>0, <1>2, <2>2, StillKeeps, TimeFacts DEF CancelCreation, TypeOK
  <2> QED
    BY <2>1, <2>2
<1>3. ASSUME NEW p \in Process, RequestDeletion(p)
      PROVE  CreationInv' /\ JobMoves
  <2>1. CASE job.status \in Live \cup {"cancelling", "cancelled", "failed"}
    BY <1>3, <2>1, WithdrawKeeps DEF RequestDeletion
  <2>2. CASE job.status \notin Live \cup {"cancelling", "cancelled", "failed"}
    BY <1>0, <1>3, <2>2, StillKeeps, TimeFacts DEF RequestDeletion, TypeOK
  <2> QED
    BY <2>1, <2>2
<1>4. CASE ReadForCancel \/ ReadForDelete
  BY <1>0, <1>4, StillKeeps, TimeFacts DEF ReadForCancel, ReadForDelete, durable, TypeOK
<1>5. CASE Lapse
  <2>1. /\ job' = [job EXCEPT !.live = FALSE] \/ job' = [job EXCEPT !.cleanerLive = FALSE]
        /\ spent' = spent \/ spent' = [spent EXCEPT !.lapses = @ + 1]
        /\ UNCHANGED <<intent, resv, conv, message, worktree, worker, threads, boots, runtime, user>>
    BY <1>5 DEF Lapse, LeaseLapses, CleanupLeaseLapses
  <2>2. /\ job' \in JobRow /\ job'.status = job.status /\ job'.gen = job.gen
        /\ job'.attempt = job.attempt
    BY ZenonT(60), <1>0, <2>1 DEF TypeOK, JobRow
  <2>3. OnlyTime /\ user' \in {"none", "cancel", "delete"}
    BY <1>0, <2>1, TimeFacts DEF TypeOK
  <2> QED
    BY <2>1, <2>2, <2>3, StillKeeps
<1>6. CASE UNCHANGED vars
  BY <1>0, <1>6, StillKeeps, TimeFacts DEF vars, TypeOK
<1> QED
  BY <1>1, <1>2, <1>3, <1>4, <1>5, <1>6, ClaimKeeps, ClaimCleanupKeeps, TurnEndsKeeps, CrashKeeps,
     MaterializeKeeps, BootKeeps DEF Next

\* CreationInv holds always.
LEMMA AlwaysCreationInv ==
    Spec => []CreationInv
<1>1. CreationInv /\ [Next]_vars => CreationInv'
  BY NextKeeps
<1> QED
  BY <1>1, InitFits, PTL DEF Spec

-----------------------------------------------------------------------------
(* The results.                                                             *)

\* The types hold; in particular claim_next_conversation_creation_job never begins an
\* attempt beyond the last, whichever leases lapse and whichever processes stop.
THEOREM TypeCorrect ==
    Spec => []TypeOK
<1>1. CreationInv => TypeOK
  BY DEF CreationInv
<1> QED
  BY <1>1, AlwaysCreationInv, PTL

\* A creation that is ready has begun: its message is stored, and its conversation is
\* neither being provisioned nor given up.  So the worker that finds the message of an
\* earlier claim (process_job) completes only a turn that really began.
THEOREM ReadyIsBegun ==
    Spec => []ReadyMeansStarted
<1>1. CreationInv => ReadyMeansStarted
  BY DEF CreationInv
<1> QED
  BY <1>1, AlwaysCreationInv, PTL

\* A creation that is ready has its worktree recorded, whatever the threads and cleanups
\* of other claims do.  It is a git root unless git could not be run, and it is
\* checked out in full if moreover no crash cut its building short: one that was cut
\* short is adopted as it is (reconcile_owned_worktree_path).
THEOREM ReadyIsBuilt ==
    Spec => []ReadyHasWorktree
<1>1. CreationInv => ReadyHasWorktree
  BY DEF CreationInv
<1> QED
  BY <1>1, AlwaysCreationInv, PTL

\* No worktree, and no part of one, is there without a reservation to find it by: the
\* worker reserves (reserve_conversation_creation_resource) before any thread builds.
THEOREM WorktreesAreRecorded ==
    Spec => []ResourceRecorded
<1>1. CreationInv => ResourceRecorded
  BY DEF CreationInv, ResourceRecorded
<1> QED
  BY <1>1, AlwaysCreationInv, PTL

\* The statements on the job row, under the workers, runtimes, users and crashes that
\* issue them, implement the fenced job: every claim, cancellation and deletion begins
\* an epoch, and a statement of an earlier epoch changes nothing (generation in the
\* WHERE of each UPDATE).
THEOREM Refinement ==
    Spec => ImplementsFencedJob
<1>1. Init => Abs!Init
  BY DEF Init, Abs!Init, AbstractPhase
<1>2. CreationInv /\ [Next]_vars => [Abs!Next]_Abs!vars
  <2> SUFFICES ASSUME CreationInv, JobMoves
               PROVE  [Abs!Next]_Abs!vars
    BY NextKeeps
  <2> USE DEF Abs!Next, Abs!vars, AbstractPhase
  <2>1. CASE job'.status = job.status /\ job'.gen = job.gen
    BY <2>1
  <2>2. CASE Claimable /\ job'.status = "claimed" /\ job'.gen = job.gen + 1
    BY <2>2 DEF Claimable, Abs!Acquire
  <2>3. CASE /\ job.status = "claimed" /\ job'.gen = job.gen
             /\ job'.status \in {"retry_scheduled", "ready", "failed"}
    BY <2>3 DEF Abs!Yield
  <2>4. CASE job'.status \in {"cancelling", "deletion_pending"} /\ job'.gen = job.gen + 1
    BY <2>4 DEF Abs!Withdraw
  <2>5. CASE \/ job.status = "cancelling" /\ job'.status = "cancelled" /\ job'.gen = job.gen
             \/ /\ job.status = "deletion_pending" /\ job'.status = "deleted"
                /\ job'.gen = job.gen
    BY <2>5 DEF Abs!Close
  <2> QED
    BY <2>1, <2>2, <2>3, <2>4, <2>5 DEF JobMoves
<1> QED
  BY <1>1, <1>2, AlwaysCreationInv, PTL DEF Spec, ImplementsFencedJob, Abs!Spec

=============================================================================
