----------------------------- MODULE BashScope ------------------------------
(***************************************************************************)
(* The bash processes of one work scope: the scope's handle table with its *)
(* spawn admission, the run, wait and kill calls of the conversations that *)
(* share the scope, the task that waits for each process, and the cleanup  *)
(* that a conversation's archive, delete, abandon or merge runs.           *)
(*                                                                         *)
(* A run call reserves a slot, starts the process and commits the handle.  *)
(* A cleanup first decides whether another live conversation still owns    *)
(* the scope.  If so it removes only the handles that are private to the   *)
(* conversation; if not it closes admission, waits for reservations to     *)
(* settle, drains the table and kills every process group.  The row of the *)
(* conversation is written last, and admission is reopened if that fails.  *)
(*                                                                         *)
(* Left out: output rings and responses' text; a kill(2) that fails; a     *)
(* continuation, which keeps the scope from being torn down whatever its   *)
(* own state; tmux, terminal, worktree and browser cleanup, which share    *)
(* the decision and change nothing here.                                   *)
(***************************************************************************)
EXTENDS Integers, FiniteSets

CONSTANTS
    Conv,         \* conversations of the work scope
    SubAgent,     \* those of them that are sub-agents
    Restricted,   \* those of them that act with restricted authority (Explore)
    MaxRun,       \* bound on the run calls
    Call,         \* wait and kill calls
    Cap,          \* live_handle_cap
    MaxCleanup,   \* bound on the lifecycle requests
    MaxFault,     \* bound on the requests that are cut short
    MaxLoad       \* bound on calls, requests and faults together

ASSUME ScopeAssumption ==
    /\ IsFiniteSet(Conv) /\ IsFiniteSet(Call) /\ MaxRun \in Nat
    /\ SubAgent \subseteq Conv /\ Restricted \subseteq Conv
    /\ Cap \in Nat \ {0} /\ MaxCleanup \in Nat /\ MaxFault \in Nat /\ MaxLoad \in Nat

VARIABLES
    owns,         \* conversations whose row owns the scope
    closed,       \* teardown_started
    gen,          \* teardown_generation
    pending,      \* reservations that have not settled
    table,        \* handles of the scope's table
    index,        \* handles of handles_by_id
    run,          \* each run call: where it is and who made it
    proc,         \* the process group of each handle
    state,        \* HandleState of each handle
    attempt,      \* handles with a kill_attempt
    recorded,     \* handles whose tombstone carries a kill attempt
    waiter,       \* the task that waits for each process
    exit,         \* the value of each handle's exit watch
    call,         \* each wait or kill call
    op,           \* each conversation's lifecycle request
    cleanups,     \* lifecycle requests so far
    faults        \* requests cut short so far

\* Run calls, in the order they are made.  A handle is named by its call.
Run == 1..MaxRun

admission == <<closed, gen, pending>>
handles == <<table, index>>
processes == <<proc, state, attempt, recorded, waiter, exit>>
bounds == <<cleanups, faults>>
vars == <<owns, closed, gen, pending, table, index, run, proc, state, attempt, recorded,
          waiter, exit, call, op, cleanups, faults>>

RunRec == [pc : {"idle", "reserved", "spawned", "done"}, by : Conv \union {"none"}]
CallRec == [pc : {"idle", "wait", "kill", "signalled", "waiting", "killing", "done"},
            h : Run \union {0}, seen : BOOLEAN]
OpRec == [pc : {"idle", "keep", "tear", "fence", "parked", "drain", "unindex", "kill",
                "mutate", "reopen"},
          gen : Nat, todo : SUBSET Run]

NoRun == [pc |-> "idle", by |-> "none"]
NoCall == [pc |-> "idle", h |-> 0, seen |-> FALSE]
DoneCall == [NoCall EXCEPT !.pc = "done"]
NoOp == [pc |-> "idle", gen |-> 0, todo |-> {}]

Load == Cardinality({r \in Run : run[r] # NoRun}) + Cardinality({x \in Call : call[x] # NoCall})
        + cleanups + faults

LiveHandles == {r \in table : state[r] = "live"}

\* can_control: Work authority reaches every handle of the scope, restricted
\* authority only the restricted handles the conversation made itself.
MadeRestricted(r) == run[r].by \in Restricted
CanControl(c, r) == c \notin Restricted \/ (MadeRestricted(r) /\ run[r].by = c)

Init ==
    /\ owns = Conv
    /\ closed = FALSE /\ gen = 0 /\ pending = {}
    /\ table = {} /\ index = {}
    /\ run = [r \in Run |-> NoRun]
    /\ proc = [r \in Run |-> "none"] /\ state = [r \in Run |-> "none"]
    /\ attempt = {} /\ recorded = {}
    /\ waiter = [r \in Run |-> "none"] /\ exit = [r \in Run |-> "none"]
    /\ call = [x \in Call |-> NoCall]
    /\ op = [c \in Conv |-> NoOp]
    /\ cleanups = 0 /\ faults = 0

-----------------------------------------------------------------------------
(* Run calls. *)

Goto(r, pc) == run' = [run EXCEPT ![r].pc = pc]

\* The tests of reserve_spawn.
Admits == ~closed /\ Cardinality(LiveHandles) + Cardinality(pending) < Cap

\* run_run up to reserve_spawn.  A tool task may come here late, when the
\* cancellation deadline has made its conversation idle or it has ended, so
\* nothing but the fence keeps it from reserving during a cleanup.
Reserve(r, c) ==
    /\ run[r] = NoRun /\ (\A s \in 1..(r - 1) : run[s] # NoRun) /\ Load < MaxLoad
    /\ IF Admits
       THEN /\ pending' = pending \union {r}
            /\ run' = [run EXCEPT ![r] = [pc |-> "reserved", by |-> c]]
       ELSE /\ run' = [run EXCEPT ![r] = [pc |-> "done", by |-> c]]
            /\ UNCHANGED pending
    /\ UNCHANGED <<owns, closed, gen, handles, processes, call, op, bounds>>

\* SpawnReservation::settle, by commit, by abort and by drop: it wakes every
\* teardown that waits for reservations.
Settle(r) ==
    /\ pending' = pending \ {r}
    /\ op' = [c \in Conv |-> IF op[c].pc = "parked" THEN [op[c] EXCEPT !.pc = "fence"]
                             ELSE op[c]]

\* spawn_child starts the process.
Spawn(r) ==
    /\ run[r].pc = "reserved"
    /\ Goto(r, "spawned")
    /\ proc' = [proc EXCEPT ![r] = "running"]
    /\ UNCHANGED <<owns, admission, handles, state, attempt, recorded, waiter, exit, call,
                   op, bounds>>

\* spawn_child fails, and the reservation is given back by abort_spawn.
SpawnFails(r) ==
    /\ run[r].pc = "reserved"
    /\ Goto(r, "done")
    /\ Settle(r)
    /\ UNCHANGED <<owns, closed, gen, handles, processes, call, bounds>>

\* commit_spawn, then start_io_tasks: the handle enters the table and the
\* index under both locks, and its waiter starts.  What is left of the call,
\* race_run_response, observes the exit as a wait does.
Commit(r) ==
    /\ run[r].pc = "spawned"
    /\ Goto(r, "done")
    /\ table' = table \union {r} /\ index' = index \union {r}
    /\ Settle(r)
    /\ state' = [state EXCEPT ![r] = "live"]
    /\ waiter' = [waiter EXCEPT ![r] = "waiting"]
    /\ UNCHANGED <<owns, closed, gen, proc, attempt, recorded, exit, call, bounds>>

\* The tool task is aborted while it waits for commit_spawn's locks: dropping
\* the process group kills it, dropping the reservation settles it.
SpawnDropped(r) ==
    /\ run[r].pc = "spawned"
    /\ Goto(r, "done")
    /\ proc' = [proc EXCEPT ![r] = IF @ = "running" THEN "doomed" ELSE @]
    /\ Settle(r)
    /\ UNCHANGED <<owns, closed, gen, handles, state, attempt, recorded, waiter, exit, call,
                   bounds>>

-----------------------------------------------------------------------------
(* The process and its waiter. *)

\* The process group ends, by itself or because it was killed.
Exits(r) ==
    /\ proc[r] \in {"running", "doomed"}
    /\ proc' = [proc EXCEPT ![r] = "exited"]
    /\ UNCHANGED <<owns, admission, handles, run, state, attempt, recorded, waiter, exit,
                   call, op, bounds>>

\* run_waiter: wait() returns, and the readers are drained.
Reap(r) ==
    /\ waiter[r] = "waiting" /\ proc[r] = "exited"
    /\ waiter' = [waiter EXCEPT ![r] = "draining"]
    /\ UNCHANGED <<owns, admission, handles, run, proc, state, attempt, recorded, exit,
                   call, op, bounds>>

\* transition_to_terminal, under the state's write lock.
Demote(r) ==
    /\ waiter[r] = "draining"
    /\ waiter' = [waiter EXCEPT ![r] = "publishing"]
    /\ state' = [state EXCEPT ![r] = "tombstoned"]
    /\ recorded' = IF r \in attempt THEN recorded \union {r} ELSE recorded
    /\ UNCHANGED <<owns, admission, handles, run, proc, attempt, exit, call, op, bounds>>

\* publish_exit, after which the waiter ends.
PublishExit(r) ==
    /\ waiter[r] = "publishing"
    /\ waiter' = [waiter EXCEPT ![r] = "done"]
    /\ exit' = [exit EXCEPT ![r] = "exited"]
    /\ UNCHANGED <<owns, admission, handles, run, proc, state, attempt, recorded, call, op,
                   bounds>>

\* The waiter panics: ExitWatchPanicGuard publishes, and the handle stays live.
WaiterPanics(r) ==
    /\ waiter[r] = "draining"
    /\ waiter' = [waiter EXCEPT ![r] = "done"]
    /\ exit' = [exit EXCEPT ![r] = "panicked"]
    /\ UNCHANGED <<owns, admission, handles, run, proc, state, attempt, recorded, call, op,
                   bounds>>

-----------------------------------------------------------------------------
(* Wait and kill calls. *)

Put(x, v) == call' = [call EXCEPT ![x] = v]

\* lookup_handle, then the test whether the handle is terminal already.
Lookup(x, c, h, kind) ==
    /\ call[x] = NoCall /\ Load < MaxLoad /\ c \in owns /\ op[c].pc = "idle"
    /\ h \in index /\ CanControl(c, h)
    /\ Put(x, IF state[h] = "live" THEN [pc |-> kind, h |-> h, seen |-> FALSE] ELSE DoneCall)
    /\ UNCHANGED <<owns, admission, handles, run, processes, op, bounds>>

\* send_signal_to_group.  The group may ignore the signal.
Signal(x) ==
    /\ call[x].pc = "kill"
    /\ Put(x, [pc |-> "signalled", h |-> call[x].h, seen |-> FALSE])
    /\ \/ /\ proc[call[x].h] = "running"
          /\ proc' = [proc EXCEPT ![call[x].h] = "doomed"]
       \/ UNCHANGED proc
    /\ UNCHANGED <<owns, admission, handles, run, state, attempt, recorded, waiter, exit, op,
                   bounds>>

\* Faulty variant: a receiver subscribed here has seen what was published before.
Observe_Subscribe(x) ==
    /\ call[x].pc \in {"wait", "signalled"}
    /\ Put(x, [pc |-> IF call[x].pc = "wait" THEN "waiting" ELSE "killing",
               h |-> call[x].h, seen |-> exit[call[x].h] # "none"])
    /\ UNCHANGED <<owns, admission, handles, run, processes, op, bounds>>

\* exit_observer: a clone of a receiver that has seen nothing.
Observe(x) ==
    /\ call[x].pc \in {"wait", "signalled"}
    /\ Put(x, [pc |-> IF call[x].pc = "wait" THEN "waiting" ELSE "killing",
               h |-> call[x].h, seen |-> FALSE])
    /\ UNCHANGED <<owns, admission, handles, run, processes, op, bounds>>

Observing(x) == call[x].pc \in {"waiting", "killing"}

\* changed(): the watch holds a value this receiver has not seen.
CallWakes(x) ==
    /\ Observing(x) /\ exit[call[x].h] # "none" /\ ~call[x].seen
    /\ Put(x, DoneCall)
    /\ UNCHANGED <<owns, admission, handles, run, processes, op, bounds>>

\* mark_kill_pending_kernel, under the state's read lock.
MarkKillPending(h) == attempt' = IF state[h] = "live" THEN attempt \union {h} ELSE attempt

\* The select is biased to the exit watch.
CallTimesOut(x) ==
    /\ Observing(x) /\ (exit[call[x].h] = "none" \/ call[x].seen)
    /\ Put(x, DoneCall)
    /\ IF call[x].pc = "killing" THEN MarkKillPending(call[x].h) ELSE UNCHANGED attempt
    /\ UNCHANGED <<owns, admission, handles, run, proc, state, recorded, waiter, exit, op,
                   bounds>>

\* The turn is cancelled: a wait or a kill answers with the current state.
CallCancelled(x) ==
    /\ Observing(x)
    /\ Put(x, DoneCall)
    /\ UNCHANGED <<owns, admission, handles, run, processes, op, bounds>>

-----------------------------------------------------------------------------
(* Lifecycle requests: run_resource_cleanup_cascade and what follows it. *)

Step(c, pc) == op' = [op EXCEPT ![c].pc = pc]

\* Faulty variant: a sibling that shares the scope is not looked for.
StillOwned_NoSibling(c) == FALSE

\* scope_still_owned_after_delete: the conversation itself does not count.
StillOwned(c) == owns \ {c} # {}

\* The request passes the busy test and decides.  A live sub-agent is busy
\* all its life.  A conversation that has stopped owning the scope may still
\* be archived or deleted.
Begin(c) ==
    /\ op[c] = NoOp /\ cleanups < MaxCleanup /\ Load < MaxLoad
    /\ c \in SubAgent => c \notin owns
    /\ cleanups' = cleanups + 1
    /\ Step(c, IF StillOwned(c) THEN "keep" ELSE "tear")
    /\ UNCHANGED <<owns, admission, handles, run, processes, call, faults>>

\* cascade_bash_on_delete with an inheritor: remove_restricted_created_by.
RemovePrivate(c) ==
    /\ op[c].pc = "keep"
    /\ LET mine == {r \in table : run[r].by = c /\ MadeRestricted(r)}
       IN  /\ table' = table \ mine
           /\ op' = [op EXCEPT ![c] = [pc |-> "unindex", gen |-> 0, todo |-> mine]]
    /\ UNCHANGED <<owns, admission, index, run, processes, call, bounds>>

\* begin_teardown: a new generation closes admission.
BeginTeardown(c) ==
    /\ op[c].pc = "tear"
    /\ gen' = gen + 1 /\ closed' = TRUE
    /\ op' = [op EXCEPT ![c] = [pc |-> "fence", gen |-> gen + 1, todo |-> {}]]
    /\ UNCHANGED <<owns, pending, handles, run, processes, call, bounds>>

\* Faulty variant: teardown goes on while reservations are open.
Fence_NoWait(c) ==
    /\ op[c].pc = "fence"
    /\ closed' = TRUE
    /\ Step(c, "drain")
    /\ UNCHANGED <<owns, gen, pending, handles, run, processes, call, bounds>>

\* One round of begin_teardown's loop: the notification is registered before
\* the count is read.
Fence(c) ==
    /\ op[c].pc = "fence"
    /\ closed' = TRUE
    /\ Step(c, IF pending = {} THEN "drain" ELSE "parked")
    /\ UNCHANGED <<owns, gen, pending, handles, run, processes, call, bounds>>

\* drain_owner: take_all.
Drain(c) ==
    /\ op[c].pc = "drain"
    /\ table' = {}
    /\ op' = [op EXCEPT ![c] = [pc |-> "unindex", gen |-> op[c].gen, todo |-> table]]
    /\ UNCHANGED <<owns, admission, index, run, processes, call, bounds>>

\* remove_from_global_index.
Unindex(c) ==
    /\ op[c].pc = "unindex"
    /\ index' = index \ op[c].todo
    /\ Step(c, "kill")
    /\ UNCHANGED <<owns, admission, table, run, processes, call, bounds>>

\* teardown_bash_owner and kill_selected_handles: SIGKILL to the group of one
\* removed handle, if it is live.
KillRemoved(c) ==
    /\ op[c].pc = "kill"
    /\ \E r \in op[c].todo :
          /\ op' = [op EXCEPT ![c].todo = @ \ {r}]
          /\ proc' = [proc EXCEPT ![r] = IF @ = "running" /\ state[r] = "live" THEN "doomed"
                                         ELSE @]
    /\ UNCHANGED <<owns, admission, handles, run, state, attempt, recorded, waiter, exit,
                   call, bounds>>

\* The other cascades run, and the request comes to its row.
Cleaned(c) ==
    /\ op[c].pc = "kill" /\ op[c].todo = {}
    /\ Step(c, "mutate")
    /\ UNCHANGED <<owns, admission, handles, run, processes, call, bounds>>

\* The row is archived, deleted or made Terminal.
Mutate(c) ==
    /\ op[c].pc = "mutate"
    /\ owns' = owns \ {c}
    /\ op' = [op EXCEPT ![c] = NoOp]
    /\ UNCHANGED <<admission, handles, run, processes, call, bounds>>

MutateFails(c) ==
    /\ op[c].pc = "mutate"
    /\ Step(c, "reopen")
    /\ UNCHANGED <<owns, admission, handles, run, processes, call, bounds>>

\* reopen_bash_after_failed_lifecycle_mutation and reopen_spawn_admission.
Reopen(c) ==
    /\ op[c].pc = "reopen"
    /\ closed' = (closed /\ ~(c \in owns /\ op[c].gen > 0 /\ op[c].gen = gen))
    /\ op' = [op EXCEPT ![c] = NoOp]
    /\ UNCHANGED <<owns, gen, pending, handles, run, processes, call, bounds>>

\* The request ends where it is: the caller goes away and its future is
\* dropped, or a query between cleanup and reopening fails.  The executor may
\* still handle an event that was sent.
CutShort(c) ==
    /\ op[c].pc # "idle" /\ faults < MaxFault /\ Load < MaxLoad
    /\ faults' = faults + 1
    /\ op' = [op EXCEPT ![c] = NoOp]
    /\ \/ UNCHANGED owns
       \/ op[c].pc = "mutate" /\ owns' = owns \ {c}
    /\ UNCHANGED <<admission, handles, run, processes, call, cleanups>>

\* A sub-agent reaches a terminal state: no cleanup runs.
SubAgentEnds(c) ==
    /\ c \in SubAgent \intersect owns
    /\ owns' = owns \ {c}
    /\ UNCHANGED <<admission, handles, run, processes, call, op, cleanups, faults>>

-----------------------------------------------------------------------------

RunStep(r) ==
    \/ \E c \in Conv : Reserve(r, c)
    \/ Spawn(r)
    \/ SpawnFails(r)
    \/ Commit(r)
    \/ SpawnDropped(r)

ProcessStep(r) ==
    \/ Exits(r)
    \/ Reap(r)
    \/ Demote(r)
    \/ PublishExit(r)
    \/ WaiterPanics(r)

CallStep(x) ==
    \/ \E c \in Conv, h \in Run, kind \in {"wait", "kill"} : Lookup(x, c, h, kind)
    \/ Signal(x)
    \/ Observe(x)
    \/ CallWakes(x)
    \/ CallTimesOut(x)
    \/ CallCancelled(x)

CleanupStep(c) ==
    \/ RemovePrivate(c)
    \/ BeginTeardown(c)
    \/ Fence(c)
    \/ Drain(c)
    \/ Unindex(c)
    \/ KillRemoved(c)
    \/ Cleaned(c)
    \/ Mutate(c)
    \/ MutateFails(c)
    \/ Reopen(c)

Next ==
    \/ \E r \in Run : RunStep(r) \/ ProcessStep(r)
    \/ \E x \in Call : CallStep(x)
    \/ \E c \in Conv : Begin(c) \/ CleanupStep(c) \/ CutShort(c) \/ SubAgentEnds(c)

\* Tasks that are ready run; a process that was sent SIGKILL ends.  Nothing
\* makes a process end by itself, a call time out or a request come.  The
\* steps of each disjunction follow one another, so one condition serves them.
Advance(r) ==
    \/ Spawn(r) \/ SpawnFails(r) \/ Commit(r)
    \/ proc[r] = "doomed" /\ Exits(r)
    \/ Reap(r) \/ Demote(r) \/ WaiterPanics(r) \/ PublishExit(r)

Fairness ==
    /\ \A r \in Run : WF_vars(Advance(r))
    /\ \A x \in Call : WF_vars(Signal(x) \/ Observe(x) \/ CallWakes(x))
    /\ \A c \in Conv : WF_vars(CleanupStep(c))

Spec == Init /\ [][Next]_vars

FairSpec == Spec /\ Fairness

-----------------------------------------------------------------------------

TypeOK ==
    /\ owns \subseteq Conv
    /\ closed \in BOOLEAN /\ gen \in Nat
    /\ pending \subseteq Run /\ table \subseteq Run /\ index \subseteq Run
    /\ run \in [Run -> RunRec]
    /\ proc \in [Run -> {"none", "running", "doomed", "exited"}]
    /\ state \in [Run -> {"none", "live", "tombstoned"}]
    /\ attempt \subseteq Run /\ recorded \subseteq Run
    /\ waiter \in [Run -> {"none", "waiting", "draining", "publishing", "done"}]
    /\ exit \in [Run -> {"none", "exited", "panicked"}]
    /\ call \in [Call -> CallRec] /\ op \in [Conv -> OpRec]
    /\ cleanups \in Nat /\ faults \in Nat

\* Teardown is complete (teardown_bash_owner): once every request that closed
\* admission has drained the table and sent its signals, and as long as
\* admission stays closed, no process of the scope runs unsignalled.  In
\* particular no spawn that was admitted before the fence escapes it.
NothingEscapesTeardown ==
    faults = 0 /\ closed
        /\ (\A c \in Conv : op[c].pc \notin {"fence", "parked", "drain", "unindex", "kill"})
    => \A r \in Run : proc[r] # "running"

\* The cap of reserve_spawn covers handles and open reservations together, so
\* concurrent run calls cannot overrun it between reserving and committing.
CapRespected == Cardinality(LiveHandles) + Cardinality(pending) <= Cap

\* The table and handles_by_id agree (commit_spawn, drain_owner): only handles
\* that a cleanup is just removing can be found by id and not in the table.
NoGhostHandles ==
    faults = 0 =>
        /\ table \subseteq index
        /\ \A r \in index \ table : \E c \in Conv : op[c].pc = "unindex" /\ r \in op[c].todo

\* A kill whose timer fires while the waiter demotes the handle is either in
\* the tombstone or was never recorded (mark_kill_pending_kernel against
\* transition_to_terminal).
TombstoneKeepsKill ==
    \A r \in Run : state[r] = "tombstoned" => (r \in attempt <=> r \in recorded)

\* While some conversation owns the scope, admission is closed only by a
\* request that is still under way: a failed row write reopens it
\* (reopen_bash_after_failed_lifecycle_mutation), whatever other requests
\* closed and drained meanwhile.
ClosedOnlyWhileCleaning ==
    faults = 0 /\ closed /\ owns # {} =>
        \E c \in Conv : op[c].pc # "idle" /\ op[c].gen = gen

\* Cleanup of one conversation never takes a shared handle from another that
\* owns the scope (scope_still_owned_after_delete): a handle leaves the table
\* only if it is private, or if every owner is being cleaned up itself.
LiveOwnerKeepsHandles ==
    [][\A r \in table \ table' : MadeRestricted(r) \/ \A c \in owns : op[c].pc # "idle"]_vars

\* begin_teardown gets past its wait for reservations: every reservation
\* settles, and its notification is not lost.
Fencing == \E c \in Conv : op[c].pc \in {"fence", "parked"}
TeardownEnds == Fencing ~> ~Fencing

\* Every call that waits for a process learns that it has ended without its
\* timeout: readers drained or waiter panicked (run_waiter, ExitWatchPanicGuard),
\* and parked before or after the exit was published (exit_observer, ADR-002).
ObserversWake ==
    \A x \in Call : (Observing(x) /\ proc[call[x].h] = "exited") ~> ~Observing(x)

-----------------------------------------------------------------------------
(* An inductive invariant. *)

\* A process runs while its call is about to commit it, or while its handle is
\* live and either in the table or with the cleanup that took it.
RunningIsHeld ==
    faults = 0 =>
        \A r \in Run : proc[r] = "running" =>
            \/ run[r].pc = "spawned"
            \/ /\ state[r] = "live"
               /\ \/ r \in table
                  \/ \E c \in Conv : op[c].pc \in {"unindex", "kill"} /\ r \in op[c].todo

\* Calls that have begun and not committed hold a reservation.
ReservationsCounted == \A r \in Run : run[r].pc \in {"reserved", "spawned"} <=> r \in pending

\* While admission is closed, whatever is left to settle or to drain is still
\* waited for by some teardown.
ClosedIsDrained ==
    faults = 0 /\ closed =>
        /\ pending # {} => \E c \in Conv : op[c].pc \in {"fence", "parked"}
        /\ table # {} => \E c \in Conv : op[c].pc \in {"fence", "parked", "drain"}

\* Only handles that were committed have a waiter, a state and a kill attempt,
\* and a waiter gets past its wait only when the process has ended.
HandleLife ==
    \A r \in Run :
        /\ run[r].pc # "done" => state[r] = "none" /\ waiter[r] = "none"
        /\ waiter[r] \in {"waiting", "draining"} => state[r] = "live"
        /\ waiter[r] \in {"draining", "publishing", "done"} => proc[r] = "exited"
        /\ r \in recorded => state[r] = "tombstoned"
        /\ r \in attempt => state[r] # "none"

\* A call under way has found a handle.
CallsHaveHandles == \A x \in Call : call[x].pc \notin {"idle", "done"} => call[x].h \in Run

\* A request that tears down stays the only owner's: a conversation never
\* starts to own the scope again.
DecisionHolds ==
    /\ closed => gen > 0
    /\ \A c \in Conv :
          /\ op[c].pc = "tear" \/ op[c].gen > 0 => owns \subseteq {c}
          /\ op[c].pc \in {"fence", "parked", "drain"} => op[c].gen > 0
          /\ op[c].pc \in {"idle", "keep", "tear"} => op[c].gen = 0
          /\ op[c].gen <= gen
          /\ op[c].gen > 0 /\ owns # {} => op[c].gen = gen

ScopeInv ==
    /\ TypeOK /\ RunningIsHeld /\ ReservationsCounted /\ ClosedIsDrained /\ HandleLife
    /\ CallsHaveHandles /\ TombstoneKeepsKill /\ DecisionHolds /\ ClosedOnlyWhileCleaning

-----------------------------------------------------------------------------

\* What the cleanup's comment claims of the last owner: when no conversation
\* owns the scope and no request is under way, nothing of it runs.
NoOrphans ==
    faults = 0 /\ owns = {} /\ (\A c \in Conv : op[c].pc = "idle")
    => \A r \in Run : proc[r] # "running" \/ run[r].pc = "spawned"

=============================================================================
