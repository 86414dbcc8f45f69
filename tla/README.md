# A formal model of Phoenix

Phoenix is a server (Rust) and a web client (TypeScript) in which a user talks to
LLM agents that run tools on a repository. This directory holds TLA+ models of the
parts of it that are hard to test: durable jobs with leases, one executor per
conversation that races its own tasks, queues with several writers, fan-out to
sub-agents, and crashes in between. TLC checks the models on small instances;
TLAPS proves the central theorems for every value of the constants.

`PROJECT.json` is the index: components, runs, mutants (faulty variants of a
definition that make a property fail), the map from definitions to source lines,
hazards, findings and theorems.

To check a run: `tlc -config <cfg> <module>`. To check proofs: `tlapm <module>Proofs.tla`.

## 1. The system

```
 browser ──HTTP──► API handlers ──► database (SQLite) ◄── workers: creation, direct turn, wake
    ▲                  │                  ▲                        │
    └──SSE──┐          ▼                  │                        ▼
            └── RuntimeManager ── one executor per conversation ── LLM, tools, timers
                       │                  ▲                          (bash scopes, MCP servers)
                       └── sub-agents ────┘   (executors of their own)
```

| Part | Source | Status |
|---|---|---|
| Creation protocol (pure) | `phoenix-state-machine/src/creation_protocol.rs` | modelled, proved |
| Creation worker, its SQL and the first turn | `runtime/creation_worker.rs`, `phoenix-db/src/lib.rs` | modelled, less the HTTP request that creates; proved |
| Turn loop | `runtime/executor.rs`, `phoenix-state-machine/src/transition.rs` | core modelled, proved |
| Steering queue | `send_chat_service.rs`, `runtime/executor.rs`, `runtime.rs` | modelled, less attachments |
| Sub-agents | `runtime/executor.rs`, `runtime.rs` | modelled, an agent's turn is one step; proved |
| Direct turns, wake delivery | `direct_turn_worker.rs`, `runtime/wake.rs`, `runtime.rs`, `phoenix-db` | modelled for one conversation, proved |
| Bash handles and the cleanup of a work scope | `phoenix-tools/src/bash`, `api/lifecycle_handlers.rs` | modelled, proved |
| MCP supervisor | `phoenix-mcp/src` | modelled for one server name |
| Event stream, server and client | `runtime.rs`, `api/handlers.rs`, `ui/src/conversation/atom.ts` | modelled for one page |
| Client: connection machine | `ui/src/hooks/connectionMachine.ts`, `useConnection.ts` | modelled, proved |
| Restart recovery | `runtime/recovery.rs`, `runtime.rs` | the parts the above need |
| Durable workflow engine, terminal sessions, client message queue, credential helper, chains | see `PROJECT.json` | not modelled (section 7) |
| LLM wire formats, file/search/patch/browser tools, MCP transports, schema and retrieval, routing and TLS, prompts and skills, pollers, rendering, command line | see `PROJECT.json` | not modelled: formats, text and I/O without shared state |

## 2. The modules

| Module | Models | State | Actions |
|---|---|---|---|
| `FencedJob` | what the creation machinery promises: authority over a job is an epoch | phase, epoch, owner | Acquire, Yield, Withdraw, Close |
| `CreationProtocol` | `decide_creation` | `CreationProtocolState`, and every claim ever handed out | one per `CreationProtocolEvent`; a claim may be presented again at any time |
| `CreationJobs` | the worker, the SQL statements, blocking threads, the runtime's bootstrap, the user | rows of the job, the reservation and the conversation; the worktree; per process a worker, per claim threads and bootstraps | one per transaction, or per run of statements that present one claim |
| `TurnLoop` | select loop, state machine and effects | `ConvState`, tasks in flight with their generations, timers, channels | one per arm of the select loop, each the whole handler; a failing write is an alternative in it |
| `Steering` | two copies of the queue, three writers | executor queue, table, channel, transcript, progress of each HTTP request | one per statement group of a request; one per executor event |
| `SubAgents` | parent, manager, agents | the parent's round, chained events, channels, each agent | one per input of the parent, per chained event, per manager request |
| `DirectTurn` | acceptance, worker, executor, cancel request, wake worker, restart | turn rows with attempt and lease, the conversation's row and owner, transcript tail, executor, each party's progress | one per SQLite transaction; the awaits between are where others step in |
| `BashScope` | spawn admission, run/wait/kill calls, waiters, lifecycle requests | the scope's table and fence, `handles_by_id`, each process group, waiter, call and request | one per lock section or await |
| `McpSupervisor` | actors of one server name, tool calls, connecting and recovering tasks, reloads, OAuth callbacks | per actor its state, epoch, queue and flow; tasks; callers; the table | one per mailbox command, and one per read that a client does outside the mailbox |
| `EventStream` | broadcaster, gate, replay ring, `stream_conversation`, the page's reducer | sequence counter, ring, gate, rows, the open stream, the page's cursor and buffer | one per lock section of the server; one per event the page applies |
| `ConnectionMachine` | the reducer of `connectionMachine.ts` and the hook that runs its effects | machine state, source, timer, the page's atom, events in the task queue | one per JavaScript callback, the transition and its effects together |

`MC*` modules give constants their values. Each `.cfg` is one instance. `<Module>Proofs`
hold theorems (section 4).

How they fit together: `CreationProtocol` and `CreationJobs` are two layers of one
mechanism and both implement `FencedJob` (`ImplementsFencedJob`). `CreationJobs`
ends when the first turn has begun; `TurnLoop` is that turn. `TurnLoop` drains a
steering queue by its length only; `Steering` models what is in the queue.
`TurnLoop` has no spawn tool; `SubAgents` models the rounds that use it. `DirectTurn`
has what is around a turn and only the outline of the turn itself. `BashScope` and
`McpSupervisor` are what two kinds of tool calls act on. `EventStream` carries what the
others broadcast to a page; `ConnectionMachine` opens and closes its stream.

What stands for what:

- **A task and the channel its outcome comes through** are one element of a set in
  `TurnLoop`. Aborting is best effort in the code, so an aborted task stays in the
  set and may still report.
- **Time** is a number in `CreationProtocol`, where an event carries the time its
  sender read, possibly long ago. Elsewhere a lease is live or has lapsed, and a
  deadline is a step that may be taken at any moment after it is armed.
- **A crash** (`Steering`, `CreationJobs`, `DirectTurn`, `EventStream`) loses memory, keeps
  rows and files, and is possible between any two steps. In `CreationJobs` it also stops
  `git worktree add` half way, so the directory is absent, remains that are no git root, a git
  root that is not checked out in full (`linked`) or whole. The git child is taken to end
  with the process. The same states arise without a crash when a git command cannot be
  run (`Spoiled`).
- **Two instances of one process** (`CreationJobs`, two elements of `Process`) are two
  live servers on one database, the case leases exist for.
- **Messages, ids and errors** are model values; wording, formatting and events to the
  browser are left out, as no property is about them.
- **A request that is cut short** (`BashScope`, `CutShort`) is an HTTP future dropped at an
  await, or a query that fails between cleanup and row write.
- **Abstractions of `DirectTurn`**: one conversation; resends under the same key, archived
  conversations, quarantined and corrupt payloads, steering, eviction of the runtime, dismissing an
  error and a failing `get_or_create` are left out; starting a runtime and the load and
  termination inside a cancel are one step each.
- **Abstractions of `McpSupervisor`**: a link that a stdio server writes to stderr after its
  connecting task has ended is left out unless the server is being served.
- **Abstractions of `EventStream`**: reserved ranges of one row, a change of
  generation and events that are only broadcast are left out. An init carries the latest
  messages only, 50 in the code (`Window`), and as many more as the alignment to a unit on
  the page happens to add. The page loads more over HTTP when it is opened on a
  conversation, and when the reader scrolls back, not when it reconnects
  (`ConversationPage.tsx:1064`); these loads are left out, so messages an init had no room
  for stay away (`beyond`), and `NoLoss`, `NothingSkipped` and `StreamSettles` except them
  (section 6, item 20). **Of `ConnectionMachine`**: a React
  render that writes an older state into the ref; there is no timeout on a silent stream in
  the code and none here.

## 3. Runs

The listed runs (each finishes in about two minutes or less on two cores):

| Run | Instance | Shows |
|---|---|---|
| `creation_protocol` | 2 workers that may draw the same token, 2 stages, 3 attempts, leases 0–2, time ≤ 4, generation ≤ 4 | `AuthorityNeverRegained`, `LiveLeaseRespected`, `WithdrawnIsFinal`, `AttemptsBounded`, `ImplementsFencedJob` |
| `creation_takeover` | 2 processes, 2 attempts, 1 lapse, 1 crash or git fault, 2 claims | `ReadyMeansStarted`, `ReadyHasWorktree` while a superseded worker, thread and runtime go on; `ImplementsFencedJob` |
| `creation_live` | 1 process, every intent, 2 attempts, 1 lapse, 1 crash or git fault, 5 claims | `CreationProgresses`, `CancelCompletes` |
| `turnloop` | 2 messages, 2 cancellations, lists of one or two tool calls, 3 attempts, cap 3, 1 failed write | `OwnResults`, `OutcomeOfThisTurn`, `SingleRequest`, `NeverStranded`, `TurnEnds` |
| `steering` | 2 messages, table of 2, 1 crash | `NothingLost`, `NoDoubleInsertion`, `CancelEffective`, `QueuedWhileBusyIsDrained` |
| `subagents_safe` | a Work agent and an Explore agent | `ReportedExactlyOnce`, `SuccessIsReal` |
| `subagents_live` | 1 agent that may time out | `WaitEnds`, `CancelSettles` |
| `direct_turn` | 2 messages, 1 tool round, a wake result, 2 disturbances of any kind | `OwnerIsWorked`, `RestIsReleased`, `AcceptedSettles`, `WakeIsHeard` |
| `bash_scope` | 2 conversations, one a restricted sub-agent; 2 run calls, 1 wait or kill call, cap 2, 2 lifecycle requests, 1 cut short | `NothingEscapesTeardown`, `LiveOwnerKeepsHandles`, `ObserversWake` |
| `mcp` | 2 tool calls, an HTTP and a stdio configuration, 2 reloads, 1 authorization flow, 2 actors, 1 timeout | `ServesItsConfig`, `NoServerLeaks`, `ReconnectIsDriven`, `RetriesElsewhere` |
| `event_stream` | 1 worker beside the executor, none or 1 message stored before, 2 events, ring of 1, inits of 1 message, 3 streams, 1 fault | `NoLoss`, `NothingSkipped`, `StreamSettles` |
| `connection` | 2 conversations, 4 failing streams, threshold 3, offline twice, 3 moves | `ConnectedIsCurrent`, `NeverStranded`, `Reconnects` |

More about the same modules, in configurations named `<Module>More.cfg`: the type
invariants, the inductive invariants of section 4 before they were proved (`RoundInv`,
`LoopInv`, `CreationInv`, `TurnInv`), and properties that add less: `IssuedClaims`;
`ResourceRecorded`, `FailedReleased`; `IdleOwesNothing`, `CancelEnds`; `FifoDelivery`,
`NothingUnanswered`; `DeadlineIsHard`, `OneWriterPerRound`; `BusyRowHasWork`,
`NothingAfterTheEnd`, `CancelStopsWork`; `CapRespected`, `NoGhostHandles`,
`TombstoneKeepsKill`, `ClosedOnlyWhileCleaning`, `TeardownEnds`; `OneConnectorPerEpoch`,
`SentAtMostTwice`, `StdioQueueMoves`; `CursorAdvances`; `LateIsIgnored`, `CountdownIsReal`.

The configurations of section 6 show a disagreement: TLC finds their one property violated.

### Why the bounds are enough

- Fencing is a question of two claims: one that lost its authority and one that has
  it. Two workers and four generations allow a takeover of a takeover and a withdrawal.
- Two attempts reach both branches of the retry limit in `CreationJobs`, and one lapse
  at any point makes any step of a worker a superseded one (`MaxLapses` also bounds the
  removals of a worktree that fail). A crash or a git fault (`MaxMishaps`) at any point of the
  two processes is followed by a claim that meets what it left. `MaxClaims` cuts off the endless re-claims of
  section 6, item 10. It does not help `CreationProgresses`: a job that ran out of claims
  in `Provisioning` would violate it.
- A late outcome needs one turn to be made in and another to arrive in: two messages.
  Tool ids are used again, so that generations and not ids tell runs apart.
  `MaxRounds` is large enough not to bind: the cap ends the turns before. Two messages did
  hide one thing: a request that a failed write left running meets another request only in
  a third turn, and the attempt to prove `SingleRequest` without its exception found it
  (section 6, item 12). The proved invariant was also checked with three messages and two
  failed writes.
- Two messages fill a steering table of two rows; the code's limit of 5 differs in size only.
- A round takes one Work agent at most, so the second agent of `subagents_safe` is an Explore
  agent: both are pending at once, their results overtake each other and gather in the buffer.
  `SubAgentsSafeMore.cfg` has two Work agents, the second of which is refused.
- In `DirectTurn` attempt ids are compared for equality only and there are more of them than
  parties that can hold one, so running out of ids never hides a step. Two disturbances
  reach a failing call during the recovery from a restart.
- `MaxLoad` in `BashScope`, `McpSupervisor` and `EventStream` bounds calls, requests and faults
  together (in `McpSupervisor` a denied authorization under way counts as well): it cuts off combinations of many independent disturbances, and leaves every
  pair and triple of them.
- A ring of one entry is full after one event, so eviction is reached at once. An init of one
  message leaves some out as soon as two are stored, one before and one in the run;
  `EventStreamMore.cfg` begins with none and has three events.

Symmetry is used in two runs (`mcp` over `Caller`, `creation_takeover` over `Process`), whose
properties are all safety properties; the liveness runs have none.

### Fairness

Weak fairness of what the tokio runtime schedules: the executor's loop, chained
events, a handler that has begun, the poll loops of the workers. LLM requests and
uncancelled tools end, because they run under time limits. Timers and deadlines
fire, and leases that nobody renews lapse. No fairness is assumed of users, of a
cancelled tool, of the manager or of sub-agents: `WaitEnds` and `CancelSettles` rest on
the parent's deadlines alone, and `CancelEnds` on the backstop. Fairness is of an
outcome, never of its success: a failed request or a failed stage is as good an outcome
as any, and what ends a series of failures is the code's own limit on attempts. Failed
database writes (`MaxFaults`), failed removals and slow holders of a lease (`MaxLapses`)
and crashes (`MaxCrashes`, `MaxMishaps`) have no limit in the code and get one here.

`DirectTurn`: the worker's loop, the executor, a cancel request that has begun, the wake
worker, the expiry of a lease nobody renews, and the runtime a restart brings back.
`BashScope`: tasks that are ready run and a process that was sent SIGKILL ends; nothing makes
a process end by itself, a call time out or a request come. `EventStream`: tasks finish a
broadcast they began, the server answers, what is sent arrives, and a page without a
stream opens one; nothing makes a stream break. `ConnectionMachine`:
timers fire and an open stream is answered; the bounds on failures and moves make them
stop, which is what "once failures stop" means in `Reconnects`.

## 4. Proofs

Eight modules hold theorems, for every value of the constants under the assumptions the
modules state about them. Those assumptions are types and bounds (a delay for each attempt
but the last, lists of tool calls that are not empty, finite sets where something is
counted), nothing about behaviour.

| Module | Theorem | States |
|---|---|---|
| `CreationProtocolProofs` | `TypeCorrect`, `AttemptsCorrect`, `ClaimsAreDistinct` | `[]TypeOK`, `[]AttemptsBounded`, `[]IssuedClaims` |
| | `Fencing` | `AuthorityNeverRegained` |
| | `LeaseSafety` | `LiveLeaseRespected` |
| | `WithdrawalFinal` | `WithdrawnIsFinal` |
| | `Refinement` | `ImplementsFencedJob` |
| `CreationJobsProofs` | `TypeCorrect`, `WorktreesAreRecorded` | `[]TypeOK`, `[]ResourceRecorded` |
| | `ReadyIsBegun` | `[]ReadyMeansStarted` |
| | `ReadyIsBuilt` | `[]ReadyHasWorktree` |
| | `Refinement` | `ImplementsFencedJob` |
| `TurnLoopProofs` | `TypeCorrect`, `RestOwesNothing` | `[]TypeOK`, `[]IdleOwesNothing` |
| | `ResultsAreOwn` | `[]OwnResults` |
| | `OneRequest` | `[]SingleRequest` |
| | `AlwaysAwaited` | `[]NeverStranded` |
| | `OutcomesAreTheTurns` | `OutcomeOfThisTurn` |
| `SubAgentsProofs` | `TypeCorrect`, `DeadlineHolds`, `OneWriter` | `[]TypeOK`, `[]DeadlineIsHard`, `[]OneWriterPerRound` |
| | `AccountedOnce` | `[]ReportedExactlyOnce` |
| | `SuccessIsTheAgents` | `[]SuccessIsReal` |
| `DirectTurnProofs` | `TypeCorrect`, `EndIsFinal` | `[]TypeOK`, `NothingAfterTheEnd` |
| | `OwnersAreWorked` | `[]OwnerIsWorked` |
| | `RestAfterRelease` | `[]RestIsReleased` |
| `BashScopeProofs` | `TeardownIsComplete` | `[]NothingEscapesTeardown` |
| | `OwnersKeepHandles` | `LiveOwnerKeepsHandles` |
| | `KillsAreRecorded`, `FailedCleanupReopens` | `[]TombstoneKeepsKill`, `[]ClosedOnlyWhileCleaning` |
| | `BooksAgree` | `[]NoGhostHandles` |
| `ConnectionMachineProofs` | `ConnectedMeansCurrent` | `[]ConnectedIsCurrent` |
| | `AlwaysComesBack` | `[]NeverStranded` |
| | `LateEventsIgnored`, `CountdownHolds` | `LateIsIgnored`, `[]CountdownIsReal` |
| `SteeringProofs` | `SteeringTypes` | `[]TypeOK` |
| | `AcceptedIsUnderWay` | `[]NothingLost` |
| | `InsertedOnce` | `[]NoDoubleInsertion` |
| | `CancelledStaysOut` | `CancelEffective` |
| | `AnsweredInFull` | `NothingUnanswered` |
| | `DeliveredInOrder` | `[]FifoDelivery` |

The arguments:

- **`CreationProtocol`**, `IInv == TypeOK /\ AttemptsBounded /\ IssuedClaims`. `TypeOK` alone
  is not inductive: the attempt counter stays within its range because a retry is
  scheduled only below the limit. That a claim stays powerless needs to know that no claim
  handed out is from the future and that two claims of one generation are the same claim
  (`IssuedClaims`). Then: authority needs the current generation, the generation never
  decreases, and the only event that hands out a claim first advances it. That tokens are
  unique is nowhere used. The generation is a `u64` that saturates in the code; it is bounded
  here by `MaxGeneration`, which the theorems leave arbitrary, so they say nothing of a job
  with 2^64 generations.
- **`CreationJobs`**, `CreationInv`. What is ready is complete because of the order in which
  things happen, not because of who does them: nothing gives up the conversation of an open
  job, a bootstrap that will complete the job has stored the message and the state
  (`BeginsInOrder`); as long as the job is open a reservation is not given back, a worktree
  is marked present only when it is a git root, one that is is never taken apart while git can be
  run, and nobody is past the stage that builds it before the reservation says present
  (`WorktreeComesFirst`). That it is also checked out in full needs that nothing but a crash
  or a fault leaves a git root behind that is not.
  Cleanup steps need a reservation that requires cleanup, which no open job has. So a
  superseded worker, thread or runtime may do any of this and only helps. The proof has
  frame lemmas (`StoryKept`, `TreeKept`, `QuietKeeps`) that say which changes leave the two
  chains alone, and a lemma for each action. The same lemmas give `JobMoves`, the five
  ways a step moves the job, from which the refinement follows.
- **`TurnLoop`**, `LoopInv`. Generations identify tasks: none is from the future, no two tasks
  of a kind share one, and one of the current generation belongs to this turn or response
  (`GenerationsFit`). While every write succeeds, the current request is the one that was
  not aborted, and it excludes a retry timer (`OneThingAwaited`), and what is waited for is there
  (`SomethingAwaited`). All handlers apply a transition record; what the records have in common
  is proved once for each transition and used once for all ways to apply it.
- **`SubAgents`**, `RoundInv`. An agent is fresh, pending, collected or reported, one of these
  only (`AgentLife`, `ReportedExactlyOnce`); no result under way claims a success the agent
  has not reported (`HonestResults`); an agent that missed the deadline is pending only in the
  cancellation the deadline started (`LateAgents`). A step makes one of five moves on the
  round; the invariant is proved for moves.
- **`DirectTurn`**, `TurnInv`. At most one turn owns the conversation; where the executor is
  in its code says what it has published (`ExecutorFits`); an attempt executes, and has a
  lease, only for an accepted turn that is not in the transcript yet (`TurnFits`).
- **`BashScope`**, `ScopeInv`. Every running process is about to be committed, in the table, or with
  the cleanup that took it (`RunningIsHeld`); calls that have begun hold a reservation; while
  admission is closed whatever is left is still waited for by some teardown
  (`ClosedIsDrained`); a conversation that decided to tear down stays the only owner
  (`DecisionHolds`). For `NoGhostHandles` the proof adds `HandleBooks`: a handle a cleanup has
  taken and not yet removed from the index is out of the table and its run call is over, so no
  commit can put it back before the removal.
- **`ConnectionMachine`**, `ConnInv`. The source in use is of this conversation and epoch, a timer
  is held exactly in the states that wait for it, the atom follows the machine, and events of
  closed sources in the task queue can be told from those of the open one.
- **`Steering`**, `SteerInv` and `FifoInv`. A message's cancellation is behind the message in the
  channel (`CancelsFollow`), so when it is taken in, the message is in the queue or past it,
  and, until a crash brings the table's copy back, not under way afterwards (`HandledIsGone`).
  The order of delivery is the harder part. Queue, batch, channel and transcript are parts of
  one pipeline, each in the order of admission and each ahead of the next
  (`PipelineSorted`). The table, and a sender's copy of it, is sorted as well and holds
  nothing the pipeline does not know, save cancelled messages and the one just
  written (`TableSorted`), which was admitted last (`Admitted`). That is why a copy written
  back late, or a queue reloaded after a crash, may repeat or drop messages but not swap
  two. Each action is described once by what it moves between the parts (the `Moves`
  lemmas), and the invariants follow from the moves. That deleting entries leaves the
  others in their order would need induction over lists; instead it is carried along the
  behaviour: the lists are empty at first and only appended to, copied and deleted from, so
  what stays after a deletion can always be counted off (`Editable`). TLC has checked all of
  the two invariants but `Editable` with three messages and one crash (2.5 million states).

Only model-checked: every property with `~>`, and those under fairness, since the prover has
neither liveness nor ENABLED; all of `McpSupervisor` and `EventStream`: what
`EventStream` promises is the result of folding a list of events, which needs induction over
data; `McpSupervisor`, the largest state machine here, is within the prover's reach and not proved
yet; and, of the proved modules, `BusyRowHasWork` and `CapRespected`.
For the proofs `Steering` defines the deletion of list entries (`Without`) by the positions that
stay, in increasing order, not by the library's recursive filter.

## 5. Faults

Every property of a passing run has a faulty variant of a mapped definition, named
`<Definition>_<Fault>` and placed before it, that breaks that property in that run: a
guard that is dropped, a stamp that is one too early, a reset that is missing. They are
never used by the specifications.

## 6. Where code and documentation disagree

Met while modelling. Where a configuration is named, TLC finds the property violated in it.
The others are read off the code, or were found with an instance that is described; the
property, if one is named, is in the module.

Steering, sub-agents, turn loop and creation:

1. `AcceptedIsDurable` (`SteeringDurable.cfg`): the executor replaces the steering table by
   its own queue and erases a row accepted meanwhile (`executor.rs:2718`).
2. `OneWriterReleased` (`SubAgentsWriter.cfg`, `MCSubAgents`): a buffered result drained by
   `process_outcome` does not release the one-writer counter (`executor.rs:2632`).
3. `DeletionCompletes` (`CreationJobsDelete.cfg`, `MCCreationJobs`): a reservation already
   marked for cleanup keeps its old generation when deletion advances the job's
   (`phoenix-db/src/lib.rs:4343`).
4. `CancelledStays` (`CreationJobsCancelled.cfg`, `MCCreationJobs`): a queued bootstrap
   overwrites `CreationCancelled` (`phoenix-db/src/lib.rs:5256`).
5. `CancelIsDurable` (`Steering`; one message, no crash before the cancellation): a message
   written back to the table after its cancellation stays there and is delivered after a
   restart. The code says "DB is already updated by the cancel handler before this event
   arrives" (`executor.rs:2736`).
6. `AcceptedIsDelivered` (`Steering`, one message): a message accepted as the turn ends is
   queued in an idle conversation and waits for some later turn to end. `runtime.rs:3504`
   says "Queue a steering message to be delivered when the conversation next reaches `Idle`."
7. `SettledMeansStopped` (`SubAgents`, one agent): a cancel request overtakes the spawn request
   of its agent, which then starts after the parent has settled (`runtime.rs:2316`, `:2715`);
   `specs/subagents/requirements.md:107` has the parent wait for all of them.
8. `PresumedHaveNotReported` (`SubAgents`, two agents): one rejected result in a drained buffer
   drops those behind it (`executor.rs:2800`), and the backstop presumes agents dead that had
   reported.
9. `SomethingAwaited`, `HaltOwesNothing`, `HaltEnds` (`TurnLoop`, one failed write, a cap of
   one request, a channel of one place): a failed write leaves `LlmRequesting` with nothing
   to wait for (`executor.rs:3054`); a message drained as the cap halts a turn does not reset
   the counter and is not answered (`:5212`, against the comment at `:3657`); halting sends
   to the bounded channel that the sender alone reads (`:3704`). The passing run states the
   first two with the exception spelled out (`NeverStranded`, `IdleOwesNothing`).
10. `FirstTurnServed` (`CreationJobs`, one process, one lapse): a retry evicts the runtime with
    the bootstrap and loads another in `Provisioning`; the evicted one stores
    `LlmRequesting`; every later claim finds a loaded runtime and does nothing
    (`creation_worker.rs:229`), until the process is restarted.
11. `NothingLeftBehind` and `ReadyAtFinalize` (`CreationJobs`, one process): a detached thread
    rebuilds a worktree after the cleanup (`creation_worker.rs:398`); a job becomes ready
    before its last stage (`phoenix-db/src/lib.rs:5041`, against
    `conversation-creation.allium:183`).
12. `SingleRequest` without its exception (`TurnLoop`, three messages, one failed write): a
    cancellation in `LlmRequesting` that takes queued messages with it writes the state before it
    aborts the request (effects in the order of `transition.rs:1186`); if the write fails the
    request runs on beside that of the next turn. Its outcome is dropped as stale.
13. `ReadyIsWhole` (`CreationJobsWhole.cfg`, `MCCreationJobs`): a retry adopts whatever
    directory is a git root of this repository (`creation_worker.rs:1379`), and `git worktree
    add` makes it one before it checks out the files, so the worktree a crash cut short is
    used as it is. `specs/inline-references/executive.md:9` speaks of "the freshly-created
    worktree, a clean checkout of that same tree"; the test
    `owned_partial_directory_is_removed_for_rematerialization` (`:1166`) covers remains that
    are no git root. The reverse: when `git rev-parse` cannot be run, a whole worktree is
    removed and built anew (`phoenix-core/src/git.rs:130`), also by the thread of a superseded
    claim under a job that is ready. `ReadyHasWorktree` excepts both.

MCP supervisor:

14. `SupersededCannotOverwrite` (`McpSuperseded.cfg`): a task of an earlier reload stores its
    configuration over a newer one, or brings back a removed server, against
    `specs/mcp/mcp.allium:971` (`SupersededCompletionCannotPublish`). What it publishes is
    still refused by epoch (`ServesItsConfig`).
15. A denial or reload between surfacing an authorization and binding it, or a failure to
    store the token, leaves the actor recovering; a stale task surfaces a URL after a reload
    cancelled its flow, or makes itself owner of the flow of a newer epoch; a removal that
    fails puts the old actor back over one that a callback created meanwhile. A server whose
    publication waits behind a removal is dropped with the mailbox (`supervisor.rs:405`), and
    an HTTP session lingers, against `:230` "Returns false (and terminates the server) if the
    epoch is stale" and `http.rs:476` "so it does not linger until expiry";
    `NoServerLeaks` excepts it (`dropped`). A stdio child is killed when dropped. A link in the
    stderr of a stdio server counts as a URL to authorize (`stdio.rs:81`): if its connection then
    fails, the actor stays recovering with that URL, no flow and no task (`lib.rs:2157`), and a
    reload leaves it so (`lib.rs:2833`); `ReconnectIsDriven` excepts actors that show a URL.

Bash scopes:

16. A scope that is still owned stays closed when the reopening cannot read the row, when
    abandon returns early (`lifecycle_handlers.rs:731`) or when the request is dropped;
    `registry.rs:565` says "Reopen admission when the authoritative lifecycle mutation
    following a completed cleanup fails and the `WorkScope` therefore remains active".
    `ClosedOnlyWhileCleaning` is stated for requests that are not cut short.
17. `NoOrphans` (`BashScopeOrphan.cfg`): a sub-agent that outlives its archived parent ends
    without any cleanup, and what it started runs on.
18. `kill_attempt` is documented as "Cleared back to `None` on terminal transition" and never
    is; a waiter that panics leaves the handle live and its slot taken; while the readers
    drain, a handle is live with a group that was reaped; a failed final row write leaves the
    conversation live with its worktree removed.

Event stream and connection:

19. `NoSilentGap` (`EventStreamGap.cfg`): `runtime.rs:325` says "the client reconnects, `init`
    replays current state, and no silent gap results". An init whose ring was truncated
    sets the cursor below the tip, after which later events are held back and a cursor
    regresses ("Phase 3: safety belt — never regress lastSequenceId",
    `conversation_atom.allium`). After a restart new events are dropped as replays of
    numbers the page has seen; a number taken and never sent freezes the page; a persisted
    message stored without a reservation clears the ring.
20. `ShownIsATail` (`EventStreamWindow.cfg`): `sse.rs:82` says that after a stream fell behind
    "the next `init` event pulls in everything that was in the gap". An init carries the latest
    50 messages (`handlers.rs:2610`, `:3668`); the page merges them with those it has, moves its
    cursor past all of them and keeps its coverage `complete` (`atom.ts:1162`), so a longer
    gap stays in the middle of the transcript, and nothing shows it.
21. A page overtaken by later events drops a message with a lower number that was not
    committed yet; a wake message in the middle of a stream keeps the old streaming buffer;
    an eager message stays as a ghost after a restart; nested reservations are met only by
    a debug assertion (`runtime.rs:769`).
22. The comment invariants 4, 7 and 8 at `connectionMachine.ts:262`, and `useConnection.ts:754`
    ("After OFFLINE_THRESHOLD attempts the machine moves to 'offline' and stops
    auto-retrying"): the machine goes on retrying. An init that does not parse leaves it
    connecting with an open stream.

Direct turns:

23. `CompletedWasDelivered` (`DirectTurnUndelivered.cfg`): after a restart a turn is completed
    that no executor was ever given (`runtime.rs:3153`).
24. A cancel request that races the end of a turn leaves the row at `llm_requesting` with no
    owner (`tasks/45007` asks to "prove there is no state where ownership is released while
    the old transient projection remains committed"); a wake result then finds the
    conversation busy for ever. `BusyRowHasWork` has the exception.
25. A turn cancelled before it is in the transcript stays the executor's active turn, and
    settling it later is refused; a wake result is adopted over an idle row while the
    executor that goes on by itself ignores it; an ambiguous commit, a failing preflight or a failed settlement
    leaves a turn, or `LlmRequesting`, that nobody works on (`Faultless` in `OwnerIsWorked` and
    `RestIsReleased`); a turn interrupted right after its message is marked completed, and a
    cancellation lost in a crash is resumed; steered messages drained as a cancellation aborts stay
    unanswered.

## 7. Not modelled

- **Durable workflow engine** (`engine.rs`): effects with several attempts, receipts, manual
  resolution and compensation. `DirectTurn` has the one effect, attempt and lease that a
  direct turn uses. It is the next component: parked effects that must become claimable
  after every kind of resolution (`engine.rs:496`), compensation of effects that may have
  committed without a receipt (`:856`).
- **Terminal sessions**: attach permits and reclaim. A new relay resets the stop signal and so
  may erase a detach or teardown (`terminal_ws.rs:209`).
- **Client message queue**: two tabs rewrite one stored queue (`useMessageQueue.ts:171`).
- **Credential helper, chains, work lifecycle beyond bash handles.**
- Formats, text and I/O without shared state, as listed in section 1.

Next to prove: the invariants of `McpSupervisor`.
