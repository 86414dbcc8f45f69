------------------------------ MODULE TurnLoop ------------------------------
(***************************************************************************)
(* The turn loop of one conversation: the executor's select loop, the pure *)
(* state machine it calls, and the tasks it starts (LLM requests, tools,   *)
(* retry timers), whose outcomes come back stamped with the generation of  *)
(* their dispatch.                                                         *)
(*                                                                         *)
(* As in the code, a handler asks the state machine for a new state and a  *)
(* list of effects (a transition record here) and then applies it.  One    *)
(* handler is one step.  A write to the database may fail at any effect,   *)
(* which skips the effects after it.                                       *)
(*                                                                         *)
(* A task and its outcome channel are one thing: an element of llmTask,    *)
(* toolTask or timers is a task that has not finished or whose outcome has *)
(* not been received.  Aborting a task is best effort in the code, so an   *)
(* aborted one stays in the set: its outcome may still arrive.             *)
(*                                                                         *)
(* Left out: sub-agents (SubAgents), cancelling a queued message and       *)
(* crashes (Steering), context continuation, approvals.                    *)
(***************************************************************************)
EXTENDS Naturals, Sequences

CONSTANTS
    ToolId,         \* tool_use ids; a provider may use one again later
    ToolLists,      \* the tool calls an LLM response may make
    MaxAttempts,    \* MAX_RETRY_ATTEMPTS
    CycleCap,       \* parent_tool_cycle_cap; 0 means there is none
    QueueCap,       \* capacity of the event channel
    MaxMessages,    \* bound: messages the user sends
    MaxCancels,     \* bound: cancellations the user requests
    MaxRounds,      \* bound: responses that call tools
    MaxFaults       \* bound: database writes that fail

ASSUME ToolAssumption ==
    ToolLists \subseteq {s \in Seq(ToolId) : Len(s) > 0}
ASSUME BoundAssumption ==
    /\ MaxAttempts \in Nat \ {0} /\ QueueCap \in Nat \ {0}
    /\ CycleCap \in Nat /\ MaxMessages \in Nat /\ MaxCancels \in Nat
    /\ MaxRounds \in Nat /\ MaxFaults \in Nat

VARIABLES
    conv,       \* the conversation's state
    llmGen,     \* llm_request_generation
    llmTask,    \* LLM requests whose outcome has not been received
    toolGen,    \* tool_request_generation
    toolTask,   \* tool runs whose outcome has not been received
    token,      \* generations of tool runs whose token is cancelled
    retryGen,   \* retry_generation
    timers,     \* retry timers whose fire has not been received
    timerHeld,  \* retry_timer_handle is set
    cycles,     \* parent_tool_cycle_count
    halting,    \* the executor is in halt_parent_cycle_cap
    queue,      \* the event channel
    ask,        \* the acknowledged-event channel: a message is waiting
    steers,     \* length of the steering queue
    owed,       \* history: a user message that no LLM request has seen
    turn,       \* history: the number of the turn
    spent       \* how much of each bound is used

tasks == <<llmGen, llmTask, toolGen, toolTask, token, retryGen, timers, timerHeld>>
inputs == <<queue, ask>>
vars == <<conv, llmGen, llmTask, toolGen, toolTask, token, retryGen, timers, timerHeld,
          cycles, halting, queue, ask, steers, owed, turn, spent>>

NoTool == "none"
Phase == {"Idle", "LlmRequesting", "ToolExecuting", "CancellingTool",
          "AwaitingRecovery", "Error"}

\* A state without tools.
At(p, n) == [phase |-> p, attempt |-> n, cur |-> NoTool, rest |-> <<>>, done |-> <<>>,
             round |-> 0]
Requesting == At("LlmRequesting", 1)

Init ==
    /\ conv = At("Idle", 1)
    /\ llmGen = 0 /\ llmTask = {}
    /\ toolGen = 0 /\ toolTask = {} /\ token = {}
    /\ retryGen = 0 /\ timers = {} /\ timerHeld = FALSE
    /\ cycles = 0 /\ halting = FALSE
    /\ queue = <<>> /\ ask = FALSE /\ steers = 0
    /\ owed = FALSE /\ turn = 0
    /\ spent = [messages |-> 0, cancels |-> 0, rounds |-> 0, faults |-> 0]

-----------------------------------------------------------------------------
(* The state machine.  A transition is the new state, what is written       *)
(* before the state itself ("user", "answer", "checkpoint" or "nothing"),   *)
(* whether the state is written, and the other effects.                     *)

Transition(c, first, state, effects) ==
    [conv |-> c, first |-> first, state |-> state, effects |-> effects]

\* Idle or Error, AuthoritativeUserMessage: message and state are one write.
OnMessage == Transition(Requesting, "user", FALSE, {"request"})

\* A response without tool calls; an empty one leaves nothing to write.
OnAnswer(first) == Transition(At("Idle", 1), first, TRUE, {})

OnTools(calls, g) ==
    Transition([phase |-> "ToolExecuting", attempt |-> 1, cur |-> Head(calls),
                rest |-> Tail(calls), done |-> <<>>, round |-> g],
               "nothing", TRUE, {"execute"})

OnLlmError(retryable) ==
    IF retryable /\ conv.attempt < MaxAttempts
    THEN Transition(At("LlmRequesting", conv.attempt + 1), "nothing", TRUE, {"retry"})
    ELSE Transition(At("Error", 1), "nothing", TRUE, {})

\* An authentication error while the credential helper runs.
OnAuthError == Transition(At("AwaitingRecovery", 1), "nothing", TRUE, {})

OnCredential(valid) ==
    IF valid THEN Transition(Requesting, "nothing", TRUE, {"request"})
             ELSE Transition(At("Error", 1), "nothing", TRUE, {})

OnToolComplete(r) ==
    IF conv.rest # <<>>
    THEN Transition([conv EXCEPT !.cur = Head(conv.rest), !.rest = Tail(conv.rest),
                                 !.done = Append(@, r)],
                    "nothing", TRUE, {"execute"})
    ELSE Transition(Requesting, "checkpoint", TRUE, {"request"})

\* UserCancel in LlmRequesting, AwaitingRecovery and ToolExecuting.
OnCancel ==
    IF conv.phase = "ToolExecuting"
    THEN Transition([conv EXCEPT !.phase = "CancellingTool"], "nothing", TRUE, {"abort_tool"})
    ELSE Transition(At("Idle", 1), "nothing", TRUE,
                    IF conv.phase = "LlmRequesting" THEN {"abort_llm"} ELSE {})

\* CancellingTool, ToolAborted or ToolComplete of the tool.
OnToolStopped == Transition(At("Idle", 1), "checkpoint", TRUE, {})

-----------------------------------------------------------------------------
(* Effects.                                                                 *)

\* Faulty variant: the outcome is stamped with the generation before.
RequestLlm_StampedEarly(others, g, count, owes) ==
    IF CycleCap > 0 /\ count >= CycleCap
    THEN /\ cycles' = count + 1 /\ halting' = TRUE
         /\ llmGen' = g /\ llmTask' = others
         /\ owed' = owes
    ELSE /\ cycles' = IF CycleCap > 0 THEN count + 1 ELSE count
         /\ llmGen' = g + 1
         /\ llmTask' = others \cup {[gen |-> g, turn |-> turn', live |-> TRUE]}
         /\ owed' = FALSE
         /\ UNCHANGED halting

\* dispatch_llm_request.  `others' are the requests in flight, g and count the
\* generation and the cycle count so far; `owes' says that messages were
\* written that no request has seen.
RequestLlm(others, g, count, owes) ==
    IF CycleCap > 0 /\ count >= CycleCap
    THEN /\ cycles' = count + 1 /\ halting' = TRUE
         /\ llmGen' = g /\ llmTask' = others
         /\ owed' = owes
    ELSE /\ cycles' = IF CycleCap > 0 THEN count + 1 ELSE count
         /\ llmGen' = g + 1
         /\ llmTask' = others \cup {[gen |-> g + 1, turn |-> turn', live |-> TRUE]}
         /\ owed' = FALSE
         /\ UNCHANGED halting

\* Entering c, a timer that was scheduled for LlmRequesting is retired.
RetireTimer(c) ==
    /\ timerHeld' = (timerHeld /\ c.phase = "LlmRequesting")
    /\ retryGen' = IF timerHeld /\ c.phase # "LlmRequesting" THEN retryGen + 1 ELSE retryGen
    /\ UNCHANGED timers

ScheduleRetry(c) ==
    /\ retryGen' = retryGen + 1 /\ timerHeld' = TRUE
    /\ timers' = timers \cup {[gen |-> retryGen + 1, attempt |-> c.attempt]}

\* dispatch_tool_execution of c's current tool.
ExecuteTool(c, tools, tg) ==
    /\ toolGen' = tg + 1
    /\ toolTask' = tools \cup {[gen |-> tg + 1, id |-> c.cur, round |-> c.round]}

\* The steering queue is drained when a turn ends and when a tool round does.
Drains(c) ==
    /\ steers > 0
    /\ \/ conv.phase # "Idle" /\ c.phase = "Idle"
       \/ conv.phase = "ToolExecuting" /\ c.phase = "LlmRequesting"

\* A turn that ends with messages queued is followed by another at once.
NextTurn(c) == Drains(c) /\ c.phase = "Idle"

Aborted(others) == {[t EXCEPT !.live = (t.live /\ t.gen # llmGen)] : t \in others}

\* Apply transition r, every write succeeding.  `others' and `tools' are the LLM
\* requests and tool runs in flight, tg the tool generation.
Apply(r, others, tools, tg) ==
    LET abort == "abort_llm" \in r.effects
        asks == NextTurn(r.conv) \/ "request" \in r.effects
        left == IF abort THEN Aborted(others) ELSE others
        g == IF abort THEN llmGen + 1 ELSE llmGen
        owes == owed \/ Drains(r.conv) \/ r.first = "user"
    IN  /\ conv' = IF NextTurn(r.conv) THEN Requesting ELSE r.conv
        /\ steers' = IF Drains(r.conv) THEN 0 ELSE steers
        /\ turn' = IF NextTurn(r.conv) \/ r.first = "user" THEN turn + 1 ELSE turn
        /\ IF asks
           THEN RequestLlm(left, g, IF r.first = "user" THEN 0 ELSE cycles, owes)
           ELSE /\ llmGen' = g /\ llmTask' = left
                /\ owed' = owes
                /\ UNCHANGED <<cycles, halting>>
        /\ IF "retry" \in r.effects THEN ScheduleRetry(r.conv) ELSE RetireTimer(r.conv)
        /\ IF "execute" \in r.effects
           THEN ExecuteTool(r.conv, tools, tg)
           ELSE toolGen' = tg /\ toolTask' = tools
        /\ token' = IF "abort_tool" \in r.effects THEN token \cup {tg} ELSE token

\* Apply transition r, one of its writes failing; the effects after it are
\* skipped.  A failed write of the state restores the old state, unless
\* messages are drained; so does a user message that cannot be materialised,
\* but not one whose preflight query fails.
ApplyFails(r, others, tools, tg) ==
    /\ RetireTimer(r.conv)
    /\ toolGen' = tg /\ toolTask' = tools
    /\ cycles' = IF r.first = "user" THEN 0 ELSE cycles
    /\ steers' = IF Drains(r.conv) THEN 0 ELSE steers
    /\ UNCHANGED <<halting, turn>>
    /\ \/ /\ r.first # "nothing"
          /\ conv' = r.conv \/ (r.first = "user" /\ conv' = conv)
          /\ llmGen' = llmGen /\ llmTask' = others
          /\ UNCHANGED <<token, owed>>
       \/ /\ r.state
          /\ conv' = IF Drains(r.conv) THEN r.conv ELSE conv
          /\ llmGen' = llmGen /\ llmTask' = others
          /\ token' = IF "abort_tool" \in r.effects THEN token \cup {tg} ELSE token
          /\ UNCHANGED owed
       \/ /\ Drains(r.conv)
          /\ conv' = IF NextTurn(r.conv) THEN Requesting ELSE r.conv
          /\ IF "abort_llm" \in r.effects
             THEN llmGen' = llmGen + 1 /\ llmTask' = Aborted(others)
             ELSE llmGen' = llmGen /\ llmTask' = others
          /\ owed' = TRUE
          /\ UNCHANGED token

Starts(r) == r.conv.phase # conv.phase /\ r.conv.phase \in {"ToolExecuting", "AwaitingRecovery"}

Run(r, others, tools, tg) ==
    \/ /\ Apply(r, others, tools, tg)
       /\ spent' = IF Starts(r) THEN [spent EXCEPT !.rounds = @ + 1] ELSE spent
    \/ /\ spent.faults < MaxFaults
       /\ ApplyFails(r, others, tools, tg)
       /\ spent' = [spent EXCEPT !.faults = @ + 1]

-----------------------------------------------------------------------------
(* The arms of the executor's select loop.                                  *)

kept == <<conv, llmGen, toolGen, token, retryGen, timerHeld, cycles, halting, steers,
          owed, turn, spent>>

\* What a response or an error may lead to.
LlmTransitions(t) ==
    {OnAnswer("answer"), OnAnswer("nothing"), OnLlmError(TRUE), OnLlmError(FALSE)}
    \cup IF spent.rounds < MaxRounds
         THEN {OnAuthError} \cup {OnTools(calls, t.gen) : calls \in ToolLists}
         ELSE {}

\* Faulty variant: outcomes are taken whatever their generation.
LlmOutcomeIsStale_Never(t) == FALSE

LlmOutcomeIsStale(t) == t.gen # llmGen

LlmOutcome(t) ==
    /\ ~halting
    /\ \/ /\ LlmOutcomeIsStale(t) \/ conv.phase # "LlmRequesting"
          /\ llmTask' = llmTask \ {t}
          /\ UNCHANGED <<kept, toolTask, timers>>
       \/ /\ ~LlmOutcomeIsStale(t) /\ conv.phase = "LlmRequesting"
          /\ \E r \in LlmTransitions(t) : Run(r, llmTask \ {t}, toolTask, toolGen)
    /\ UNCHANGED inputs

\* Faulty variant: outcomes are taken whatever their generation.
ToolOutcomeIsStale_Never(k) == FALSE

ToolOutcomeIsStale(k) == k.gen # toolGen

\* A run whose token is cancelled reports an abort, unless it had ended before.
\* The state machine takes outcomes of the current tool only, and an abort only
\* if it asked for one.
ToolOutcome(k) ==
    LET left == toolTask \ {k}
        taken(abort) == /\ ~ToolOutcomeIsStale(k) /\ k.id = conv.cur
                        /\ \/ conv.phase = "ToolExecuting" /\ ~abort
                           \/ conv.phase = "CancellingTool"
    IN  /\ ~halting
        /\ \E abort \in {FALSE, k.gen \in token} :
              \/ /\ ~taken(abort)
                 /\ toolTask' = left
                 /\ UNCHANGED <<kept, llmTask, timers>>
              \/ /\ taken(abort) /\ conv.phase = "ToolExecuting"
                 /\ Run(OnToolComplete([id |-> k.id, round |-> k.round]),
                        llmTask, left, toolGen)
              \/ /\ taken(abort) /\ conv.phase = "CancellingTool"
                 /\ Run(OnToolStopped, llmTask, left, toolGen)
        /\ UNCHANGED inputs

\* Faulty variant: fires are taken whatever their generation.
RetryTimeoutIsStale_Never(f) == FALSE

RetryTimeoutIsStale(f) == f.gen # retryGen

\* A timer fires; the state machine compares the attempt.
RetryTimeout(f) ==
    /\ ~halting
    /\ timers' = timers \ {f}
    /\ UNCHANGED <<conv, toolGen, toolTask, token, retryGen, steers, turn, spent, inputs>>
    /\ \/ /\ RetryTimeoutIsStale(f)
          /\ UNCHANGED <<timerHeld, llmGen, llmTask, cycles, halting, owed>>
       \/ /\ ~RetryTimeoutIsStale(f)
          /\ timerHeld' = FALSE
          /\ IF conv.phase = "LlmRequesting" /\ conv.attempt = f.attempt
             THEN RequestLlm(llmTask, llmGen, cycles, owed)
             ELSE UNCHANGED <<llmGen, llmTask, cycles, halting, owed>>

\* handle_deadline_expiry in CancellingTool: the tool did not stop in time.
CancelBackstop ==
    /\ ~halting /\ conv.phase = "CancellingTool"
    /\ Run(OnToolStopped, llmTask, toolTask, toolGen + 1)
    /\ UNCHANGED inputs

\* Faulty variant: the settlement is awaited after the first request of a turn only.
CredentialSettles_FirstOnly ==
    /\ ~halting /\ conv.phase = "AwaitingRecovery" /\ cycles <= 1
    /\ \E valid \in BOOLEAN : Run(OnCredential(valid), llmTask, toolTask, toolGen)
    /\ UNCHANGED inputs

\* handle_credential_settlement.
CredentialSettles ==
    /\ ~halting /\ conv.phase = "AwaitingRecovery"
    /\ \E valid \in BOOLEAN : Run(OnCredential(valid), llmTask, toolTask, toolGen)
    /\ UNCHANGED inputs

\* An event of the channel: a steering message is buffered, a cancellation is
\* absorbed or rejected unless there is something to cancel.
HandleEvent ==
    /\ ~halting /\ queue # <<>>
    /\ queue' = Tail(queue) /\ UNCHANGED ask
    /\ \/ /\ Head(queue) = "steer"
          /\ steers' = steers + 1
          /\ UNCHANGED <<conv, tasks, cycles, halting, owed, turn, spent>>
       \/ /\ Head(queue) = "cancel"
          /\ conv.phase \in {"Idle", "Error", "CancellingTool"}
          /\ UNCHANGED <<kept, llmTask, toolTask, timers>>
       \/ /\ Head(queue) = "cancel"
          /\ conv.phase \in {"LlmRequesting", "ToolExecuting", "AwaitingRecovery"}
          /\ Run(OnCancel, llmTask, toolTask, toolGen)

\* A message of the acknowledged channel.  Nothing else takes a conversation out
\* of Idle or Error here, so it finds it there.
HandleMessage ==
    /\ ~halting /\ ask
    /\ conv.phase \in {"Idle", "Error"}
    /\ ask' = FALSE /\ UNCHANGED queue
    /\ Run(OnMessage, llmTask, toolTask, toolGen)

\* The executor, which is the reader of the channel, waits for room in it.
HaltCycle ==
    /\ halting /\ Len(queue) < QueueCap
    /\ queue' = Append(queue, "cancel")
    /\ halting' = FALSE
    /\ UNCHANGED <<conv, tasks, cycles, ask, steers, owed, turn, spent>>

-----------------------------------------------------------------------------
(* The user.                                                                *)

\* A message is for a new turn when none is running, else it steers this one.
SendMessage ==
    /\ spent.messages < MaxMessages
    /\ spent' = [spent EXCEPT !.messages = @ + 1]
    /\ \/ /\ conv.phase \in {"Idle", "Error"} /\ ~ask
          /\ ask' = TRUE /\ UNCHANGED queue
       \/ /\ conv.phase \in {"LlmRequesting", "ToolExecuting", "CancellingTool"}
          /\ Len(queue) < QueueCap
          /\ queue' = Append(queue, "steer") /\ UNCHANGED ask
    /\ UNCHANGED <<conv, tasks, cycles, halting, steers, owed, turn>>

RequestCancel ==
    /\ spent.cancels < MaxCancels /\ Len(queue) < QueueCap
    /\ spent' = [spent EXCEPT !.cancels = @ + 1]
    /\ queue' = Append(queue, "cancel")
    /\ UNCHANGED <<conv, tasks, cycles, halting, ask, steers, owed, turn>>

AnyLlmOutcome == \E t \in llmTask : LlmOutcome(t)
AnyToolOutcome == \E k \in toolTask : ToolOutcome(k)
AnyRetryTimeout == \E f \in timers : RetryTimeout(f)

Next ==
    \/ AnyLlmOutcome \/ AnyToolOutcome \/ AnyRetryTimeout
    \/ CancelBackstop \/ CredentialSettles \/ HandleEvent \/ HandleMessage \/ HaltCycle
    \/ SendMessage \/ RequestCancel

Spec == Init /\ [][Next]_vars

\* The select loop is not biased, a request ends (it has a time limit), a timer
\* fires, the deadline passes and the credential helper settles.  A tool that
\* is not cancelled ends.  The user need not do anything.
Fairness ==
    /\ WF_vars(\E t \in llmTask : t.gen = llmGen /\ LlmOutcome(t))
    /\ WF_vars(\E f \in timers : f.gen = retryGen /\ RetryTimeout(f))
    /\ WF_vars(\E k \in toolTask : k.gen = toolGen /\ toolGen \notin token /\ ToolOutcome(k))
    /\ WF_vars(CancelBackstop) /\ WF_vars(CredentialSettles)
    /\ WF_vars(HandleEvent) /\ WF_vars(HandleMessage) /\ WF_vars(HaltCycle)

LiveSpec == Spec /\ Fairness

-----------------------------------------------------------------------------
(* Properties.                                                              *)

ToolResult == [id : ToolId, round : Nat]
ConvRec == [phase : Phase, attempt : 1 .. MaxAttempts, cur : ToolId \cup {NoTool},
            rest : Seq(ToolId), done : Seq(ToolResult), round : Nat]

\* Types.  A request is made at most MaxAttempts times.
TypeOK ==
    /\ conv \in ConvRec
    /\ llmGen \in Nat /\ toolGen \in Nat /\ retryGen \in Nat
    /\ llmTask \subseteq [gen : 0 .. llmGen, turn : Nat, live : BOOLEAN]
    /\ toolTask \subseteq [gen : 1 .. toolGen, id : ToolId, round : Nat]
    /\ token \subseteq 0 .. toolGen
    /\ timers \subseteq [gen : 0 .. retryGen, attempt : 1 .. MaxAttempts]
    /\ timerHeld \in BOOLEAN /\ halting \in BOOLEAN /\ ask \in BOOLEAN /\ owed \in BOOLEAN
    /\ cycles \in Nat /\ steers \in Nat /\ turn \in Nat
    /\ queue \in Seq({"steer", "cancel"}) /\ Len(queue) <= QueueCap
    /\ spent \in [messages : Nat, cancels : Nat, rounds : Nat, faults : Nat]

\* The results collected for a response are those of runs started for that
\* response, also when a provider uses a tool_use id again and a run of an
\* earlier response ends late.
OwnResults == \A i \in DOMAIN conv.done : conv.done[i].round = conv.round

\* An LLM outcome changes the conversation only in the turn the request was made
\* for: not after a cancellation, not in the next turn.
OutcomeOfThisTurn ==
    [][\A t \in llmTask :
          (conv' # conv /\ \A u \in llmTask' : u.gen # t.gen) => t.turn = turn]_vars

\* Unless a write has failed, there are never two LLM requests in flight that were
\* not aborted: a retry timer of an earlier turn, say, starts no second one.  (A
\* cancellation that takes queued messages with it aborts the request only after the
\* state is written, so a failure of that write leaves the request running.)
SingleRequest == spent.faults = 0 => \A t, u \in llmTask : t.live /\ u.live => t = u

\* A conversation that waits has somebody to wait for: a request, a retry timer or
\* a cancellation on its way; in a tool round, a run of the current tool.
SomethingAwaited ==
    /\ conv.phase = "LlmRequesting" =>
          \/ halting
          \/ \E t \in llmTask : t.gen = llmGen
          \/ \E f \in timers : f.gen = retryGen /\ f.attempt = conv.attempt
          \/ \E i \in DOMAIN queue : queue[i] = "cancel"
    /\ conv.phase = "ToolExecuting" =>
          \E k \in toolTask : k.gen = toolGen /\ k.id = conv.cur /\ k.gen \notin token

\* Unless a write has failed, a waiting conversation has somebody to wait for
\* (apply_transition_result carries out every effect of a transition).
NeverStranded == spent.faults = 0 => SomethingAwaited

\* Unless the cap has halted the turn or a write has failed, a conversation does not
\* come to rest with a user message in its transcript that no LLM request has seen.
IdleOwesNothing ==
    conv.phase = "Idle" /\ cycles <= CycleCap /\ spent.faults = 0 => ~owed

\* The generations identify tasks: no two tasks of a kind have the same, a request of
\* the current one is of this turn, a tool run of the current one is for the response
\* being worked on, and a timer of the current one is the timer that is held.
GenerationsFit ==
    /\ \A t, u \in llmTask : t.gen = u.gen => t = u
    /\ \A t \in llmTask : t.gen = llmGen =>
          conv.phase \in {"LlmRequesting", "Idle"} /\ t.turn = turn
    /\ \A k \in toolTask :
          k.gen = toolGen /\ conv.phase \in {"ToolExecuting", "CancellingTool"} =>
              k.round = conv.round
    /\ \A f, h \in timers : f.gen = h.gen => f = h
    /\ \A f \in timers : f.gen = retryGen => timerHeld
    /\ timerHeld => conv.phase = "LlmRequesting"

\* While every write succeeds, the current request is the one that was not aborted,
\* it excludes a retry timer, the timer is for the current attempt, and only a turn
\* halted at the cap owes an answer.
OneThingAwaited ==
    /\ \A t \in llmTask : t.live <=> t.gen = llmGen
    /\ \A t \in llmTask : t.gen = llmGen => conv.phase = "LlmRequesting" /\ ~timerHeld
    /\ \A f \in timers : f.gen = retryGen => f.attempt = conv.attempt
    /\ owed => CycleCap > 0 /\ cycles > CycleCap

\* The inductive invariant.
LoopInv ==
    /\ TypeOK /\ GenerationsFit /\ OwnResults
    /\ spent.faults = 0 => OneThingAwaited /\ SomethingAwaited

\* What the code claims (halt_parent_cycle_cap): a message that comes after the cap
\* was reached resets it and is answered.
HaltOwesNothing == conv.phase = "Idle" => ~owed

\* Unless a write fails, every turn ends: retries run out, and the cap on LLM
\* requests ends a loop of tool calls.
TurnEnds ==
    conv.phase = "LlmRequesting" ~> (conv.phase \in {"Idle", "Error"} \/ spent.faults > 0)

\* A cancelled tool round ends, whether or not the tool stops.
CancelEnds == conv.phase = "CancellingTool" ~> conv.phase # "CancellingTool"

\* An executor that halts a turn at the cap gets the turn cancelled.
HaltEnds == halting ~> ~halting

=============================================================================
