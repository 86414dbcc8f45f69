----------------------------- MODULE SubAgents ------------------------------
(***************************************************************************)
(* Fan-out and fan-in of sub-agents: one parent executor, the manager task *)
(* that starts and cancels sub-agents, and the sub-agents' executors.      *)
(*                                                                         *)
(* The parent handles one input at a time, but handling one may produce    *)
(* further events, which it processes before it looks at its channels      *)
(* again: `spawning' (a spawn_agents call to run) and `drain' (buffered    *)
(* results, taken from the end).  Each of these is one step here, and no   *)
(* other parent step is possible while one is due.                         *)
(*                                                                         *)
(* Left out: bounded channel capacities; tool outcomes of superseded       *)
(* dispatches (TurnLoop is about those); everything a turn does besides    *)
(* running tools.  A turn that fails and one that answers both end Idle.   *)
(***************************************************************************)
EXTENDS Naturals, Sequences, FiniteSets, Functions

CONSTANTS
    Agent,        \* ids of sub-agents, fresh for every spawn
    Writer,       \* those of them that are spawned in Work mode
    Timed,        \* those of them whose own timeout may fire
    ToolLists     \* the tool calls an LLM response may make

ASSUME AgentAssumption == IsFiniteSet(Agent) /\ Writer \subseteq Agent /\ Timed \subseteq Agent
ASSUME ToolAssumption == ToolLists \subseteq Seq({"bash", "spawn"}) \ {<<>>}

VARIABLES
    phase,        \* the parent's state
    plan,         \* the current tool and the remaining ones
    pending,      \* agents the parent's round waits for
    collected,    \* completed_results of the round, by agent
    cause,        \* CancelCause of CancellingSubAgents
    buffer,       \* sub_agent_result_buffer
    drain,        \* buffered results still to process, by position in the buffer
    via,          \* the loop that processes them, if there are any
    spawning,     \* a spawn_agents call is to be run
    armed,        \* the liveness deadline is set
    activeWork,   \* active_work_subagents
    inbox,        \* the parent's event channel
    cancelQ,      \* cancel requests on their way to the manager
    agent,        \* the state of each agent
    mailbox,      \* the event channel of each agent
    timer,        \* agents whose own timeout has not fired
    own,          \* history: the outcome an agent reported itself
    reports,      \* history: the outcomes persisted for an agent
    late,         \* history: agents pending when the completion deadline fired
    presumed,     \* history: agents given up by the cancellation backstop
    taken         \* history: unreported agents with a result taken from the channel

round == <<plan, pending, collected, cause>>
chain == <<drain, via, spawning>>
agents == <<agent, mailbox, timer, own>>
history == <<reports, late, presumed, taken>>
vars == <<phase, plan, pending, collected, cause, buffer, drain, via, spawning, armed,
          activeWork, inbox, cancelQ, agent, mailbox, timer, own, reports, late,
          presumed, taken>>

Waiting == {"AwaitingSubAgents", "CancellingSubAgents"}
Outcome == {"success", "failure", "timedout"}
NoCollected == [a \in Agent |-> "none"]
Result(a, o) == [type |-> "result", agent |-> a, outcome |-> o]
CancelEvent == [type |-> "cancel"]
Results == [type : {"result"}, agent : Agent, outcome : Outcome]

\* Agents of the manager's table `runtimes', agents that have not ended, and
\* agents that run LLM requests or tools.
Registered == {"registered", "idle", "llm", "tool", "cancelling", "done"}
Live == {"requested", "registered", "idle", "llm", "tool", "cancelling"}
AtWork == {"llm", "tool", "cancelling"}

\* The parent's loop is at its select.
Free == drain = <<>> /\ ~spawning

Init ==
    /\ phase = "Idle" /\ plan = <<>> /\ pending = {} /\ collected = NoCollected
    /\ cause = "UserRequested"
    /\ buffer = <<>> /\ drain = <<>> /\ via = "none" /\ spawning = FALSE
    /\ armed = FALSE /\ activeWork = 0
    /\ inbox = <<>> /\ cancelQ = <<>>
    /\ agent = [a \in Agent |-> "fresh"] /\ mailbox = [a \in Agent |-> <<>>]
    /\ timer = {} /\ own = NoCollected
    /\ reports = [a \in Agent |-> <<>>]
    /\ late = {} /\ presumed = {} /\ taken = {}

-----------------------------------------------------------------------------
(* Rounds of the parent.                                                    *)

\* Enter a waiting state: of the results that came early, those of the round's
\* agents are processed at once, the others discarded.
EnterRound(p, S, v) ==
    /\ phase' = p /\ pending' = S
    /\ drain' = Restrict(buffer, {i \in DOMAIN buffer : buffer[i].agent \in S})
    /\ via' = IF drain' = <<>> THEN "none" ELSE v
    /\ buffer' = <<>>
    /\ armed' = TRUE

\* The current tool is done; S are the agents spawned so far in this round.
AfterTool(S) ==
    \/ /\ Len(plan) > 1
       /\ plan' = Tail(plan) /\ spawning' = (plan[2] = "spawn")
       /\ pending' = S
       /\ UNCHANGED <<phase, drain, via, buffer, armed>>
    \/ /\ Len(plan) = 1 /\ S = {}
       /\ phase' = "LlmRequesting" /\ plan' = <<>> /\ spawning' = FALSE
       /\ UNCHANGED <<pending, drain, via, buffer, armed>>
    \/ /\ Len(plan) = 1 /\ S # {}
       /\ plan' = <<>> /\ spawning' = FALSE
       /\ EnterRound("AwaitingSubAgents", S, "outcome")

\* The outcome recorded for an agent that reports o.
Teardown(o) ==
    IF phase = "CancellingSubAgents" /\ cause = "Timeout" THEN "timedout" ELSE o

\* Faulty variant: the turn goes on whoever cancelled.
Settle_AlwaysResumes(c) ==
    /\ phase' = "LlmRequesting"
    /\ reports' = [a \in Agent |-> IF c[a] = "none" THEN reports[a]
                                   ELSE Append(reports[a], c[a])]
    /\ pending' = {} /\ collected' = NoCollected /\ cause' = "UserRequested"
    /\ armed' = FALSE

\* The last agent of the round has reported: persist the results c, and go on
\* with the turn unless the user cancelled it.
Settle(c) ==
    /\ phase' = IF phase = "AwaitingSubAgents" \/ cause = "Timeout"
                THEN "LlmRequesting" ELSE "Idle"
    /\ reports' = [a \in Agent |-> IF c[a] = "none" THEN reports[a]
                                   ELSE Append(reports[a], c[a])]
    /\ pending' = {} /\ collected' = NoCollected /\ cause' = "UserRequested"
    /\ armed' = FALSE

\* A result of a pending agent, in a waiting state.
Collect(r) ==
    LET c == [collected EXCEPT ![r.agent] = Teardown(r.outcome)] IN
    \/ /\ pending = {r.agent}
       /\ Settle(c)
    \/ /\ pending # {r.agent}
       /\ collected' = c
       /\ pending' = pending \ {r.agent}
       /\ UNCHANGED <<phase, cause, reports, armed>>

Accepted(r) == phase \in Waiting /\ r.agent \in pending

\* The one-writer counter after a result of agent a, saturating at zero.
Released(a) == IF a \in Writer /\ activeWork > 0 THEN activeWork - 1 ELSE activeWork

-----------------------------------------------------------------------------
(* The parent's inputs.                                                     *)

UserSend ==
    /\ Free /\ phase = "Idle"
    /\ phase' = "LlmRequesting"
    /\ UNCHANGED <<round, chain, buffer, armed, activeWork, inbox, cancelQ, agents, history>>

LlmText ==
    /\ Free /\ phase = "LlmRequesting"
    /\ phase' = "Idle"
    /\ UNCHANGED <<round, chain, buffer, armed, activeWork, inbox, cancelQ, agents, history>>

LlmTools ==
    /\ Free /\ phase = "LlmRequesting"
    /\ phase' = "ToolExecuting"
    /\ plan' \in ToolLists
    /\ spawning' = (Head(plan') = "spawn")
    /\ UNCHANGED <<pending, collected, cause, drain, via, buffer, armed, activeWork, inbox,
                   cancelQ, agents, history>>

\* One spawn_agents call starts at most one Work agent, and none while one is active.
MaySpawn(S) ==
    /\ S # {} /\ S \subseteq {a \in Agent : agent[a] = "fresh"}
    /\ Cardinality(S \intersect Writer) <= 1
    /\ (S \intersect Writer # {} => activeWork = 0)

\* The call is refused (its arguments are invalid, or they ask for a second Work
\* agent), or its agents are requested from the manager.
RunSpawn ==
    /\ spawning
    /\ \/ /\ AfterTool(pending)
          /\ UNCHANGED <<activeWork, agent>>
       \/ \E S \in SUBSET Agent :
             /\ MaySpawn(S)
             /\ activeWork' = activeWork + Cardinality(S \intersect Writer)
             /\ agent' = [a \in Agent |-> IF a \in S THEN "requested" ELSE agent[a]]
             /\ AfterTool(pending \union S)
    /\ UNCHANGED <<collected, cause, inbox, cancelQ, mailbox, timer, own, history>>

ToolComplete ==
    /\ Free /\ phase = "ToolExecuting"
    /\ AfterTool(pending)
    /\ UNCHANGED <<collected, cause, activeWork, inbox, cancelQ, agents, history>>

\* An aborted tool, or one that finished first, settles the cancelled round;
\* v is the loop that handles its outcome.
ToolSettles(v) ==
    /\ plan' = <<>>
    /\ \/ /\ pending = {}
          /\ phase' = "Idle" /\ armed' = FALSE
          /\ UNCHANGED <<pending, cause, drain, via, buffer>>
       \/ /\ pending # {}
          /\ cause' = "UserRequested"
          /\ EnterRound("CancellingSubAgents", pending, v)
    /\ UNCHANGED <<collected, spawning, activeWork, inbox, cancelQ, agents, history>>

ToolAborted == Free /\ phase = "CancellingTool" /\ ToolSettles("outcome")

UserCancels ==
    /\ CancelEvent \notin Range(inbox)
    /\ inbox' = Append(inbox, CancelEvent)
    /\ UNCHANGED <<phase, round, chain, buffer, armed, activeWork, cancelQ, agents, history>>

\* Faulty variant: cancelling while a tool runs forgets the agents spawned before.
HandleCancel_ForgetSpawned ==
    /\ Free /\ inbox # <<>> /\ Head(inbox) = CancelEvent
    /\ inbox' = Tail(inbox)
    /\ \/ /\ phase = "LlmRequesting" /\ phase' = "Idle"
          /\ UNCHANGED <<armed, cause, cancelQ, pending>>
       \/ /\ phase = "ToolExecuting" /\ phase' = "CancellingTool" /\ armed' = TRUE
          /\ pending' = {}
          /\ UNCHANGED <<cause, cancelQ>>
       \/ /\ phase = "AwaitingSubAgents" /\ phase' = "CancellingSubAgents" /\ armed' = TRUE
          /\ cause' = "UserRequested"
          /\ cancelQ' = Append(cancelQ, pending)
          /\ UNCHANGED pending
       \/ /\ phase \in {"Idle", "CancellingTool", "CancellingSubAgents"}
          /\ UNCHANGED <<phase, armed, cause, cancelQ, pending>>
    /\ UNCHANGED <<plan, collected, chain, buffer, activeWork, agents, history>>

\* UserCancel.  Idle absorbs it and the cancelling states reject it.
HandleCancel ==
    /\ Free /\ inbox # <<>> /\ Head(inbox) = CancelEvent
    /\ inbox' = Tail(inbox)
    /\ \/ /\ phase = "LlmRequesting" /\ phase' = "Idle"
          /\ UNCHANGED <<armed, cause, cancelQ>>
       \/ /\ phase = "ToolExecuting" /\ phase' = "CancellingTool" /\ armed' = TRUE
          /\ cancelQ' = IF pending = {} THEN cancelQ ELSE Append(cancelQ, pending)
          /\ UNCHANGED cause
       \/ /\ phase = "AwaitingSubAgents" /\ phase' = "CancellingSubAgents" /\ armed' = TRUE
          /\ cause' = "UserRequested"
          /\ cancelQ' = Append(cancelQ, pending)
       \/ /\ phase \in {"Idle", "CancellingTool", "CancellingSubAgents"}
          /\ UNCHANGED <<phase, armed, cause, cancelQ>>
    /\ UNCHANGED <<plan, pending, collected, chain, buffer, activeWork, agents, history>>

\* A result from the channel: buffered unless the parent waits for agents,
\* rejected if its agent is not waited for.
HandleResult ==
    /\ Free /\ inbox # <<>> /\ Head(inbox).type = "result"
    /\ LET r == Head(inbox) IN
       /\ inbox' = Tail(inbox)
       /\ taken' = IF reports[r.agent] = <<>> THEN taken \union {r.agent} ELSE taken
       /\ \/ /\ phase \notin Waiting
             /\ buffer' = Append(buffer, r)
             /\ UNCHANGED <<phase, pending, collected, cause, reports, armed, activeWork>>
          \/ /\ Accepted(r)
             /\ Collect(r)
             /\ activeWork' = Released(r.agent)
             /\ UNCHANGED buffer
          \/ /\ phase \in Waiting /\ ~Accepted(r)
             /\ UNCHANGED <<phase, pending, collected, cause, reports, armed, activeWork,
                            buffer>>
    /\ UNCHANGED <<plan, chain, cancelQ, agents, late, presumed>>

\* The next buffered result.  The two loops differ: process_event releases the
\* one-writer counter and gives up at a rejected event, process_outcome does
\* neither.
DrainNext ==
    /\ \E i \in DOMAIN drain :
       LET r == drain[i]
           rest == Restrict(drain, DOMAIN drain \ {i})
       IN /\ \A j \in DOMAIN drain : j <= i
          /\ \/ /\ Accepted(r)
                /\ Collect(r)
                /\ activeWork' = IF via = "event" THEN Released(r.agent) ELSE activeWork
                /\ drain' = rest
             \/ /\ ~Accepted(r)
                /\ drain' = IF via = "event" THEN <<>> ELSE rest
                /\ UNCHANGED <<phase, pending, collected, cause, reports, armed, activeWork>>
    /\ via' = IF drain' = <<>> THEN "none" ELSE via
    /\ UNCHANGED <<plan, spawning, buffer, inbox, cancelQ, agents, late,
                   presumed, taken>>

\* Faulty variant: the deadline of the completion wait is not armed anew for the
\* cancellation that it starts.
CompletionExpires_NotRearmed ==
    /\ Free /\ armed /\ phase = "AwaitingSubAgents"
    /\ phase' = "CancellingSubAgents" /\ cause' = "Timeout"
    /\ armed' = FALSE
    /\ cancelQ' = Append(cancelQ, pending)
    /\ late' = late \union pending
    /\ UNCHANGED <<plan, pending, collected, chain, buffer, activeWork, inbox, agents,
                   reports, presumed, taken>>

\* The completion deadline: cancel the pending agents, with cause Timeout.
CompletionExpires ==
    /\ Free /\ armed /\ phase = "AwaitingSubAgents"
    /\ phase' = "CancellingSubAgents" /\ cause' = "Timeout"
    /\ armed' = TRUE
    /\ cancelQ' = Append(cancelQ, pending)
    /\ late' = late \union pending
    /\ UNCHANGED <<plan, pending, collected, chain, buffer, activeWork, inbox, agents,
                   reports, presumed, taken>>

\* The tool's cancellation backstop, handled by process_event.
ToolBackstop == Free /\ armed /\ phase = "CancellingTool" /\ ToolSettles("event")

\* The agents' cancellation backstop: those still pending are presumed dead.
AgentsBackstop ==
    /\ Free /\ armed /\ phase = "CancellingSubAgents"
    /\ Settle([a \in Agent |-> IF a \in pending THEN Teardown("failure") ELSE collected[a]])
    /\ activeWork' = LET n == Cardinality(pending \intersect Writer)
                     IN IF n < activeWork THEN activeWork - n ELSE 0
    /\ presumed' = presumed \union pending
    /\ UNCHANGED <<plan, chain, buffer, inbox, cancelQ, agents, late, taken>>

-----------------------------------------------------------------------------
(* The manager: one task that serves spawn and cancel requests, whichever   *)
(* channel it happens to look at.                                           *)

\* The agent's conversation and runtime are set up, or the parent is told why not.
ManagerSpawn(a) ==
    /\ agent[a] = "requested"
    /\ \/ /\ agent' = [agent EXCEPT ![a] = "registered"]
          /\ timer' = timer \union ({a} \intersect Timed)
          /\ UNCHANGED inbox
       \/ /\ agent' = [agent EXCEPT ![a] = "gone"]
          /\ inbox' = Append(inbox, Result(a, "failure"))
          /\ UNCHANGED timer
    /\ UNCHANGED <<phase, round, chain, buffer, armed, activeWork, cancelQ, mailbox, own,
                   history>>

\* Faulty variant: an agent without a runtime is taken to have succeeded.
ManagerCancel_NotFoundSucceeds ==
    /\ cancelQ # <<>>
    /\ LET S == Head(cancelQ)
           R == {a \in S : agent[a] \in Registered}
       IN /\ mailbox' = [a \in Agent |-> IF a \in R THEN Append(mailbox[a], "cancel")
                                         ELSE mailbox[a]]
          /\ \E q \in Bijection(1 .. Cardinality(S \ R), S \ R) :
                inbox' = inbox \o [i \in DOMAIN q |-> Result(q[i], "success")]
    /\ cancelQ' = Tail(cancelQ)
    /\ UNCHANGED <<phase, round, chain, buffer, armed, activeWork, agent, timer, own, history>>

\* Cancel every agent that has a runtime; report the others as failed (cancelled).
ManagerCancel ==
    /\ cancelQ # <<>>
    /\ LET S == Head(cancelQ)
           R == {a \in S : agent[a] \in Registered}
       IN /\ mailbox' = [a \in Agent |-> IF a \in R THEN Append(mailbox[a], "cancel")
                                         ELSE mailbox[a]]
          /\ \E q \in Bijection(1 .. Cardinality(S \ R), S \ R) :
                inbox' = inbox \o [i \in DOMAIN q |-> Result(q[i], "failure")]
    /\ cancelQ' = Tail(cancelQ)
    /\ UNCHANGED <<phase, round, chain, buffer, armed, activeWork, agent, timer, own, history>>

-----------------------------------------------------------------------------
(* A sub-agent.                                                             *)

parent == <<phase, plan, pending, collected, cause, buffer, drain, via, spawning, armed,
            activeWork, cancelQ, reports, late, presumed, taken>>

\* The runtime task sends the agent its task, then starts to read.
AgentStarts(a) ==
    /\ agent[a] = "registered"
    /\ agent' = [agent EXCEPT ![a] = "idle"]
    /\ mailbox' = [mailbox EXCEPT ![a] = Append(@, "task")]
    /\ UNCHANGED <<parent, inbox, timer, own>>

\* The agent reaches a terminal state and notifies its parent.
AgentEnds(a, o) ==
    /\ agent' = [agent EXCEPT ![a] = "done"]
    /\ own' = [own EXCEPT ![a] = o]
    /\ inbox' = Append(inbox, Result(a, o))

AgentEvent(a) ==
    /\ agent[a] \in {"idle", "llm", "tool", "cancelling"} /\ mailbox[a] # <<>>
    /\ mailbox' = [mailbox EXCEPT ![a] = Tail(@)]
    /\ \/ /\ Head(mailbox[a]) = "task" /\ agent[a] = "idle"
          /\ agent' = [agent EXCEPT ![a] = "llm"]
          /\ UNCHANGED <<inbox, own>>
       \/ /\ Head(mailbox[a]) = "cancel" /\ agent[a] \in {"idle", "cancelling"}
          /\ UNCHANGED <<agent, inbox, own>>
       \/ /\ Head(mailbox[a]) = "cancel" /\ agent[a] = "tool"
          /\ agent' = [agent EXCEPT ![a] = "cancelling"]
          /\ UNCHANGED <<inbox, own>>
       \/ /\ Head(mailbox[a]) = "cancel" /\ agent[a] = "llm"
          /\ AgentEnds(a, "failure")
    /\ UNCHANGED <<parent, timer>>

\* An LLM response or the outcome of a tool.
AgentWorks(a) ==
    /\ \/ /\ agent[a] = "llm"
          /\ \/ agent' = [agent EXCEPT ![a] = "tool"] /\ UNCHANGED <<inbox, own>>
             \/ \E o \in {"success", "failure"} : AgentEnds(a, o)
       \/ agent[a] = "tool" /\ agent' = [agent EXCEPT ![a] = "llm"] /\ UNCHANGED <<inbox, own>>
       \/ agent[a] = "cancelling" /\ AgentEnds(a, "failure")
    /\ UNCHANGED <<parent, mailbox, timer>>

\* The agent's own timeout sends it a cancel.
AgentTimeout(a) ==
    /\ a \in timer
    /\ timer' = timer \ {a}
    /\ mailbox' = [mailbox EXCEPT ![a] = Append(@, "cancel")]
    /\ UNCHANGED <<parent, inbox, agent, own>>

\* The runtime task leaves the manager's table.
AgentGone(a) ==
    /\ agent[a] = "done"
    /\ agent' = [agent EXCEPT ![a] = "gone"]
    /\ timer' = timer \ {a}
    /\ mailbox' = [mailbox EXCEPT ![a] = <<>>]
    /\ UNCHANGED <<parent, inbox, own>>

-----------------------------------------------------------------------------

ParentLoop ==
    \/ LlmText \/ LlmTools \/ RunSpawn \/ ToolComplete \/ ToolAborted
    \/ HandleCancel \/ HandleResult \/ DrainNext
    \/ CompletionExpires \/ ToolBackstop \/ AgentsBackstop

AgentStep(a) ==
    AgentStarts(a) \/ AgentEvent(a) \/ AgentWorks(a) \/ AgentTimeout(a) \/ AgentGone(a)

Next ==
    \/ UserSend \/ UserCancels \/ ParentLoop
    \/ ManagerCancel
    \/ \E a \in Agent : ManagerSpawn(a) \/ AgentStep(a)

\* The runtime schedules the parent's loop and chained events are processed.
\* Each expired deadline is served and each tool ends or is backstopped.  No
\* fairness of users, of the manager or of agents: the parent must not depend
\* on them.
Fairness ==
    /\ WF_vars(RunSpawn) /\ WF_vars(DrainNext)
    /\ WF_vars(HandleCancel \/ HandleResult)
    /\ WF_vars(LlmText \/ LlmTools) /\ WF_vars(ToolComplete)
    /\ WF_vars(CompletionExpires) /\ WF_vars(ToolBackstop) /\ WF_vars(AgentsBackstop)

Spec == Init /\ [][Next]_vars /\ Fairness

-----------------------------------------------------------------------------
(* Properties.                                                              *)

\* Positions of the buffer with results of R at them.
IsDrain(d, R) ==
    /\ d \in [DOMAIN d -> R]
    /\ DOMAIN d \subseteq Nat \ {0}

\* Every variable has its type, agents are spawned only in tool rounds and
\* collected only in waiting states, and a chain of events is handled by one of
\* the two loops.
TypeOK ==
    /\ phase \in {"Idle", "LlmRequesting", "ToolExecuting", "CancellingTool"} \union Waiting
    /\ plan \in Seq({"bash", "spawn"})
    /\ pending \subseteq Agent
    /\ collected \in [Agent -> Outcome \union {"none"}]
    /\ phase \notin Waiting => collected = NoCollected
    /\ cause \in {"UserRequested", "Timeout"}
    /\ buffer \in Seq(Results) /\ IsDrain(drain, Results)
    /\ via \in {"none", "event", "outcome"} /\ spawning \in BOOLEAN /\ armed \in BOOLEAN
    /\ drain = <<>> <=> via = "none"
    /\ spawning => phase = "ToolExecuting"
    /\ activeWork \in Nat
    /\ inbox \in Seq(Results \union {CancelEvent})
    /\ cancelQ \in Seq(SUBSET Agent)
    /\ agent \in [Agent -> Live \union {"fresh", "done", "gone"}]
    /\ mailbox \in [Agent -> Seq({"task", "cancel"})]
    /\ timer \subseteq Agent
    /\ own \in [Agent -> Outcome \union {"none"}]
    /\ reports \in [Agent -> Seq(Outcome)]
    /\ late \subseteq Agent /\ presumed \subseteq Agent /\ taken \subseteq Agent

\* Every spawned agent is accounted for exactly once: it is awaited, or it is
\* collected in the current round, or exactly one outcome of it was persisted,
\* whatever mix of real, synthetic, early, late and duplicate results arrives.
ReportedExactlyOnce ==
    \A a \in Agent :
        Len(reports[a]) = IF agent[a] = "fresh" \/ a \in pending \/ collected[a] # "none"
                          THEN 0 ELSE 1

\* A success in the transcript is one the agent itself reported.
SuccessIsReal ==
    \A a \in Agent : "success" \in Range(reports[a]) => own[a] = "success"

\* The completion deadline is hard: an agent that was pending when it fired is
\* recorded as timed out even if it still succeeds.
DeadlineIsHard ==
    \A a \in late : Range(reports[a]) \subseteq {"timedout"}

\* A round waits for at most one Work agent, and the counter knows of it.
OneWriterPerRound ==
    /\ Cardinality(pending \intersect Writer) <= 1
    /\ pending \intersect Writer # {} => activeWork > 0

\* Results that claim no success the agent itself has not reported.
Honest == {r \in Results : r.outcome = "success" => own[r.agent] = "success"}

\* The life of an agent: it reports when it has ended, is not part of a round before
\* it is spawned, and is awaited or collected, not both.
AgentLife ==
    /\ \A a \in Agent : own[a] # "none" => agent[a] \in {"done", "gone"}
    /\ \A a \in pending : agent[a] # "fresh" /\ collected[a] = "none"
    /\ \A a \in Agent : collected[a] # "none" => agent[a] # "fresh"

\* Every result under way is honest: those the manager makes up are failures.
HonestResults ==
    /\ inbox \in Seq(Honest \union {CancelEvent})
    /\ buffer \in Seq(Honest) /\ IsDrain(drain, Honest)
    /\ \A a \in Agent : collected[a] = "success" => own[a] = "success"

\* An agent that missed the completion deadline is pending only in the cancellation
\* that the deadline started, and has no outcome but the timeout.
LateAgents ==
    \A a \in late :
        /\ agent[a] # "fresh"
        /\ a \in pending => phase = "CancellingSubAgents" /\ cause = "Timeout"
        /\ collected[a] \in {"none", "timedout"}

\* The inductive invariant.
RoundInv ==
    /\ TypeOK /\ AgentLife /\ HonestResults /\ LateAgents
    /\ ReportedExactlyOnce /\ SuccessIsReal /\ DeadlineIsHard /\ OneWriterPerRound

\* Whatever the manager and the agents do or fail to do, the parent leaves every
\* waiting and cancelling state: the deadlines bound the wait.
WaitEnds == (phase \in Waiting \union {"CancellingTool"}) ~>
            (phase \notin Waiting \union {"CancellingTool"})

\* What the user cancels comes to rest: a cancellation ends in Idle and does not
\* go on with the turn.
CancelSettles ==
    (phase = "CancellingTool" \/ (phase = "CancellingSubAgents" /\ cause = "UserRequested"))
        ~> (phase = "Idle")

\* What the code claims (REQ-PROJ-008): the counter is back at zero when the
\* conversation is idle and no result of a Work agent is outstanding.
OneWriterReleased == phase = "Idle" /\ Free => activeWork = 0

\* What the code claims (REQ-SA-005): a parent that has come to rest has no agent
\* at work, save those the backstop gave up.
SettledMeansStopped ==
    phase = "Idle" => \A a \in Agent \ presumed : agent[a] \notin AtWork

\* What the code claims (handle_cancelling_sub_agents_timeout): a result that
\* arrived is used, and only agents that have not reported are presumed dead.
PresumedHaveNotReported == [][AgentsBackstop => pending \intersect taken = {}]_vars

=============================================================================
