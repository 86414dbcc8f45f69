--------------------------- MODULE McpSupervisor ----------------------------
(***************************************************************************)
(* One configured MCP server name: the supervisor actors that own its      *)
(* connection, and everyone who talks to them: tool calls, the tasks that  *)
(* connect and recover it, configuration reloads, and the operator's OAuth *)
(* callbacks.                                                              *)
(*                                                                         *)
(* An actor handles one mailbox command at a time and every sender waits   *)
(* for the reply, so a command is one step.  What a client reads outside   *)
(* the mailbox (the snapshot, the pending flow, the table of servers) and  *)
(* the command that follows are separate steps.                            *)
(*                                                                         *)
(* Left out: the stored tokens (whether storing or deleting one succeeds   *)
(* is a choice), the tool lists, loopback listeners, disabled servers, and *)
(* the capacity of the mailbox, which nothing waits for in a cycle.        *)
(***************************************************************************)
EXTENDS Integers, Sequences, FiniteSets, SequencesExt, FiniteSetsExt

CONSTANTS
    Caller,       \* tool calls
    Config,       \* configurations of the server
    Stdio,        \* those of them with the stdio transport
    MaxReload,    \* bound on configuration reloads
    MaxFlow,      \* bound on authorization flows
    MaxActor,     \* bound on actors created
    MaxTimeout,   \* bound on calls that miss their deadline
    MaxLoad       \* bound on reloads, flows, a denial under way and tool calls
                  \* together: n calls at once count as 1 + .. + n

ASSUME ConfigAssumption == Stdio \subseteq Config
ASSUME BoundAssumption == {MaxReload, MaxFlow, MaxActor, MaxTimeout, MaxLoad} \subseteq Nat

None == "none"
Actor == 1..MaxActor

VARIABLES
    actor,        \* the supervisors by number; history: unbound, the epoch's flow
                  \* was gone before its task could own it; dropped, epochs whose
                  \* session was dropped with the mailbox
    made,         \* number of actors created
    servers,      \* the actor in the table of servers; 0 if there is none
    task,         \* connecting and recovering tasks
    flow,         \* the pending authorization flow of the name, if any
    flows,        \* number of flows begun
    url,          \* pending_oauth_urls has the name
    rl,           \* the reload that holds reload_serial
    reloads,      \* reloads started
    desired,      \* history: the configuration the last reload read and applied
    cb,           \* the callback that completes a flow
    deny,         \* the callback that denies one
    caller,       \* the tool calls' tasks
    timeouts,     \* calls that missed their deadline
    live,         \* connected servers not shut down, by actor and epoch
    connects      \* history: connecting tasks started for an actor and epoch

net == <<flow, flows, url>>
operator == <<cb, deny>>
vars == <<actor, made, servers, task, flow, flows, url, rl, reloads, desired, cb, deny,
          caller, timeouts, live, connects>>

NoActor == [state |-> "Removed", epoch |-> 0, from |-> 0, config |-> None,
            served |-> None, url |-> FALSE, queue |-> <<>>, running |-> {},
            stdio |-> FALSE, fenced |-> {}, unbound |-> FALSE, dropped |-> {}]
NoFlow == [id |-> 0, owner |-> <<0, 0>>, config |-> None, shown |-> FALSE]
Idle == [pc |-> "idle", want |-> None, a |-> 0, e |-> 0, flow |-> NoFlow]
Quiet == [pc |-> "idle", id |-> 0, flow |-> NoFlow, owner |-> <<0, 0>>]
Pending == {"Connecting", "Recovering"}
Calls == Cardinality({k \in Caller : caller[k].pc # "idle"})
Denials == IF deny.pc = "idle" THEN 0 ELSE 1
Load == reloads + flows + Denials + (Calls * (Calls + 1)) \div 2

Init ==
    /\ actor = [a \in Actor |-> NoActor] /\ made = 0 /\ servers = 0
    /\ task = {} /\ flow = NoFlow /\ flows = 0 /\ url = FALSE
    /\ rl = Idle /\ reloads = 0 /\ desired = None
    /\ cb = Quiet /\ deny = Quiet
    /\ caller = [k \in Caller |-> [pc |-> "idle", round |-> 1, a |-> 0, obs |-> <<0, 0>>,
                                   why |-> None, then |-> "start", n |-> 0]]
    /\ timeouts = 0 /\ live = {}
    /\ connects = [a \in Actor |-> << >>]

-----------------------------------------------------------------------------
(* The actor.  Each operator is the effect of one command on its record.    *)

Cancelled(r) ==
    [r EXCEPT !.queue = [i \in DOMAIN r.queue |-> [r.queue[i] EXCEPT !.cancel = TRUE]],
              !.running = {[x EXCEPT !.cancel = TRUE] : x \in r.running}]

\* stop_server: the connected server, if there is one, is shut down.
Stopped(a) == IF actor[a].state = "Ready" THEN live \ {<<a, actor[a].epoch>>} ELSE live

Reconfigured(a, c) ==
    [Cancelled(actor[a]) EXCEPT !.epoch = @ + 1, !.served = None, !.from = 0,
                                !.config = c, !.state = "Connecting", !.url = FALSE,
                                !.unbound = FALSE]

Failed(a) ==
    [actor[a] EXCEPT !.from = 0, !.served = None, !.state = "Failed", !.url = FALSE,
                     !.unbound = FALSE]

Unauthorized(a) ==
    [actor[a] EXCEPT !.from = 0, !.served = None, !.state = "Recovering", !.url = TRUE,
                     !.unbound = FALSE]

Removed(a) ==
    [Cancelled(actor[a]) EXCEPT !.epoch = @ + 1, !.served = None, !.from = 0,
                                !.state = "Removed", !.url = FALSE, !.unbound = FALSE,
                                !.queue = <<>>]

Claimed(a) ==
    [actor[a] EXCEPT !.from = actor[a].epoch, !.epoch = @ + 1, !.served = None,
                     !.state = "Recovering", !.url = FALSE, !.unbound = FALSE]

\* Faulty variant: a completion is published whatever the actor's epoch.
MayPublish_AnyEpoch(t) == actor[t.a].state \in {"Connecting", "Recovering", "Failed"}

\* Publish is accepted at the current epoch, by an actor without a server.
MayPublish(t) ==
    /\ actor[t.a].epoch = t.e
    /\ actor[t.a].state \in {"Connecting", "Recovering", "Failed"}

Current(t) == actor[t.a].state # "Removed" /\ actor[t.a].epoch = t.e

-----------------------------------------------------------------------------
(* The queue of calls to a stdio server: one runs at a time.                *)

FirstLive(q) == Min({i \in 1..Len(q) : ~q[i].cancel} \union {Len(q) + 1})

\* start_next_stdio_call: calls cancelled in the queue are answered and skipped.
StartNext(r) ==
    LET i == FirstLive(r.queue)
    IN  IF r.stdio THEN r
        ELSE [r EXCEPT !.queue = SubSeq(@, i + 1, Len(@)),
                       !.running = @ \union {r.queue[j] : j \in {i} \intersect DOMAIN r.queue},
                       !.stdio = i <= Len(r.queue)]

Skipped(r) == IF r.stdio THEN {} ELSE {r.queue[j] : j \in 1..(FirstLive(r.queue) - 1)}

\* The tool call c goes on at p; what it knew is forgotten when it is done.
Go(c, p) == IF p = "done" THEN [c EXCEPT !.pc = p, !.a = 0, !.obs = <<0, 0>>, !.why = None,
                                         !.then = "start"]
                          ELSE [c EXCEPT !.pc = p]

\* What a tool call does with the result of a call.
Answer(c, res) ==
    IF res \in {"transport", "cancelledTransport"} /\ (c.round = 2 \/ res # "transport")
    THEN [c EXCEPT !.pc = "bgclaim"]
    ELSE IF res \in {"transport", "refresh", "stepup"} /\ c.round = 1
    THEN [c EXCEPT !.pc = "claim", !.why = res]
    ELSE Go(c, "done")

\* The calls in X, on actor a, are answered with res; who has given up is not
\* listening.
Answered(cs, X, res) ==
    [k \in Caller |->
        IF \E x \in X : x.k = k /\ cs[k].pc = "calling" /\ cs[k].n = x.n
        THEN LET x == CHOOSE x \in X : x.k = k /\ x.n = cs[k].n
             IN  Answer([cs[k] EXCEPT !.obs = x.conn], res)
        ELSE cs[k]]

-----------------------------------------------------------------------------
(* Tool calls.                                                              *)

To(k, p) == caller' = [caller EXCEPT ![k] = Go(@, p)]
CallerOnly == UNCHANGED <<actor, made, servers, task, net, rl, reloads, desired, operator,
                          timeouts, live, connects>>

\* call_tool_cancellable finds the server in the table.
BeginCall(k) ==
    /\ caller[k].pc = "idle" /\ servers # 0 /\ Load + Calls < MaxLoad
    /\ caller' = [caller EXCEPT ![k].pc = "start", ![k].a = servers]
    /\ CallerOnly

\* call_actor_when_ready reads the snapshot.
ReadSnapshot(k) ==
    /\ caller[k].pc = "start"
    /\ LET s == actor[caller[k].a].state
       IN  \/ s = "Ready" /\ To(k, "send")
           \/ s \in Pending /\ caller' = [caller EXCEPT ![k].pc = "wait", ![k].then = "start"]
           \/ s \in {"Failed", "Removed"} /\ To(k, "done")
    /\ CallerOnly

\* Command::Call.
Call(k) ==
    LET a == caller[k].a
        r == actor[a]
        x == [k |-> k, n |-> caller[k].n + 1, conn |-> <<a, r.epoch>>,
              stdio |-> r.served \in Stdio, cancel |-> FALSE]
        q == [r EXCEPT !.queue = Append(@, x)]
        cs == [caller EXCEPT ![k].pc = "calling", ![k].n = @ + 1]
    IN  /\ caller[k].pc = "send"
        /\ \/ /\ r.state = "Ready" /\ ~x.stdio
              /\ actor' = [actor EXCEPT ![a].running = @ \union {x}]
              /\ caller' = cs
           \/ /\ r.state = "Ready" /\ x.stdio
              /\ actor' = [actor EXCEPT ![a] = StartNext(q)]
              /\ caller' = Answered(cs, Skipped(q), "cancelled")
           \/ /\ r.state \in Pending
              /\ caller' = [caller EXCEPT ![k].pc = "wait", ![k].then = "start"]
              /\ UNCHANGED actor
           \/ r.state \in {"Failed", "Removed"} /\ To(k, "done") /\ UNCHANGED actor
        /\ UNCHANGED <<made, servers, task, net, rl, reloads, desired, operator, timeouts,
                       live, connects>>

\* The results a call may have; a cancelled one may have had its result before.
\* A stdio transport whose exchange was abandoned is fenced.
Results(x) ==
    (IF x.conn[2] \in actor[x.conn[1]].fenced THEN {"transport"} ELSE {"ok", "error", "transport"})
        \union (IF x.stdio THEN {} ELSE {"refresh", "stepup"})
        \union (IF ~x.cancel THEN {}
                ELSE IF x.stdio THEN {"cancelledTransport"} ELSE {"cancelled"})

\* Command::CallCompleted.
CallCompleted(a, x, res) ==
    LET cut == IF res = "cancelledTransport" THEN {x.conn[2]} ELSE {}
        r == [actor[a] EXCEPT !.running = @ \ {x}, !.fenced = @ \union cut]
        f == [r EXCEPT !.stdio = FALSE]
        cs == Answered(caller, {x}, res)
    IN  /\ actor[a].state # "Removed" /\ x \in actor[a].running /\ res \in Results(x)
        /\ IF x.stdio
           THEN /\ actor' = [actor EXCEPT ![a] = StartNext(f)]
                /\ caller' = Answered(cs, Skipped(f), "cancelled")
           ELSE actor' = [actor EXCEPT ![a] = r] /\ caller' = cs
        /\ UNCHANGED <<made, servers, task, net, rl, reloads, desired, operator, timeouts,
                       live, connects>>

\* Command::CancelQueued.
CancelQueued(a, i) ==
    /\ actor[a].state # "Removed" /\ i \in DOMAIN actor[a].queue /\ actor[a].queue[i].cancel
    /\ actor' = [actor EXCEPT ![a].queue = RemoveAt(@, i)]
    /\ caller' = Answered(caller, {actor[a].queue[i]}, "cancelled")
    /\ UNCHANGED <<made, servers, task, net, rl, reloads, desired, operator, timeouts, live,
                   connects>>

CancelToken(r, k) ==
    [r EXCEPT !.queue = [i \in DOMAIN r.queue |->
                            [r.queue[i] EXCEPT !.cancel = @ \/ r.queue[i].k = k]],
              !.running = {[x EXCEPT !.cancel = @ \/ x.k = k] : x \in r.running}]

\* The call misses its deadline and its token is cancelled.  If the server is
\* being reconnected at that moment the tool call waits and calls again.
Deadline(k) ==
    LET a == caller[k].a
    IN  /\ caller[k].pc = "calling" /\ timeouts < MaxTimeout
        /\ timeouts' = timeouts + 1
        /\ actor' = [actor EXCEPT ![a] = CancelToken(@, k)]
        /\ caller' = [caller EXCEPT ![k] = [Go(@, IF actor[a].state \in Pending THEN "wait" ELSE "done")
                                            EXCEPT !.then = "start"]]
        /\ UNCHANGED <<made, servers, task, net, rl, reloads, desired, operator, live,
                       connects>>

\* The actor has stopped, and with it the reply.
CallStopped(k) ==
    /\ caller[k].pc = "calling" /\ actor[caller[k].a].state = "Removed"
    /\ To(k, "done") /\ CallerOnly

\* wait_for_ready, and following a recovery: both watch the snapshot.
Watch(k) ==
    /\ caller[k].pc = "wait"
    /\ LET s == actor[caller[k].a].state
       IN  \/ s = "Ready" /\ To(k, caller[k].then)
           \/ s \in {"Failed", "Removed"} /\ To(k, "done")
    /\ CallerOnly

\* After the recovery the server is looked up again and called once more.
Retry(k) ==
    /\ caller[k].pc = "retry"
    /\ caller' = [caller EXCEPT ![k] = [Go(@, IF servers = 0 THEN "done" ELSE "start")
                                        EXCEPT !.a = servers, !.round = 2, !.why = None,
                                               !.then = "start"]]
    /\ CallerOnly

\* The user cancels the tool call: a call under way is waited for, a wait or a
\* recovery is left to go on without it.
UserCancel(k) ==
    /\ \/ /\ caller[k].pc = "calling"
          /\ actor' = [actor EXCEPT ![caller[k].a] = CancelToken(@, k)]
          /\ UNCHANGED caller
       \/ caller[k].pc \in {"wait", "leading"} /\ To(k, "done") /\ UNCHANGED actor
    /\ UNCHANGED <<made, servers, task, net, rl, reloads, desired, operator, timeouts, live,
                   connects>>

-----------------------------------------------------------------------------
(* Claiming a recovery.                                                     *)

Task(kind, a, e, c, pc, k) ==
    [kind |-> kind, a |-> a, e |-> e, c |-> c, pc |-> pc, k |-> k, f |-> 0]

\* Start the task t, which connects for its actor and epoch.
Spawn(T, t) ==
    /\ task' = T \union {t}
    /\ connects' = [connects EXCEPT ![t.a] = Append(@, t.e)]

\* Faulty variant: a claim is stale unless the epoch has already advanced.
ClaimAnswer_OffByOne(a, e) ==
    IF actor[a].state = "Removed" THEN "unavailable"
    ELSE IF actor[a].state = "Recovering" /\ actor[a].from = e THEN "follow"
    ELSE IF actor[a].epoch # e + 1 THEN "stale"
    ELSE IF actor[a].state = "Ready" THEN "leader" ELSE "unavailable"

\* Command::Claim: what claiming the recovery of epoch e of actor a answers.
ClaimAnswer(a, e) ==
    IF actor[a].state = "Removed" THEN "unavailable"
    ELSE IF actor[a].state = "Recovering" /\ actor[a].from = e THEN "follow"
    ELSE IF actor[a].epoch # e THEN "stale"
    ELSE IF actor[a].state = "Ready" THEN "leader" ELSE "unavailable"

\* The claim made the caller the leader: the epoch advances, the server is shut
\* down and a task, which answers to `lead', reconnects it.
Claim(k, kind, lead) ==
    LET a == caller[k].a
    IN  /\ actor' = [actor EXCEPT ![a] = Claimed(a)]
        /\ live' = Stopped(a)
        /\ Spawn(task, Task(kind, a, actor[a].epoch + 1, actor[a].config,
                            IF kind = "recover" THEN "connecting" ELSE kind, lead))

\* recover_actor and recover_oauth, up to the claim.  Only the first looks
\* whether the name belongs to another actor by now.
Recover(k) ==
    LET c == caller[k]
        ans == ClaimAnswer(c.a, c.obs[2])
        moved == c.why = "transport" /\ servers \notin {0, c.a}
        kind == IF c.why = "transport" THEN "recover" ELSE c.why
    IN  /\ c.pc = "claim"
        /\ \/ (moved \/ ans = "stale") /\ To(k, "retry")
              /\ UNCHANGED <<actor, live, task, connects>>
           \/ ~moved /\ ans = "follow"
              /\ caller' = [caller EXCEPT ![k].pc = "wait", ![k].then = "retry"]
              /\ UNCHANGED <<actor, live, task, connects>>
           \/ ~moved /\ ans = "unavailable" /\ To(k, "done")
              /\ UNCHANGED <<actor, live, task, connects>>
           \/ ~moved /\ ans = "leader" /\ To(k, "leading") /\ Claim(k, kind, k)
        /\ UNCHANGED <<made, servers, net, rl, reloads, desired, operator, timeouts>>

\* The same in the background, for a call that has been answered.
RecoverInBackground(k) ==
    LET c == caller[k]
        moved == servers \notin {0, c.a}
    IN  /\ c.pc = "bgclaim" /\ To(k, "done")
        /\ IF ~moved /\ ClaimAnswer(c.a, c.obs[2]) = "leader"
           THEN Claim(k, "recover", None)
           ELSE UNCHANGED <<actor, live, task, connects>>
        /\ UNCHANGED <<made, servers, net, rl, reloads, desired, operator, timeouts>>

-----------------------------------------------------------------------------
(* Connecting tasks.                                                        *)

\* The task t goes on as u; or it ends and its caller goes on at p.
Step(t, u) == task' = (task \ {t}) \union {u} /\ UNCHANGED caller
At(t, p) == Step(t, [t EXCEPT !.pc = p])
End(t, p) ==
    /\ task' = task \ {t}
    /\ caller' = [k \in Caller |-> IF k = t.k /\ caller[k].pc = "leading"
                                   THEN [Go(caller[k], p) EXCEPT !.then = "retry"]
                                   ELSE caller[k]]
TaskOnly == UNCHANGED <<made, servers, rl, reloads, desired, operator, timeouts, connects>>

\* connect_one succeeds or fails.
Connect(t) ==
    /\ t.pc = "connecting"
    /\ \/ At(t, "publish") /\ live' = live \union {<<t.a, t.e>>}
       \/ At(t, "failed") /\ UNCHANGED live
    /\ UNCHANGED <<actor, net>> /\ TaskOnly

\* begin_oauth_flow: the new flow displaces a pending one; it has no owner.
\* Its URL is surfaced in a second step.
BeginFlow(t) ==
    /\ t.pc \in {"connecting", "refresh", "stepup"} /\ t.c \notin Stdio
    /\ flows < MaxFlow /\ Load < MaxLoad
    /\ flows' = flows + 1
    /\ flow' = [NoFlow EXCEPT !.id = flows + 1, !.config = t.c]
    /\ Step(t, [t EXCEPT !.pc = IF t.pc = "connecting" THEN "surface" ELSE "reprompt",
                         !.f = flows + 1])
    /\ UNCHANGED <<actor, url, live>> /\ TaskOnly

Surface(t) ==
    /\ t.pc \in {"surface", "reprompt"}
    /\ url' = TRUE
    /\ flow' = [flow EXCEPT !.shown = @ \/ flow.id = t.f]
    /\ Step(t, [t EXCEPT !.pc = IF t.pc = "surface" THEN "failed" ELSE "bind", !.f = 0])
    /\ UNCHANGED <<actor, flows, live>> /\ TaskOnly

\* The stderr drain of a stdio server takes a line with a link for a URL to
\* authorize.  (What it reads after the connecting task has ended is left out.)
StderrUrl ==
    /\ \/ \E t \in task : t.c \in Stdio
       \/ \E a \in Actor : actor[a].state = "Ready" /\ actor[a].served \in Stdio
    /\ ~url /\ url' = TRUE
    /\ UNCHANGED <<actor, task, flow, flows, caller, live>> /\ TaskOnly

\* The token refresh ends: refreshed, or failed for the time being.
Refresh(t) ==
    /\ t.pc = "refresh"
    /\ At(t, "connecting") \/ At(t, "transient")
    /\ UNCHANGED <<actor, net, live>> /\ TaskOnly

\* Faulty variant: the error is returned and the actor not told.
StepUpFails_Untold(t) ==
    /\ t.pc = "stepup" /\ End(t, "done")
    /\ UNCHANGED <<actor, net, live>> /\ TaskOnly

\* The step-up authorization cannot start.
StepUpFails(t) ==
    /\ t.pc = "stepup" /\ At(t, "fail")
    /\ UNCHANGED <<actor, net, live>> /\ TaskOnly

\* bind_pending_flow_owner.
Bind(t) ==
    /\ t.pc = "bind"
    /\ \/ /\ Current(t) /\ flow.id # 0
          /\ flow' = [flow EXCEPT !.owner = <<t.a, t.e>>]
          /\ At(t, "unauthorized") /\ UNCHANGED actor
       \/ /\ ~(Current(t) /\ flow.id # 0) /\ End(t, "done")
          /\ actor' = [actor EXCEPT ![t.a].unbound = @ \/ Current(t)]
          /\ UNCHANGED flow
    /\ UNCHANGED <<flows, url, live>> /\ TaskOnly

\* A connect has failed: only with no URL surfaced is it a failure.  A task of
\* begin_actor_connect_at_epoch makes itself the owner of the flow.
ConnectFailed(t) ==
    /\ t.pc = "failed"
    /\ At(t, CASE t.kind \in {"connect", "recover"} -> IF url THEN "unauthorized" ELSE "fail"
                [] t.kind \in {"refresh", "callback"} -> "fail"
                [] t.kind = "retry" -> "check")
    /\ flow' = IF t.kind = "connect" /\ url /\ flow.id # 0
               THEN [flow EXCEPT !.owner = <<t.a, t.e>>] ELSE flow
    /\ UNCHANGED <<actor, flows, url, live>> /\ TaskOnly

\* Faulty variant: a server that is not accepted is left running.
Publish_KeepRefused(t) ==
    /\ t.pc = "publish"
    /\ \/ /\ MayPublish(t)
          /\ actor' = [actor EXCEPT ![t.a].from = 0, ![t.a].state = "Ready",
                                    ![t.a].served = t.c, ![t.a].url = FALSE]
          /\ IF t.kind \in {"connect", "recover", "callback"}
             THEN At(t, "clear") ELSE End(t, "retry")
          /\ UNCHANGED live
       \/ /\ ~MayPublish(t) /\ End(t, IF t.kind = "refresh" THEN "done" ELSE "retry")
          /\ UNCHANGED <<actor, live>>
    /\ UNCHANGED net /\ TaskOnly

\* Command::Publish.  A server that is not accepted is shut down, unless the
\* command waited behind a Remove: then it is dropped with the mailbox, which
\* kills a stdio child but does not end an HTTP session.
Publish(t) ==
    /\ t.pc = "publish"
    /\ \/ /\ MayPublish(t)
          /\ actor' = [actor EXCEPT ![t.a].from = 0, ![t.a].state = "Ready",
                                    ![t.a].served = t.c, ![t.a].url = FALSE]
          /\ IF t.kind \in {"connect", "recover", "callback"}
             THEN At(t, "clear") ELSE End(t, "retry")
          /\ UNCHANGED live
       \/ /\ ~MayPublish(t) /\ End(t, IF t.kind = "refresh" THEN "done" ELSE "retry")
          /\ live' = live \ {<<t.a, t.e>>}
          /\ UNCHANGED actor
       \/ /\ actor[t.a].state = "Removed" /\ t.c \notin Stdio
          /\ End(t, IF t.kind = "refresh" THEN "done" ELSE "retry")
          /\ actor' = [actor EXCEPT ![t.a].dropped = @ \union {t.e}]
          /\ UNCHANGED live
    /\ UNCHANGED net /\ TaskOnly

ClearUrl(t) ==
    /\ t.pc = "clear" /\ url' = FALSE /\ End(t, "retry")
    /\ UNCHANGED <<actor, flow, flows, live>> /\ TaskOnly

\* Command::Fail and Command::Unauthorized, at the end of a task.
Fail(t) ==
    /\ t.pc = "fail" /\ End(t, IF t.kind = "recover" THEN "retry" ELSE "done")
    /\ IF Current(t) THEN actor' = [actor EXCEPT ![t.a] = Failed(t.a)] /\ live' = Stopped(t.a)
                     ELSE UNCHANGED <<actor, live>>
    /\ UNCHANGED net /\ TaskOnly

AwaitAuthorization(t) ==
    /\ t.pc = "unauthorized"
    /\ End(t, CASE t.kind = "recover" -> "retry" [] t.kind = "stepup" -> "wait" [] OTHER -> "done")
    /\ IF Current(t) THEN actor' = [actor EXCEPT ![t.a] = Unauthorized(t.a)] /\ live' = Stopped(t.a)
                     ELSE UNCHANGED <<actor, live>>
    /\ UNCHANGED net /\ TaskOnly

\* A refresh that failed for the time being reconfigures the actor, whatever
\* its epoch is by now, and keeps connecting in the background.
RefreshTransient(t) ==
    LET e == actor[t.a].epoch + 1
        ended == [k \in Caller |-> IF k = t.k /\ caller[k].pc = "leading"
                                   THEN Go(caller[k], "done") ELSE caller[k]]
    IN  /\ t.pc = "transient" /\ caller' = ended
        /\ IF actor[t.a].state = "Removed"
           THEN task' = task \ {t} /\ UNCHANGED <<actor, live, connects>>
           ELSE /\ actor' = [actor EXCEPT ![t.a] = Reconfigured(t.a, t.c)]
                /\ live' = Stopped(t.a)
                /\ Spawn(task \ {t}, Task("retry", t.a, e, t.c, "check", None))
        /\ UNCHANGED <<made, servers, net, rl, reloads, desired, operator, timeouts>>

\* The retrying task stops once its epoch is over.
RetryCheck(t) ==
    /\ t.pc = "check"
    /\ IF actor[t.a].epoch = t.e THEN At(t, "connecting") ELSE End(t, "done")
    /\ UNCHANGED <<actor, net, live>> /\ TaskOnly

-----------------------------------------------------------------------------
(* Reloads.                                                                 *)

NewActor(c) == [NoActor EXCEPT !.state = "Connecting", !.config = c]

\* Reconfigure actor a and start the task that connects it.
Begin(T, a, c, kind) ==
    /\ actor' = [actor EXCEPT ![a] = Reconfigured(a, c)]
    /\ live' = Stopped(a)
    /\ Spawn(T, Task(kind, a, actor[a].epoch + 1, c, "connecting", None))

ReloadOnly == UNCHANGED <<made, reloads, desired, operator, caller, timeouts>>
Rl(p) == rl' = [rl EXCEPT !.pc = p]

\* The name is no longer configured: it leaves the table, with its flow.
ReloadWithout ==
    /\ rl.pc = "idle" /\ reloads < MaxReload /\ Load < MaxLoad /\ servers # 0
    /\ reloads' = reloads + 1 /\ desired' = None
    /\ rl' = [Idle EXCEPT !.pc = "deltoken", !.a = servers, !.flow = flow]
    /\ servers' = 0 /\ flow' = NoFlow
    /\ UNCHANGED <<actor, made, task, flows, url, operator, caller, timeouts, live, connects>>

\* The stored token is deleted, or the removal is taken back.
ReloadDeleteToken ==
    /\ rl.pc = "deltoken"
    /\ \/ Rl("remove") /\ UNCHANGED <<servers, flow, desired>>
       \/ /\ servers' = rl.a /\ rl' = Idle /\ desired' = actor[rl.a].config
          /\ flow' = IF rl.flow.id # 0 THEN rl.flow ELSE flow
    /\ UNCHANGED <<actor, made, task, flows, url, reloads, operator, caller, timeouts, live,
                   connects>>

\* Command::Remove.
ReloadRemove ==
    /\ rl.pc = "remove" /\ Rl("forget")
    /\ actor' = [actor EXCEPT ![rl.a] = Removed(rl.a)] /\ live' = Stopped(rl.a)
    /\ UNCHANGED <<servers, task, net, connects>> /\ ReloadOnly

\* The name is configured as c.
ReloadWith(c) ==
    LET r == actor[servers]
    IN  /\ rl.pc = "idle" /\ reloads < MaxReload /\ Load < MaxLoad
        /\ reloads' = reloads + 1 /\ desired' = c
        /\ \/ /\ servers = 0 /\ made < MaxActor
              /\ rl' = [Idle EXCEPT !.pc = IF flow.id = 0 THEN "add" ELSE "forget", !.want = c]
              /\ flow' = NoFlow
           \/ /\ servers # 0 /\ r.config = c /\ r.state # "Failed"
              /\ UNCHANGED <<rl, flow>>
           \/ /\ servers # 0 /\ r.config = c /\ r.state = "Failed"
              /\ rl' = [Idle EXCEPT !.pc = "restart", !.want = c, !.a = servers]
              /\ UNCHANGED <<flow>>
           \/ /\ servers # 0 /\ r.config # c
              /\ rl' = [Idle EXCEPT !.pc = "forget", !.want = c, !.a = servers]
              /\ flow' = NoFlow
        /\ UNCHANGED <<actor, made, servers, task, flows, url, operator, caller, timeouts, live,
                       connects>>

\* The surfaced URL goes with the flow; then the reload goes on.
ReloadForget ==
    /\ rl.pc = "forget" /\ url' = FALSE
    /\ rl' = IF rl.want = None THEN Idle
             ELSE [rl EXCEPT !.pc = IF rl.a = 0 THEN "add" ELSE "restart"]
    /\ UNCHANGED <<actor, servers, task, flow, flows, live, connects>> /\ ReloadOnly

ReloadAdd ==
    /\ rl.pc = "add"
    /\ made' = made + 1 /\ servers' = made + 1
    /\ actor' = [actor EXCEPT ![made + 1] = NewActor(rl.want)]
    /\ rl' = [rl EXCEPT !.pc = "connect", !.a = made + 1]
    /\ UNCHANGED <<task, net, reloads, desired, operator, caller, timeouts, live, connects>>

\* begin_actor_connect.  Only a restart waits for the task.
ReloadConnect ==
    /\ rl.pc \in {"connect", "restart"}
    /\ IF actor[rl.a].state = "Removed"
       THEN rl' = Idle /\ UNCHANGED <<actor, live, task, connects>>
       ELSE /\ Begin(task, rl.a, rl.want, "connect")
            /\ rl' = IF rl.pc = "connect" THEN Idle
                     ELSE [rl EXCEPT !.pc = "await", !.e = actor[rl.a].epoch + 1]
    /\ UNCHANGED <<servers, net>> /\ ReloadOnly

ReloadAwaits == \E t \in task : t.kind = "connect" /\ t.a = rl.a /\ t.e = rl.e

ReloadDone ==
    /\ rl.pc = "await" /\ ~ReloadAwaits /\ rl' = Idle
    /\ UNCHANGED <<actor, servers, task, net, live, connects>> /\ ReloadOnly

\* The restart takes too long: the actor is failed at the epoch it has now.
ReloadTimeout ==
    /\ rl.pc = "await" /\ ReloadAwaits
    /\ rl' = [rl EXCEPT !.pc = "fail", !.e = actor[rl.a].epoch]
    /\ UNCHANGED <<actor, servers, task, net, live, connects>> /\ ReloadOnly

ReloadFail ==
    /\ rl.pc = "fail" /\ rl' = Idle
    /\ IF Current(rl) THEN actor' = [actor EXCEPT ![rl.a] = Failed(rl.a)] /\ live' = Stopped(rl.a)
                      ELSE UNCHANGED <<actor, live>>
    /\ UNCHANGED <<servers, task, net, connects>> /\ ReloadOnly

-----------------------------------------------------------------------------
(* The operator's callbacks.                                                *)

Cb(p) == cb' = [cb EXCEPT !.pc = p]
CbOnly == UNCHANGED <<rl, reloads, desired, deny, caller, timeouts, flows>>

\* complete_oauth_authorization: a callback that matches the pending flow; the
\* code is exchanged, and then the flow must still be the pending one.
CbExchange ==
    /\ \/ /\ cb.pc = "idle" /\ flow.shown
          /\ cb' = [Quiet EXCEPT !.pc = "exchange", !.id = flow.id] /\ UNCHANGED flow
       \/ cb.pc = "exchange" /\ cb' = Quiet /\ UNCHANGED flow
       \/ /\ cb.pc = "exchange" /\ flow.id = cb.id
          /\ cb' = [cb EXCEPT !.pc = "persist", !.flow = flow] /\ flow' = NoFlow
    /\ UNCHANGED <<actor, made, servers, task, url, live, connects>> /\ CbOnly

CbPersist ==
    /\ cb.pc = "persist"
    /\ \/ Cb("owner")
       \/ cb' = Quiet
    /\ UNCHANGED <<actor, made, servers, task, flow, url, live, connects>> /\ CbOnly

\* The owner's epoch is compared here, and the actor reconfigured later.
CbOwner ==
    LET o == cb.flow.owner
    IN  /\ cb.pc = "owner" /\ url' = FALSE
        /\ cb' = [cb EXCEPT !.owner = o,
                            !.pc = IF o[1] = 0 THEN "table"
                                   ELSE IF actor[o[1]].epoch = o[2] THEN "reconfigure" ELSE "spawn"]
        /\ UNCHANGED <<actor, made, servers, task, flow, live, connects>> /\ CbOnly

CbReconfigure ==
    LET a == cb.owner[1]
    IN  /\ cb.pc = "reconfigure"
        /\ IF actor[a].state = "Removed" THEN Cb("spawn") /\ UNCHANGED <<actor, live>>
           ELSE /\ actor' = [actor EXCEPT ![a] = Reconfigured(a, cb.flow.config)]
                /\ live' = Stopped(a)
                /\ cb' = [cb EXCEPT !.pc = "spawn", !.owner = <<a, actor[a].epoch + 1>>]
        /\ UNCHANGED <<made, servers, task, flow, url, connects>> /\ CbOnly

CbSpawn ==
    LET o == cb.owner
    IN  /\ cb.pc = "spawn" /\ cb' = Quiet
        /\ IF actor[o[1]].epoch # o[2] THEN UNCHANGED <<task, connects>>
           ELSE Spawn(task, Task("callback", o[1], o[2], cb.flow.config, "connecting", None))
        /\ UNCHANGED <<actor, made, servers, flow, url, live>> /\ CbOnly

\* A flow without an owner: the actor of the name, or a new one, is configured.
CbTable ==
    /\ cb.pc = "table"
    /\ IF servers # 0 THEN cb' = [cb EXCEPT !.pc = "configure", !.owner = <<servers, 0>>]
                           /\ UNCHANGED <<actor, made, servers>>
       ELSE /\ made < MaxActor /\ made' = made + 1 /\ servers' = made + 1
            /\ actor' = [actor EXCEPT ![made + 1] = NewActor(cb.flow.config)]
            /\ cb' = [cb EXCEPT !.pc = "configure", !.owner = <<made + 1, 0>>]
    /\ UNCHANGED <<task, flow, url, live, connects>> /\ CbOnly

CbConfigure ==
    /\ cb.pc = "configure" /\ cb' = Quiet
    /\ IF actor[cb.owner[1]].state = "Removed" THEN UNCHANGED <<actor, live, task, connects>>
       ELSE Begin(task, cb.owner[1], cb.flow.config, "connect")
    /\ UNCHANGED <<made, servers, flow, url>> /\ CbOnly

\* fail_oauth_authorization finds the flow by its nonce, and removes by name.
Deny ==
    /\ \/ /\ deny.pc = "idle" /\ flow.shown /\ Load < MaxLoad
          /\ deny' = [Quiet EXCEPT !.pc = "found"] /\ UNCHANGED <<flow, url, actor, live>>
       \/ /\ deny.pc = "found"
          /\ deny' = [deny EXCEPT !.pc = "url", !.flow = flow] /\ flow' = NoFlow
          /\ UNCHANGED <<url, actor, live>>
       \/ /\ deny.pc = "url" /\ url' = FALSE
          /\ deny' = IF deny.flow.owner[1] = 0 THEN Quiet ELSE [deny EXCEPT !.pc = "fail"]
          /\ UNCHANGED <<flow, actor, live>>
       \/ /\ deny.pc = "fail" /\ deny' = Quiet
          /\ LET o == [a |-> deny.flow.owner[1], e |-> deny.flow.owner[2]]
             IN  IF Current(o)
                 THEN actor' = [actor EXCEPT ![o.a] = Failed(o.a)] /\ live' = Stopped(o.a)
                 ELSE UNCHANGED <<actor, live>>
          /\ UNCHANGED <<flow, url>>
    /\ UNCHANGED <<made, servers, task, rl, reloads, desired, cb, caller, timeouts, flows, connects>>

\* The last handle of an actor is dropped: its mailbox closes and it stops.
ActorStops(a) ==
    /\ a <= made /\ actor[a].state # "Removed" /\ a # servers
    /\ \A t \in task : t.a # a
    /\ \A k \in Caller : caller[k].pc \notin {"idle", "done"} => caller[k].a # a
    /\ rl.a # a /\ a \notin {flow.owner[1], cb.owner[1], cb.flow.owner[1], deny.flow.owner[1]}
    /\ actor' = [actor EXCEPT ![a] = Removed(a)] /\ live' = Stopped(a)
    /\ UNCHANGED <<made, servers, task, net, rl, reloads, desired, operator, caller, timeouts,
                   connects>>

-----------------------------------------------------------------------------

Callers == \E k \in Caller :
    \/ BeginCall(k) \/ ReadSnapshot(k) \/ Call(k) \/ Deadline(k) \/ CallStopped(k)
    \/ Watch(k) \/ Retry(k) \/ UserCancel(k) \/ Recover(k) \/ RecoverInBackground(k)
Actors == \E a \in Actor :
    \/ \E x \in actor[a].running : \E res \in Results(x) : CallCompleted(a, x, res)
    \/ \E i \in DOMAIN actor[a].queue : CancelQueued(a, i)
    \/ ActorStops(a)
Tasks == \E t \in task :
    \/ Connect(t) \/ BeginFlow(t) \/ Surface(t) \/ Refresh(t) \/ StepUpFails(t) \/ Bind(t)
    \/ ConnectFailed(t) \/ Publish(t) \/ ClearUrl(t) \/ Fail(t) \/ AwaitAuthorization(t)
    \/ RefreshTransient(t) \/ RetryCheck(t)
Reload ==
    \/ ReloadWithout \/ ReloadDeleteToken \/ ReloadRemove \/ \E c \in Config : ReloadWith(c)
    \/ ReloadForget \/ ReloadAdd \/ ReloadConnect \/ ReloadDone \/ ReloadTimeout \/ ReloadFail
Operator ==
    \/ CbExchange \/ CbPersist \/ CbOwner \/ CbReconfigure \/ CbSpawn \/ CbTable \/ CbConfigure
    \/ Deny
Next == Callers \/ Actors \/ Tasks \/ StderrUrl \/ Reload \/ Operator

Spec == Init /\ [][Next]_vars

-----------------------------------------------------------------------------

\* Everything has its type.
TypeOK ==
    /\ made \in 0..MaxActor /\ servers \in 0..made
    /\ \A a \in Actor : /\ actor[a].state \in {"Connecting", "Ready", "Recovering", "Failed", "Removed"}
                        /\ actor[a].epoch \in Nat
                        /\ actor[a].from \in 0..Max({0, actor[a].epoch - 1})
                        /\ {actor[a].config, actor[a].served} \subseteq Config \union {None}
                        /\ actor[a].url \in BOOLEAN /\ actor[a].stdio \in BOOLEAN
    /\ url \in BOOLEAN /\ flow.id \in 0..MaxFlow /\ flows \in 0..MaxFlow
    /\ reloads \in 0..MaxReload /\ timeouts \in 0..MaxTimeout
    /\ live \subseteq Actor \X Nat

\* The server an actor serves was connected with the configuration the actor
\* has now: no connect or recovery that was started for an older configuration
\* is ever served, whatever order completions and reloads come in.
ServesItsConfig == \A a \in Actor :
    actor[a].state = "Ready" => actor[a].served = actor[a].config /\ <<a, actor[a].epoch>> \in live

\* Whatever fails, is claimed, reloaded or called back at the same time, at most
\* one task connects for an epoch of an actor.
OneConnectorPerEpoch == \A a \in Actor :
    \A i, j \in DOMAIN connects[a] : connects[a][i] = connects[a][j] => i = j

\* A connected server is served, or on its way to the actor in the hands of a
\* task; any other has been shut down (a refused, superseded or removed one too),
\* but for an HTTP session that was published behind the removal of its actor.
NoServerLeaks == \A s \in live :
    \/ actor[s[1]].state = "Ready" /\ actor[s[1]].epoch = s[2]
    \/ \E t \in task : t.pc = "publish" /\ <<t.a, t.e>> = s
    \/ s[2] \in actor[s[1]].dropped

\* A call made again after a recovery goes to another connection than the one
\* that failed.
RetriesElsewhere ==
    [][\A k \in Caller : (caller[k].pc = "send" /\ caller[k].round = 2 /\ caller'[k].pc = "calling") =>
        \E x \in actor'[caller[k].a].running \union Range(actor'[caller[k].a].queue) :
            x.k = k /\ x.n = caller'[k].n /\ x.conn # caller[k].obs]_vars

\* A tool call is sent to the server once, and once more if the first call asked
\* for a recovery; only missing its deadline during a reconnection adds to that.
SentAtMostTwice == \A k \in Caller : caller[k].n <= caller[k].round + timeouts

\* Calls to a stdio server run one at a time and the queue never stalls: while
\* calls wait, one is running, across reconfigurations and cancellations.
StdioQueueMoves == \A a \in Actor : actor[a].state # "Removed" =>
    /\ actor[a].stdio <=> Cardinality({x \in actor[a].running : x.stdio}) = 1
    /\ Cardinality({x \in actor[a].running : x.stdio}) <= 1
    /\ actor[a].queue # <<>> => actor[a].stdio

\* A server that is connecting or recovering, and shows no URL, has a task of its
\* own epoch that will end that, or a reload or a callback about to start one: no
\* order of claims, reloads and completions leaves it (and every call that waits
\* for it) without, unless its flow was gone before it was bound.  With a URL it is
\* left to the operator, also when a stdio server printed it and no flow is pending.
ReconnectIsDriven == \A a \in Actor :
    (actor[a].state \in Pending /\ ~actor[a].url /\ ~actor[a].unbound) =>
        \/ \E t \in task : t.a = a /\ t.e = actor[a].epoch
        \/ rl.a = a \/ cb.owner[1] = a

\* Once a reload is over, the name is served as the configuration says: what was
\* superseded "cannot resurrect removed state or overwrite newer config".
SupersededCannotOverwrite ==
    rl.pc = "idle" => IF servers = 0 THEN TRUE ELSE actor[servers].config = desired

=============================================================================
