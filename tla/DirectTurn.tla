----------------------------- MODULE DirectTurn -----------------------------
(***************************************************************************)
(* Durable direct turns of one conversation.  A message sent to a resting  *)
(* conversation is accepted as a durable turn that owns the conversation;  *)
(* the direct-turn worker claims it under a lease and dispatches it to the *)
(* conversation's executor; the executor materializes it (message, state   *)
(* and receipt in one transaction), works on it, and settles it with the   *)
(* state it comes to rest in.  A cancel request, a wake delivery, a        *)
(* restart of the server and failing database calls interleave with that.  *)
(*                                                                         *)
(* Every SQLite transaction is one step; the awaits between transactions   *)
(* are where the other parties step in.  Attempt ids are compared for      *)
(* equality only, so an id no party holds any more is used again.          *)
(***************************************************************************)
EXTENDS Naturals, Sequences, Functions

CONSTANTS
    MaxKey,       \* messages sent, numbered in the order they are first checked
    MaxAttempt,   \* attempt ids; more than the parties that can hold one
    MaxRound,     \* tool rounds of the model
    MaxTrouble    \* late leases, cancel requests, restarts and failing calls together

ASSUME BoundsAssumption ==
    MaxKey \in Nat /\ MaxAttempt \in Nat /\ MaxRound \in Nat /\ MaxTrouble \in Nat

VARIABLES
    turn,      \* durable_turns with its workflow effect, attempt and lease
    row,       \* conversations.state: "idle", "llm", "tool", "error"
    tail,      \* what recovery reads from the last messages: "rest", "cont", "wake"
    rt,        \* a runtime is registered for the conversation
    ex,        \* the executor's memory
    watch,     \* the state published to observers (state_rx)
    chan,      \* the executor's event channel
    wk,        \* the worker's pass over one candidate
    snd,       \* the progress of each send request
    can,       \* the progress of the cancel request
    wake,      \* a terminal wake result: "pending" .. "adopted"
    heard,     \* a model request has read the wake result
    count      \* the rounds and troubles so far, and whether a restart or fault was one

vars == <<turn, row, tail, rt, ex, watch, chan, wk, snd, can, wake, heard, count>>

Terminal == {"completed", "failed", "cancelled"}
Phase == {"idle", "llm", "tool", "cancelling", "error"}
Busy == {"llm", "tool", "cancelling"}
Key == 1..MaxKey        \* client message ids
NoKey == 0
Attempt == 1..MaxAttempt
Inserted == {"inserted", "waiting", "adopted"}

Absent == [life |-> "absent", mat |-> FALSE, effect |-> "none", att |-> 0, lease |-> FALSE]
NoEvent == [t |-> "none", k |-> NoKey, a |-> 0]
Event == {NoEvent} \cup [t : {"turn"}, k : Key, a : Attempt]
            \cup {[t |-> "cancel", k |-> NoKey, a |-> 0], [t |-> "wake", k |-> NoKey, a |-> 0]}
CancelEvent == [t |-> "cancel", k |-> NoKey, a |-> 0]
WakeEvent == [t |-> "wake", k |-> NoKey, a |-> 0]

Resting(p, active) ==
    [phase |-> p, active |-> active, cancelling |-> FALSE, pend |-> "none",
     req |-> FALSE, pc |-> "ready", prev |-> "idle", ev |-> NoEvent]
NoWork == [pc |-> "scan", k |-> NoKey, a |-> 0]

Init ==
    /\ turn = [k \in Key |-> Absent]
    /\ row = "idle" /\ tail = "rest"
    /\ rt = FALSE /\ ex = Resting("idle", NoKey) /\ watch = "idle" /\ chan = <<>>
    /\ wk = NoWork
    /\ snd = [k \in Key |-> "new"]
    /\ can = "none"
    /\ wake = "pending" /\ heard = FALSE
    /\ count = [round |-> 0, trouble |-> 0, kinds |-> {}]

\* One of the MaxTrouble disturbances happens.
Trouble(kinds) ==
    /\ count.trouble < MaxTrouble
    /\ count' = [count EXCEPT !.trouble = @ + 1, !.kinds = @ \cup kinds]

Accepted(k) == turn[k].life = "accepted"
Owner == IF \E k \in Key : Accepted(k) THEN CHOOSE k \in Key : Accepted(k) ELSE NoKey

-----------------------------------------------------------------------------
(* The repository's transactions on one turn. *)

\* A live attempt a of k still has its authority (effect Executing, attempt Begun).
HasAuthority(k, a) == turn[k].effect = "executing" /\ turn[k].att = a

\* The preflight answers Fresh: accepted, not materialized, authority and lease live.
PreflightFresh(k, a, leaseLive) ==
    /\ Accepted(k) /\ ~turn[k].mat
    /\ HasAuthority(k, a) /\ leaseLive

\* Materialize applies: the aggregate admits it and the receipt is accepted.
MaterializeApplies(k, a) == Accepted(k) /\ ~turn[k].mat /\ HasAuthority(k, a)

\* A turn ends: ownership released, the attempt loses its authority, effects invalidated.
Terminated(t, outcome) ==
    [t EXCEPT !.life = outcome, !.att = 0, !.lease = FALSE,
              !.effect = IF @ \in {"eligible", "executing"} THEN "invalid" ELSE @]

-----------------------------------------------------------------------------
(* Sending a message. *)

\* send reads the state observers see; a busy conversation takes it as steering.
SendCheck(k) ==
    /\ snd[k] = "new" /\ rt
    /\ k > 1 => snd[k - 1] # "new"
    /\ snd' = [snd EXCEPT ![k] = IF watch \in {"idle", "error"} THEN "checked" ELSE "done"]
    /\ UNCHANGED <<turn, row, tail, rt, ex, watch, chan, wk, can, wake, heard, count>>

\* accept_authoritative_turn: refused while another turn owns the conversation.
Accept(k) ==
    /\ snd[k] = "checked"
    /\ \/ /\ Owner = NoKey
          /\ turn' = [turn EXCEPT ![k] = [Absent EXCEPT !.life = "accepted", !.effect = "eligible"]]
          /\ snd' = [snd EXCEPT ![k] = "done"]
       \/ /\ Owner # NoKey
          /\ snd' = [snd EXCEPT ![k] = "done"]
          /\ UNCHANGED turn
    /\ UNCHANGED <<row, tail, rt, ex, watch, chan, wk, can, wake, heard, count>>

-----------------------------------------------------------------------------
(* The direct-turn worker. *)

Held(k) == {e.a : e \in {x \in Range(chan) \cup {ex.ev} : x.k = k}} \cup {wk.a}

\* Faulty variant: an attempt whose lease ran out is not taken over.
Claim_NoTakeover(k) ==
    /\ wk.pc = "scan"
    /\ Accepted(k) /\ ~turn[k].mat
    /\ turn[k].effect = "eligible"
    /\ \E a \in Attempt \ Held(k) :
         /\ \A b \in Attempt \ Held(k) : a <= b
         /\ turn' = [turn EXCEPT ![k].effect = "executing", ![k].att = a, ![k].lease = TRUE]
         /\ wk' = [pc |-> "claimed", k |-> k, a |-> a]
    /\ UNCHANGED <<row, tail, rt, ex, watch, chan, snd, can, wake, heard, count>>

\* claim_authoritative_turn: a first attempt, or one in place of an expired one.
Claim(k) ==
    /\ wk.pc = "scan"
    /\ Accepted(k) /\ ~turn[k].mat
    /\ \/ turn[k].effect = "eligible"
       \/ turn[k].effect = "executing" /\ ~turn[k].lease
    /\ \E a \in Attempt \ Held(k) :
         /\ \A b \in Attempt \ Held(k) : a <= b
         /\ turn' = [turn EXCEPT ![k].effect = "executing", ![k].att = a, ![k].lease = TRUE]
         /\ wk' = [pc |-> "claimed", k |-> k, a |-> a]
    /\ UNCHANGED <<row, tail, rt, ex, watch, chan, snd, can, wake, heard, count>>

\* The lease is 30 s long; a dispatch outlasts it only as a trouble.
UnderWay(k) == turn[k].att \in Held(k)
LeaseExpires(k) ==
    /\ turn[k].lease
    /\ \/ ~UnderWay(k) /\ UNCHANGED count
       \/ UnderWay(k) /\ Trouble({})
    /\ turn' = [turn EXCEPT ![k].lease = FALSE]
    /\ UNCHANGED <<row, tail, rt, ex, watch, chan, wk, snd, can, wake, heard>>

\* The worker's own preflight reads the clock of the claim, so the lease is live.
WorkerPreflight ==
    /\ wk.pc = "claimed"
    /\ wk' = IF PreflightFresh(wk.k, wk.a, TRUE) THEN [wk EXCEPT !.pc = "fresh"] ELSE NoWork
    /\ UNCHANGED <<turn, row, tail, rt, ex, watch, chan, snd, can, wake, heard, count>>

\* dispatch: sent to a resting executor, otherwise the claim is released.
Dispatch ==
    /\ wk.pc = "fresh" /\ rt
    /\ \/ /\ watch \in {"idle", "error"}
          /\ chan' = Append(chan, [t |-> "turn", k |-> wk.k, a |-> wk.a])
          /\ UNCHANGED turn
       \/ /\ watch \in Busy
          /\ turn' = IF HasAuthority(wk.k, wk.a)
                     THEN [turn EXCEPT ![wk.k].effect = "eligible", ![wk.k].att = 0, ![wk.k].lease = FALSE]
                     ELSE turn
          /\ UNCHANGED chan
    /\ wk' = NoWork
    /\ UNCHANGED <<row, tail, rt, ex, watch, snd, can, wake, heard, count>>

-----------------------------------------------------------------------------
(* The executor. *)

\* A model request reads the transcript as it is when the request is made.
Requested == heard' = (heard \/ wake \in Inserted)

\* What a transition into phase p makes of the active turn (classify_active_direct_turn).
Classified(x, p) ==
    IF x.active = NoKey THEN x.pend
    ELSE CASE p = "idle" -> IF x.cancelling THEN "cancelled" ELSE "completed"
           [] p = "error" -> "failed"
           [] OTHER -> x.pend

\* The executor moves to a resting phase; PersistState follows as a step of its own.
ToRest(x, p) ==
    [x EXCEPT !.phase = p, !.prev = x.phase, !.pend = Classified(x, p), !.req = FALSE, !.pc = "settle"]
\* Faulty variant: the resting phase is published before it is settled.
EarlyWatch_Always(x, p) == p

\* The new phase is published at once unless an active turn is about to be settled.
EarlyWatch(x, p) == IF x.active # NoKey /\ Classified(x, p) # "none" THEN watch ELSE p

\* AuthoritativeUserMessage: a resting executor goes to LlmRequesting, a busy one refuses.
TakeTurn ==
    /\ ex.pc = "ready" /\ chan # <<>> /\ Head(chan).t = "turn"
    /\ chan' = Tail(chan)
    /\ \/ /\ ex.phase \in {"idle", "error"}
          /\ ex' = [ex EXCEPT !.phase = "llm", !.prev = ex.phase, !.pc = "preflight", !.ev = Head(chan)]
          /\ watch' = "llm"
       \/ /\ ex.phase \in Busy
          /\ UNCHANGED <<ex, watch>>
    /\ UNCHANGED <<turn, row, tail, rt, wk, snd, can, wake, heard, count>>

\* The aborted materialization restores the phase the event found.
AbortMaterialization ==
    /\ ex' = [ex EXCEPT !.phase = ex.prev, !.prev = "idle", !.pc = "ready", !.ev = NoEvent]
    /\ watch' = ex.prev

Preflight ==
    /\ ex.pc = "preflight"
    /\ \/ /\ PreflightFresh(ex.ev.k, ex.ev.a, turn[ex.ev.k].lease)
          /\ ex' = [ex EXCEPT !.pc = "materialize"]
          /\ UNCHANGED watch
       \/ /\ ~PreflightFresh(ex.ev.k, ex.ev.a, turn[ex.ev.k].lease)
          /\ AbortMaterialization
    /\ UNCHANGED <<turn, row, tail, rt, chan, wk, snd, can, wake, heard, count>>

\* The materialization's transaction.
Materialized(k) ==
    /\ turn' = [turn EXCEPT ![k].mat = TRUE, ![k].effect = "receipted", ![k].att = 0, ![k].lease = FALSE]
    /\ row' = "llm" /\ tail' = "rest"

Materialize ==
    /\ ex.pc = "materialize"
    /\ LET k == ex.ev.k IN
       \/ /\ MaterializeApplies(k, ex.ev.a)
          /\ Materialized(k)
          /\ ex' = [ex EXCEPT !.active = k, !.req = TRUE, !.prev = "idle", !.pc = "ready", !.ev = NoEvent]
          /\ Requested
          /\ UNCHANGED watch
       \/ /\ ~MaterializeApplies(k, ex.ev.a)
          /\ AbortMaterialization
          /\ UNCHANGED <<turn, row, tail, heard>>
    /\ UNCHANGED <<rt, chan, wk, snd, can, wake, count>>

\* UserCancel: absorbed at rest, ends a model request, begins to cancel a tool.
TakeCancel ==
    /\ ex.pc = "ready" /\ chan # <<>> /\ Head(chan) = CancelEvent
    /\ chan' = Tail(chan)
    /\ LET x == [ex EXCEPT !.cancelling = @ \/ ex.active # NoKey] IN
       \/ /\ ex.phase \in {"idle", "error", "cancelling"}
          /\ UNCHANGED <<ex, watch, row>>
       \/ /\ ex.phase = "llm"
          /\ ex' = ToRest(x, "idle") /\ watch' = EarlyWatch(x, "idle")
          /\ UNCHANGED row
       \/ /\ ex.phase = "tool"
          /\ ex' = [x EXCEPT !.phase = "cancelling"] /\ watch' = "cancelling"
          /\ row' = "tool"
    /\ UNCHANGED <<turn, tail, rt, wk, snd, can, wake, heard, count>>

\* WakeBatchAdopted: an idle executor starts a request, any other ignores it.
TakeWake ==
    /\ ex.pc = "ready" /\ chan # <<>> /\ Head(chan) = WakeEvent
    /\ chan' = Tail(chan)
    /\ \/ /\ ex.phase = "idle"
          /\ ex' = [ex EXCEPT !.phase = "llm", !.req = TRUE] /\ watch' = "llm"
          /\ Requested
       \/ /\ ex.phase # "idle"
          /\ UNCHANGED <<ex, watch, heard>>
    /\ UNCHANGED <<turn, row, tail, rt, wk, snd, can, wake, count>>

\* The model asks for tools.
ToolsRequested ==
    /\ ex.pc = "ready" /\ ex.phase = "llm" /\ ex.req
    /\ count.round < MaxRound /\ count' = [count EXCEPT !.round = @ + 1]
    /\ ex' = [ex EXCEPT !.phase = "tool"] /\ watch' = "tool" /\ row' = "tool"
    /\ UNCHANGED <<turn, tail, rt, chan, wk, snd, can, wake, heard>>

\* The tools are done: their results are persisted and the next request made.
ToolsDone ==
    /\ ex.pc = "ready" /\ ex.phase = "tool" /\ ex.req
    /\ ex' = [ex EXCEPT !.phase = "llm"] /\ watch' = "llm" /\ row' = "llm"
    /\ tail' \in {"cont", "rest"}
    /\ Requested
    /\ UNCHANGED <<turn, rt, chan, wk, snd, can, wake, count>>

\* A cancelled tool has stopped, or its deadline forces the end.
ToolsCancelled ==
    /\ ex.pc = "ready" /\ ex.phase = "cancelling"
    /\ tail' \in {"cont", "rest"}
    /\ ex' = ToRest(ex, "idle") /\ watch' = EarlyWatch(ex, "idle")
    /\ UNCHANGED <<turn, row, rt, chan, wk, snd, can, wake, heard, count>>

\* The model answers in text, or the request fails for good.
Answered ==
    /\ ex.pc = "ready" /\ ex.phase = "llm" /\ ex.req
    /\ \/ /\ ex' = ToRest(ex, "idle") /\ watch' = EarlyWatch(ex, "idle")
          /\ tail' = "rest"
       \/ /\ ex' = ToRest(ex, "error") /\ watch' = EarlyWatch(ex, "error")
          /\ UNCHANGED tail
    /\ UNCHANGED <<turn, row, rt, chan, wk, snd, can, wake, heard, count>>

\* The settled executor forgets the turn and publishes its state.
Settled ==
    /\ ex' = Resting(ex.phase, NoKey) /\ watch' = ex.phase
\* A failed PersistState restores the state the transition left; nothing runs in it.
SettleRestores ==
    /\ ex' = [ex EXCEPT !.phase = ex.prev, !.prev = "idle", !.pc = "ready"] /\ watch' = ex.prev

\* persist_state_effect: the state alone, or the terminal command with it.
Settle ==
    /\ ex.pc = "settle"
    /\ LET k == ex.active IN
       \/ /\ k = NoKey
          /\ row' = ex.phase
          /\ ex' = [ex EXCEPT !.prev = "idle", !.pc = "ready"] /\ watch' = ex.phase
          /\ UNCHANGED turn
       \/ /\ k # NoKey /\ Accepted(k)
          /\ turn' = [turn EXCEPT ![k] = Terminated(@, ex.pend)]
          /\ row' = ex.phase
          /\ Settled
       \/ /\ k # NoKey /\ turn[k].life = ex.pend   \* TerminalReplay
          /\ Settled
          /\ UNCHANGED <<turn, row>>
       \/ /\ k # NoKey /\ turn[k].life \in Terminal \ {ex.pend}
          /\ IF row = ex.phase THEN Settled ELSE SettleRestores
          /\ UNCHANGED <<turn, row>>
    /\ UNCHANGED <<tail, rt, chan, wk, snd, can, wake, heard, count>>

-----------------------------------------------------------------------------
(* Database calls of the executor that fail. *)

\* The preflight's read fails: the error leaves LlmRequesting with no request.
PreflightFails ==
    /\ ex.pc = "preflight" /\ Trouble({"fault"})
    /\ ex' = [ex EXCEPT !.pc = "ready", !.ev = NoEvent]
    /\ UNCHANGED <<turn, row, tail, rt, watch, chan, wk, snd, can, wake, heard>>

\* The materialization reports an error, whether or not it was committed.
MaterializeFails ==
    /\ ex.pc = "materialize" /\ Trouble({"fault"})
    /\ AbortMaterialization
    /\ \/ UNCHANGED <<turn, row, tail>>
       \/ MaterializeApplies(ex.ev.k, ex.ev.a) /\ Materialized(ex.ev.k)
    /\ UNCHANGED <<rt, chan, wk, snd, can, wake, heard>>

\* The settlement fails and nothing was committed.
SettleFails ==
    /\ ex.pc = "settle" /\ Trouble({"fault"})
    /\ SettleRestores
    /\ UNCHANGED <<turn, row, tail, rt, chan, wk, snd, can, wake, heard>>

-----------------------------------------------------------------------------
(* The cancel request. *)

EffectiveState == IF rt THEN watch ELSE row

\* cancel_conversation: at rest it looks for a turn to cancel, busy it sends UserCancel.
CancelRequested ==
    /\ can = "none" /\ Trouble({})
    /\ can' = CASE EffectiveState = "idle" -> "turn"
                [] EffectiveState \in {"llm", "tool"} -> "send"
                [] OTHER -> "none"
    /\ UNCHANGED <<turn, row, tail, rt, ex, watch, chan, wk, snd, wake, heard>>

\* cancel_active_direct_turn: the owner is cancelled without a projection.
CancelTurn ==
    /\ can = "turn"
    /\ turn' = IF Owner = NoKey THEN turn ELSE [turn EXCEPT ![Owner] = Terminated(@, "cancelled")]
    /\ can' = "follow"
    /\ UNCHANGED <<row, tail, rt, ex, watch, chan, wk, snd, wake, heard, count>>

\* The state is read again: an executor that became busy meanwhile is cancelled too.
CancelFollow ==
    /\ can = "follow"
    /\ can' = IF rt /\ watch \in Busy THEN "send" ELSE "none"
    /\ UNCHANGED <<turn, row, tail, rt, ex, watch, chan, wk, snd, wake, heard, count>>

CancelSend ==
    /\ can = "send" /\ rt
    /\ chan' = Append(chan, CancelEvent)
    /\ can' = "none"
    /\ UNCHANGED <<turn, row, tail, rt, ex, watch, wk, snd, wake, heard, count>>

-----------------------------------------------------------------------------
(* Delivery of a wake result (deliver_pending). *)

\* An unmaterialized turn that owns the conversation comes first.
NoTurnWaits == \A k \in Key : Accepted(k) => turn[k].mat

\* Faulty variant: a result that was inserted but not adopted is not taken up again.
WakeCheck_Once ==
    /\ NoTurnWaits
    /\ \/ wake = "pending" /\ rt /\ watch = "idle" /\ wake' = "checked"
       \/ wake = "pending" /\ ~rt /\ wake' = "starting"
    /\ UNCHANGED <<turn, row, tail, rt, ex, watch, chan, wk, snd, can, heard, count>>

\* Skipped unless the runtime is idle; one that had to be started is not asked.
WakeCheck ==
    /\ NoTurnWaits
    /\ \/ wake = "pending" /\ rt /\ watch = "idle" /\ wake' = "checked"
       \/ wake = "waiting" /\ rt /\ watch = "idle" /\ wake' = "inserted"
       \/ wake = "pending" /\ ~rt /\ wake' = "starting"
    /\ UNCHANGED <<turn, row, tail, rt, ex, watch, chan, wk, snd, can, heard, count>>

\* materialize_pending_delivery_message puts the result in the transcript.
WakeInsert ==
    /\ wake \in {"checked", "starting"} /\ rt
    /\ wake' = "inserted" /\ tail' = "wake"
    /\ UNCHANGED <<turn, row, rt, ex, watch, chan, wk, snd, can, heard, count>>

\* adopt_materialized_pending: over an idle row only, which becomes LlmRequesting.
WakeAdopt ==
    /\ wake = "inserted" /\ rt
    /\ \/ /\ row = "idle"
          /\ wake' = "adopted" /\ row' = "llm"
          /\ tail' = IF tail = "wake" THEN "cont" ELSE tail
          /\ chan' = Append(chan, WakeEvent)
       \/ /\ row # "idle"
          /\ wake' = "waiting"
          /\ UNCHANGED <<row, tail, chan>>
    /\ UNCHANGED <<turn, rt, ex, watch, wk, snd, can, heard, count>>

-----------------------------------------------------------------------------
(* The life of the runtime. *)

\* Faulty variant: a materialized turn is not settled when the runtime resumes at rest.
StartRuntime_NotSettled ==
    /\ ~rt
    /\ rt' = TRUE
    /\ LET p == IF tail = "cont" THEN "llm" ELSE "idle"
       IN /\ ex' = [Resting(p, Owner) EXCEPT !.req = (p = "llm")]
          /\ watch' = p
          /\ IF p = "llm" THEN Requested /\ tail' = "rest" ELSE UNCHANGED <<heard, tail>>
    /\ UNCHANGED <<turn, row, chan, wk, snd, can, wake, count>>

\* create_runtime: the resume state, and what becomes of the turn that owns.
StartRuntime ==
    /\ ~rt
    /\ rt' = TRUE
    /\ LET k == Owner
           p == IF tail = "cont" THEN "llm" ELSE "idle"
           ended == k # NoKey /\ turn[k].mat /\ p = "idle"
       IN /\ turn' = IF ended THEN [turn EXCEPT ![k] = Terminated(@, "completed")] ELSE turn
          /\ row' = IF ended THEN p ELSE row
          /\ ex' = [Resting(p, IF ended THEN NoKey ELSE k) EXCEPT !.req = (p = "llm")]
          /\ watch' = p
          /\ IF p = "llm" THEN Requested /\ tail' = "rest" ELSE UNCHANGED <<heard, tail>>
    /\ UNCHANGED <<chan, wk, snd, can, wake, count>>

\* The server stops and starts: requests and memory are gone, reset_all_to_idle runs.
Restart ==
    /\ Trouble({"restart"})
    /\ rt' = FALSE /\ ex' = Resting("idle", NoKey) /\ watch' = "idle" /\ chan' = <<>>
    /\ wk' = NoWork /\ can' = "none"
    /\ snd' = [k \in Key |-> IF snd[k] = "checked" THEN "new" ELSE snd[k]]
    /\ wake' = CASE wake \in {"checked", "starting"} -> "pending"
                 [] wake = "inserted" -> "waiting"
                 [] OTHER -> wake
    /\ row' = IF row = "llm" /\ Owner # NoKey /\ turn[Owner].mat THEN row ELSE "idle"
    /\ IF row = "tool" THEN tail' \in {"cont", "rest"} ELSE UNCHANGED tail
    /\ UNCHANGED <<turn, heard>>

\* The executor's loop, the worker's loop, the cancel request and the wake worker.
Execute ==
    \/ TakeTurn \/ Preflight \/ Materialize \/ TakeCancel \/ TakeWake
    \/ ToolsDone \/ ToolsCancelled \/ Answered \/ Settle
Work == WorkerPreflight \/ Dispatch \/ \E k \in Key : Claim(k)
Cancel == CancelTurn \/ CancelFollow \/ CancelSend
DeliverWake == WakeCheck \/ WakeInsert \/ WakeAdopt

Next ==
    \/ \E k \in Key : SendCheck(k) \/ Accept(k) \/ LeaseExpires(k)
    \/ Work \/ Execute \/ ToolsRequested
    \/ PreflightFails \/ MaterializeFails \/ SettleFails
    \/ CancelRequested \/ Cancel
    \/ DeliverWake
    \/ StartRuntime \/ Restart

Spec == Init /\ [][Next]_vars

\* The worker rescans, time passes, the executor runs, requests end, and the
\* conversation is opened again after a restart.
Fairness ==
    /\ WF_vars(Work) /\ WF_vars(\E k \in Key : LeaseExpires(k))
    /\ WF_vars(Execute) /\ WF_vars(Cancel) /\ WF_vars(DeliverWake)
    /\ WF_vars(StartRuntime)

FairSpec == Spec /\ Fairness

-----------------------------------------------------------------------------
TurnRec ==
    [life : {"absent", "accepted"} \cup Terminal, mat : BOOLEAN,
     effect : {"none", "eligible", "executing", "receipted", "invalid"},
     att : 0..MaxAttempt, lease : BOOLEAN]
ExRec ==
    [phase : Phase, active : Key \cup {NoKey}, cancelling : BOOLEAN,
     pend : Terminal \cup {"none"}, req : BOOLEAN,
     pc : {"ready", "preflight", "materialize", "settle"}, prev : Phase, ev : Event]
WorkRec == [pc : {"scan", "claimed", "fresh"}, k : Key \cup {NoKey}, a : 0..MaxAttempt]
CountRec == [round : 0..MaxRound, trouble : 0..MaxTrouble, kinds : SUBSET {"restart", "fault"}]

\* The types.
TypeOK ==
    /\ turn \in [Key -> TurnRec]
    /\ row \in {"idle", "llm", "tool", "error"} /\ tail \in {"rest", "cont", "wake"} /\ rt \in BOOLEAN
    /\ ex \in ExRec /\ watch \in Phase /\ chan \in Seq(Event)
    /\ wk \in WorkRec /\ snd \in [Key -> {"new", "checked", "done"}]
    /\ can \in {"none", "turn", "follow", "send"}
    /\ wake \in {"pending", "checked", "starting"} \cup Inserted /\ heard \in BOOLEAN
    /\ count \in CountRec

\* At most one turn owns the conversation (the index durable_turns_one_live_owner,
\* which the transaction of accept_authoritative_turn relies on).
OneOwner == \A a, b \in Key : Accepted(a) /\ Accepted(b) => a = b

\* No database call of the executor has failed: what such a failure leaves behind is
\* described in the README and not claimed here.
Faultless == "fault" \notin count.kinds

\* A turn whose message is in the transcript and that still owns the conversation is
\* the loaded executor's active turn, and the executor is at work on it, cancelling
\* it or settling it (PersistAuthoritativeUserMessage, persist_state_effect, and the
\* recovered turn of create_runtime).  Otherwise nothing would ever release the
\* conversation.
OwnerIsWorked ==
    Faultless => \A k \in Key : Accepted(k) /\ turn[k].mat /\ rt =>
        ex.active = k /\ (ex.req \/ ex.phase = "cancelling" \/ ex.pc = "settle")

\* A resting state is not shown to observers before the transaction that releases the
\* turn has been committed (persist_state_effect), so a message sent on seeing it
\* finds no turn in its way.
RestIsReleased ==
    Faultless => \A k \in Key : Accepted(k) /\ turn[k].mat /\ rt => watch \in Busy

\* What the executor's position says about its phase, its event and the published
\* state; a runtime that is not loaded has none of them.
ExecutorFits ==
    /\ ~rt => ex = Resting("idle", NoKey) /\ watch = "idle" /\ chan = <<>>
    /\ ex.pc \in {"preflight", "materialize"} =>
          ex.ev.t = "turn" /\ ex.phase = "llm" /\ ex.prev \in {"idle", "error"}
    /\ ex.req => ex.pc = "ready" /\ ex.phase \in Busy
    /\ ex.pc # "settle" => watch = ex.phase
    /\ ex.pc = "settle" =>
          /\ ex.phase \in {"idle", "error"} /\ ex.prev \in Busy
          /\ ex.active = NoKey => watch = ex.phase
          /\ ex.active # NoKey => watch = ex.prev /\ ex.pend \in Terminal

\* The worker has a turn and an attempt exactly while it is not scanning; a message
\* not yet accepted has no turn; only an attempt at an accepted turn whose message is
\* not in the transcript executes and has a lease.
TurnFits ==
    /\ wk.pc # "scan" => wk.k \in Key /\ wk.a \in Attempt
    /\ \A k \in Key :
          /\ snd[k] # "done" => turn[k].life = "absent"
          /\ turn[k].effect = "executing" => Accepted(k) /\ ~turn[k].mat
          /\ turn[k].lease => turn[k].effect = "executing"

\* The inductive invariant of the proofs.
TurnInv == TypeOK /\ OneOwner /\ ExecutorFits /\ TurnFits /\ OwnerIsWorked

\* A stored state that says busy is one somebody works on, unless a turn was
\* cancelled through the API (cancel_active_direct_turn stores no state with it).
BusyRowHasWork ==
    row \in Busy /\ Faultless =>
        \/ Owner # NoKey /\ turn[Owner].mat
        \/ rt /\ (ex.phase \in Busy \/ ex.pc = "settle" \/ WakeEvent \in Range(chan))
        \/ \E k \in Key : turn[k].life = "cancelled"

\* A turn that has ended never changes again, whatever a late attempt, settlement or
\* cancel request brings (terminate's TerminalReplay and AlreadyTerminal answers).
NothingAfterTheEnd ==
    [][\A k \in Key : turn[k].life \in Terminal => turn'[k] = turn[k]]_vars

\* A turn that was seeded after a restart and cancelled before it was materialized is
\* still the executor's active turn: the executor is not told.
StaleActive == ex.active # NoKey /\ turn[ex.active].life = "cancelled" /\ ~turn[ex.active].mat

\* Every accepted turn ends, through busy executors, late leases, cancel requests and
\* restarts: it is claimed again until it is materialized (run_once), and a
\* materialized one is settled.
AcceptedSettles ==
    \A k \in Key : Accepted(k) ~> (~Accepted(k) \/ StaleActive \/ ~Faultless)

\* The executor lets go of a turn that was cancelled in the database while it worked
\* on it (cancel_conversation reads the state again and sends UserCancel).
CancelStopsWork ==
    \A k \in Key :
        (turn[k].life = "cancelled" /\ turn[k].mat /\ ex.active = k) ~>
            (ex.active # k \/ ~Faultless)

\* A wake result is read by a model request in the end (deliver_pending), unless the
\* conversation is in error, a turn was cancelled through the API or the server was
\* restarted meanwhile.
WakeIsHeard ==
    (wake = "pending") ~>
        (heard \/ ex.phase = "error" \/ count.kinds \cap {"restart", "fault"} # {}
               \/ \E k \in Key : turn[k].life = "cancelled")

\* What AcceptedNonterminalTurnsRemainDiscoverable asks: a turn is completed only
\* after its message was delivered.
CompletedWasDelivered ==
    \A k \in Key : turn[k].life = "completed" => turn[k].mat

=============================================================================
