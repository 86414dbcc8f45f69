------------------------------ MODULE Steering ------------------------------
(***************************************************************************)
(* The steering queue of one top-level conversation: messages sent while   *)
(* the conversation is busy, queued and delivered in one batch at the next *)
(* drain point.                                                            *)
(*                                                                         *)
(* The queue has two copies.  `mem' is the executor's; `db' is the         *)
(* steering_messages table.  Three parties write the table without a       *)
(* common lock: the HTTP sender (read, then replace all), the HTTP         *)
(* canceller (delete one), and the executor, which replaces the table by   *)
(* `mem' when it takes in a message and deletes the entries of a batch     *)
(* once they are in the transcript.  `inbox' is the executor's event       *)
(* channel.                                                                *)
(*                                                                         *)
(* The turn itself is abstracted to the phases that accept, hold or drain  *)
(* steering messages; AwaitingSubAgents behaves here like ToolExecuting    *)
(* and CancellingSubAgents like CancellingTool.  The transcript holds the  *)
(* steered messages only.                                                  *)
(***************************************************************************)
EXTENDS Naturals, Sequences, Functions

CONSTANTS
    Msg,          \* message ids of the messages a user may send
    MaxDepth,     \* MAX_STEER_QUEUE_DEPTH (5 in the code)
    MaxCrashes,   \* bound on server crashes
    NoMsg

VARIABLES
    phase,        \* the conversation's phase, as published to the senders
    asked,        \* length of the transcript when the last LLM request was issued
    mem,          \* ConversationRuntime::steering_queue
    db,           \* the rows of steering_messages, by ordinal
    inbox,        \* event_rx: steering events not yet taken in
    transcript,   \* the messages table
    batch,        \* the entries being drained, <<>> when no drain is under way
    todo,         \* those of the batch that are not persisted yet
    lock,         \* holder of steering_acceptance_receipts, or NoMsg
    snapshot,     \* the queue the lock holder has read
    send,         \* per message: how far the request that sends it has come
    cancel,       \* per message: how far the request that cancels it has come
    order,        \* history: messages in the order they were admitted
    crashes       \* history: number of crashes so far

conversation == <<phase, asked>>
requests == <<lock, snapshot, send, order>>
drain == <<batch, todo>>
vars == <<phase, asked, mem, db, inbox, transcript, batch, todo, lock, snapshot,
          send, cancel, order, crashes>>

ASSUME MsgAssumption == NoMsg \notin Msg
ASSUME BoundAssumption == MaxDepth \in Nat \ {0} /\ MaxCrashes \in Nat

Phase == {"Idle", "LlmRequesting", "ToolExecuting", "CancellingTool", "Error"}
Busy == {"LlmRequesting", "ToolExecuting", "CancellingTool"}
SendState == {"new", "busy", "checked", "read", "written", "accepted", "rejected"}
CancelState == {"none", "deleted", "cut", "done", "handled"}
Event == [type : {"steer", "cancel"}, msg : Msg]

\* q without the entries of S, the others in their order.
Without(q, S) ==
    LET kept == {i \in DOMAIN q : q[i] \notin S}
        at == CHOOSE e \in UNION {[1 .. n -> kept] : n \in 0 .. Len(q)} :
                  Range(e) = kept /\ \A i, j \in DOMAIN e : i < j => e[i] < e[j]
    IN  [n \in DOMAIN at |-> q[at[n]]]

\* s is the end of t.
EndOf(s, t) ==
    Len(s) <= Len(t) /\ \A i \in 1 .. Len(s) : s[i] = t[Len(t) - Len(s) + i]

Init ==
    /\ phase = "Idle" /\ asked = 0
    /\ mem = <<>> /\ db = <<>> /\ inbox = <<>> /\ transcript = <<>>
    /\ batch = <<>> /\ todo = <<>>
    /\ lock = NoMsg /\ snapshot = <<>>
    /\ send = [m \in Msg |-> "new"]
    /\ cancel = [m \in Msg |-> "none"]
    /\ order = <<>>
    /\ crashes = 0

-----------------------------------------------------------------------------
(* The HTTP sender.                                                         *)

\* A message that is already in the transcript or in the table is answered
\* without being queued again: the retry of a request that a crash cut off.
SendReplay(m) ==
    /\ send[m] = "new"
    /\ m \in Range(transcript) \/ (lock = NoMsg /\ m \in Range(db))
    /\ send' = [send EXCEPT ![m] = "accepted"]
    /\ UNCHANGED <<conversation, mem, db, inbox, transcript, drain, lock, snapshot,
                   cancel, order, crashes>>

\* The conversation is seen busy.  What follows acts on this observation
\* however long ago it was made.
SendWhileBusy(m) ==
    /\ send[m] = "new"
    /\ m \notin Range(transcript) \union Range(db)
    /\ phase \in Busy
    /\ send' = [send EXCEPT ![m] = "busy"]
    /\ UNCHANGED <<conversation, mem, db, inbox, transcript, drain, lock, snapshot,
                   cancel, order, crashes>>

\* Take the acceptance lock and refuse when the table is full.
EnqueueCheck(m) ==
    /\ send[m] = "busy" /\ lock = NoMsg
    /\ \/ /\ Len(db) >= MaxDepth
          /\ send' = [send EXCEPT ![m] = "rejected"]
          /\ UNCHANGED lock
       \/ /\ Len(db) < MaxDepth
          /\ send' = [send EXCEPT ![m] = "checked"]
          /\ lock' = m
    /\ UNCHANGED <<conversation, mem, db, inbox, transcript, drain, snapshot, cancel,
                   order, crashes>>

\* Read the table again, in enqueue_steer_message.
EnqueueRead(m) ==
    /\ send[m] = "checked"
    /\ snapshot' = db
    /\ send' = [send EXCEPT ![m] = "read"]
    /\ UNCHANGED <<conversation, mem, db, inbox, transcript, drain, lock, cancel,
                   order, crashes>>

\* Replace the table by what was read and the new entry.
EnqueueWrite(m) ==
    /\ send[m] = "read"
    /\ db' = Append(snapshot, m)
    /\ order' = Append(order, m)
    /\ send' = [send EXCEPT ![m] = "written"]
    /\ UNCHANGED <<conversation, mem, inbox, transcript, drain, lock, snapshot,
                   cancel, crashes>>

\* Hand the message to the executor and answer the client.
EnqueueSend(m) ==
    /\ send[m] = "written"
    /\ inbox' = Append(inbox, [type |-> "steer", msg |-> m])
    /\ send' = [send EXCEPT ![m] = "accepted"]
    /\ lock' = NoMsg /\ snapshot' = <<>>
    /\ UNCHANGED <<conversation, mem, db, transcript, drain, cancel, order, crashes>>

-----------------------------------------------------------------------------
(* The HTTP canceller: the table first, then the executor.                  *)

\* A request that a crash cut off after the deletion may be made again.
CancelDelete(m) ==
    /\ send[m] = "accepted" /\ cancel[m] \in {"none", "cut"}
    /\ db' = Without(db, {m})
    /\ cancel' = [cancel EXCEPT ![m] = "deleted"]
    /\ UNCHANGED <<conversation, mem, inbox, transcript, drain, requests, crashes>>

CancelNotify(m) ==
    /\ cancel[m] = "deleted"
    /\ inbox' = Append(inbox, [type |-> "cancel", msg |-> m])
    /\ cancel' = [cancel EXCEPT ![m] = "done"]
    /\ UNCHANGED <<conversation, mem, db, transcript, drain, requests, crashes>>

-----------------------------------------------------------------------------
(* The executor takes in steering events.  It handles nothing else while it *)
(* drains, hence the guard batch = <<>> on every step of its loop.          *)

HandleSteer ==
    /\ batch = <<>> /\ inbox # <<>> /\ Head(inbox).type = "steer"
    /\ mem' = Append(mem, Head(inbox).msg)
    /\ db' = mem'
    /\ inbox' = Tail(inbox)
    /\ UNCHANGED <<conversation, transcript, drain, requests, cancel, crashes>>

\* Faulty variant: cancelling one entry empties the queue.
HandleCancelSteer_All ==
    /\ batch = <<>> /\ inbox # <<>> /\ Head(inbox).type = "cancel"
    /\ mem' = <<>>
    /\ cancel' = [cancel EXCEPT ![Head(inbox).msg] = "handled"]
    /\ inbox' = Tail(inbox)
    /\ UNCHANGED <<conversation, db, transcript, drain, requests, crashes>>

\* Faulty variant: only the head of the queue is compared with the cancelled id.
HandleCancelSteer_HeadOnly ==
    /\ batch = <<>> /\ inbox # <<>> /\ Head(inbox).type = "cancel"
    /\ mem' = IF mem # <<>> /\ Head(mem) = Head(inbox).msg THEN Tail(mem) ELSE mem
    /\ cancel' = [cancel EXCEPT ![Head(inbox).msg] = "handled"]
    /\ inbox' = Tail(inbox)
    /\ UNCHANGED <<conversation, db, transcript, drain, requests, crashes>>

HandleCancelSteer ==
    /\ batch = <<>> /\ inbox # <<>> /\ Head(inbox).type = "cancel"
    /\ mem' = Without(mem, {Head(inbox).msg})
    /\ cancel' = [cancel EXCEPT ![Head(inbox).msg] = "handled"]
    /\ inbox' = Tail(inbox)
    /\ UNCHANGED <<conversation, db, transcript, drain, requests, crashes>>

-----------------------------------------------------------------------------
(* Drain points.                                                            *)

\* Faulty variant: only entering Idle drains, a new LLM round does not.
EnterAtHook_IdleOnly(p) ==
    \/ /\ mem = <<>> \/ p = "LlmRequesting"
       /\ phase' = p
       /\ asked' = IF p = "LlmRequesting" THEN Len(transcript) ELSE asked
       /\ UNCHANGED <<mem, drain>>
    \/ /\ mem # <<>> /\ p = "Idle"
       /\ phase' = "LlmRequesting"
       /\ batch' = mem /\ todo' = mem
       /\ mem' = <<>>
       /\ UNCHANGED asked

\* Entering phase p at a drain point: the whole queue is taken, and the LLM
\* request, deferred, is issued when the entries are persisted.  Entering Idle
\* with a queue goes on to LlmRequesting; the Idle in between is not published.
EnterAtHook(p) ==
    \/ /\ mem = <<>>
       /\ phase' = p
       /\ asked' = IF p = "LlmRequesting" THEN Len(transcript) ELSE asked
       /\ UNCHANGED <<mem, drain>>
    \/ /\ mem # <<>>
       /\ phase' = "LlmRequesting"
       /\ batch' = mem /\ todo' = mem
       /\ mem' = <<>>
       /\ UNCHANGED asked

\* Faulty variant: an entry is inserted without looking whether it is there.
PersistEntry_Blind ==
    /\ todo # <<>>
    /\ transcript' = Append(transcript, Head(todo))
    /\ todo' = Tail(todo)
    /\ UNCHANGED <<conversation, mem, db, inbox, batch, requests, cancel, crashes>>

\* One PersistMessage effect, idempotent.
PersistEntry ==
    /\ todo # <<>>
    /\ transcript' = IF Head(todo) \in Range(transcript) THEN transcript
                     ELSE Append(transcript, Head(todo))
    /\ todo' = Tail(todo)
    /\ UNCHANGED <<conversation, mem, db, inbox, batch, requests, cancel, crashes>>

\* ClearSteeringQueueEntries for the drained ids, then the LLM request.
FinishDrain ==
    /\ batch # <<>> /\ todo = <<>>
    /\ db' = Without(db, Range(batch))
    /\ batch' = <<>>
    /\ asked' = Len(transcript)
    /\ UNCHANGED <<phase, mem, inbox, transcript, todo, requests, cancel, crashes>>

-----------------------------------------------------------------------------
(* The turn.                                                                *)

\* A direct turn starts.
UserTurn ==
    /\ batch = <<>> /\ phase \in {"Idle", "Error"}
    /\ phase' = "LlmRequesting" /\ asked' = Len(transcript)
    /\ UNCHANGED <<mem, db, inbox, transcript, drain, requests, cancel, crashes>>

LlmTools ==
    /\ batch = <<>> /\ phase = "LlmRequesting"
    /\ phase' = "ToolExecuting"
    /\ UNCHANGED <<asked, mem, db, inbox, transcript, drain, requests, cancel, crashes>>

LlmText ==
    /\ batch = <<>> /\ phase = "LlmRequesting"
    /\ EnterAtHook("Idle")
    /\ UNCHANGED <<db, inbox, transcript, requests, cancel, crashes>>

LlmFails ==
    /\ batch = <<>> /\ phase = "LlmRequesting"
    /\ phase' = "Error"
    /\ UNCHANGED <<asked, mem, db, inbox, transcript, drain, requests, cancel, crashes>>

ToolsDone ==
    /\ batch = <<>> /\ phase = "ToolExecuting"
    /\ EnterAtHook("LlmRequesting")
    /\ UNCHANGED <<db, inbox, transcript, requests, cancel, crashes>>

CancelTurn ==
    /\ batch = <<>>
    /\ \/ phase = "LlmRequesting" /\ EnterAtHook("Idle")
       \/ phase = "ToolExecuting" /\ phase' = "CancellingTool" /\ UNCHANGED <<asked, mem, drain>>
    /\ UNCHANGED <<db, inbox, transcript, requests, cancel, crashes>>

ToolAborted ==
    /\ batch = <<>> /\ phase = "CancellingTool"
    /\ EnterAtHook("Idle")
    /\ UNCHANGED <<db, inbox, transcript, requests, cancel, crashes>>

\* Clearing an error banner enters Idle without draining.
DismissError ==
    /\ batch = <<>> /\ phase = "Error"
    /\ phase' = "Idle"
    /\ UNCHANGED <<asked, mem, db, inbox, transcript, drain, requests, cancel, crashes>>

\* A turn that was interrupted after a tool round is resumed when the last
\* assistant message carried no text, which is not modelled: hence the choice.
ResumePhases(p) ==
    IF p \in {"LlmRequesting", "ToolExecuting"} THEN {"Idle", "LlmRequesting"} ELSE {"Idle"}

\* The server stops and starts again.  The executor is seeded from the table;
\* requests under way are cut off, and what they hold is lost.
Restart ==
    /\ crashes < MaxCrashes
    /\ crashes' = crashes + 1
    /\ phase' \in ResumePhases(phase)
    /\ asked' = IF phase' = "LlmRequesting" THEN Len(transcript) ELSE asked
    /\ mem' = db
    /\ inbox' = <<>> /\ batch' = <<>> /\ todo' = <<>>
    /\ lock' = NoMsg /\ snapshot' = <<>>
    /\ send' = [m \in Msg |-> IF send[m] \in {"busy", "checked", "read", "written"} THEN "new"
                              ELSE send[m]]
    /\ cancel' = [m \in Msg |-> IF cancel[m] = "deleted" THEN "cut" ELSE cancel[m]]
    /\ UNCHANGED <<db, transcript, order>>

-----------------------------------------------------------------------------

LlmAnswers == LlmTools \/ LlmText \/ LlmFails

Next ==
    \/ \E m \in Msg :
          \/ SendReplay(m) \/ SendWhileBusy(m)
          \/ EnqueueCheck(m) \/ EnqueueRead(m) \/ EnqueueWrite(m) \/ EnqueueSend(m)
          \/ CancelDelete(m) \/ CancelNotify(m)
    \/ HandleSteer \/ HandleCancelSteer \/ PersistEntry \/ FinishDrain
    \/ UserTurn \/ LlmAnswers \/ ToolsDone \/ CancelTurn \/ ToolAborted \/ DismissError
    \/ Restart

\* The executor's loop is scheduled, an LLM request and a tool finish (both run
\* under timeouts), and a request handler that has begun runs to its end.  That
\* a user sends, cancels or dismisses anything is not assumed.
Fairness ==
    /\ WF_vars(HandleSteer) /\ WF_vars(HandleCancelSteer)
    /\ WF_vars(PersistEntry) /\ WF_vars(FinishDrain)
    /\ WF_vars(LlmAnswers) /\ WF_vars(ToolsDone) /\ WF_vars(ToolAborted)
    /\ \A m \in Msg : WF_vars(EnqueueCheck(m) \/ EnqueueRead(m) \/ EnqueueWrite(m) \/ EnqueueSend(m))

Spec == Init /\ [][Next]_vars /\ Fairness

-----------------------------------------------------------------------------
(* Properties.                                                              *)

\* Every variable has its type; in particular at most one sender holds the
\* acceptance lock, and a drain persists what it took and nothing else.
TypeOK ==
    /\ phase \in Phase /\ asked \in 0 .. Len(transcript)
    /\ {mem, db, transcript, batch, todo, snapshot, order} \subseteq Seq(Msg)
    /\ inbox \in Seq(Event)
    /\ EndOf(todo, batch)
    /\ lock \in Msg \union {NoMsg}
    /\ send \in [Msg -> SendState] /\ cancel \in [Msg -> CancelState]
    /\ \A m \in Msg : send[m] \in {"checked", "read", "written"} <=> lock = m
    /\ crashes \in 0 .. MaxCrashes

\* Cancelled messages are those whose cancellation has at least reached the table.
Cancelled(m) == cancel[m] # "none"

\* However sends, cancellations and drains interleave, until the process crashes
\* a message that was accepted and not cancelled is in the transcript or still on
\* its way there through the executor: queued, in its channel or in the batch
\* being drained.
NothingLost == crashes = 0 =>
    \A m \in Msg : send[m] = "accepted" /\ ~Cancelled(m) =>
        \/ m \in Range(transcript) \union Range(mem) \union Range(todo)
        \/ [type |-> "steer", msg |-> m] \in Range(inbox)

\* Once the executor has taken in a cancellation, the message does not enter the
\* transcript any more, as long as the process lives.
CancelEffective ==
    [][\A m \in Msg : crashes = 0 /\ cancel[m] = "handled" /\ m \in Range(transcript')
                        => m \in Range(transcript)]_vars

\* When an LLM response ends a turn, the request it answers was issued after the
\* last steered message had been persisted: no steered message is left in the
\* transcript of an idle conversation without a request that saw it.
NothingUnanswered ==
    [][LlmText => asked = Len(transcript)]_vars

\* A message queued while the conversation is busy leaves the queue, unless the
\* turn ends in an error or the process crashes.
QueuedWhileBusyIsDrained ==
    \A m \in Msg :
        (m \in Range(mem) /\ phase \in Busy)
            ~> (m \notin Range(mem) \/ phase = "Error" \/ crashes > 0)

\* Across crashes at any point of a drain, no message is inserted twice.
NoDoubleInsertion == IsInjective(transcript)

\* Messages that nobody cancels enter the transcript in the order in which they
\* were admitted, across batches, cancellations of others and crashes.
FifoDelivery ==
    \A i, j \in DOMAIN transcript :
        i < j /\ ~Cancelled(transcript[i]) /\ ~Cancelled(transcript[j]) =>
        \E k, l \in DOMAIN order : k < l /\ order[k] = transcript[i] /\ order[l] = transcript[j]

\* What the code claims (executive.md, P1): once a message is accepted, a crash
\* does not lose it; it is in the table or in the transcript.
AcceptedIsDurable ==
    \A m \in Msg : send[m] = "accepted" /\ ~Cancelled(m) =>
        m \in Range(db) \union Range(transcript)

\* What the code claims (rule CancelSteeringMessage): when the cancel request
\* has been answered, and even once the executor has taken it in, the entry is
\* not in the table.
CancelIsDurable ==
    \A m \in Msg : cancel[m] = "handled" => m \notin Range(db)

\* What the code claims (executive.md, at-least-once delivery): an accepted
\* message is delivered unless it is cancelled.  Stated for the runs in which no
\* turn fails, since a failed turn documentedly holds the queue back.
AcceptedIsDelivered ==
    [](phase # "Error") =>
        \A m \in Msg :
            (send[m] = "accepted") ~> (m \in Range(transcript) \/ Cancelled(m))

=============================================================================
