----------------------------- MODULE EventStream -----------------------------
(***************************************************************************)
(* The event stream of one conversation, from the tasks that broadcast to  *)
(* the reducer of one browser page.                                        *)
(*                                                                         *)
(* Server: SseBroadcaster (runtime.rs) numbers every event from one        *)
(* counter, keeps those that are in no database row in a bounded           *)
(* ReplayRing, and holds back later events while a reserved persisted      *)
(* message is being written.  The executor and the other tasks that hold a *)
(* clone of it (token forwarder, wake worker, creation worker, ...)        *)
(* interleave between taking a number, writing the row, changing the ring  *)
(* and sending.  stream_conversation (handlers.rs) subscribes, snapshots   *)
(* the ring, then reads the database.                                      *)
(*                                                                         *)
(* Client: conversationReducer (atom.ts) applies events strictly in order, *)
(* holding back those that are ahead, and merges init snapshots.           *)
(*                                                                         *)
(* Events are records [seq, kind, val]: "msg" is a persisted message, its  *)
(* row numbered like the event; "state" carries a phase, stored in the row *)
(* of the conversation before it is broadcast; "other" stands for every    *)
(* event that leaves nothing durable (tokens, eager messages, updates).    *)
(***************************************************************************)
EXTENDS Integers, Sequences, SequencesExt, FiniteSets, FiniteSetsExt

CONSTANTS
    Worker,      \* tasks other than the executor that hold the broadcaster
    RingCap,     \* REPLAY_RING_CAPACITY
    Window,      \* DEFAULT_MESSAGE_HISTORY_LIMIT
    MaxStored,   \* bound: messages stored before the first stream is opened
    MaxNew,      \* bound: sequence numbers handed out after them
    MaxPhase,    \* bound: state changes
    MaxFault,    \* bound: failed writes and process restarts
    MaxLoad,     \* bound: what is under way when a broadcast begins
    MaxOpen      \* bound: streams opened by the page

ASSUME StreamAssumption ==
    /\ {RingCap, Window} \subseteq Nat \ {0}
    /\ {MaxStored, MaxNew, MaxPhase, MaxFault, MaxLoad, MaxOpen} \subseteq Nat
    /\ "exec" \notin Worker

MaxSeq == MaxStored + MaxNew

Exec == "exec"

Task == Worker \cup {Exec}

\* An event without a number yet has seq 0.
Event == [seq: 0..MaxSeq, kind: {"msg", "state", "other"}, val: 0..MaxPhase]

VARIABLES
    base,      \* messages stored at the start (never changes)
    rows,      \* sequence ids of the persisted messages (table messages)
    phase,     \* the conversation's stored state
    tip,       \* SseBroadcaster.last_seq
    ring,      \* ReplayRing: [entries, anchor, truncated], and history [top, holed]
    gate,      \* BroadcastGate: [until (0 = none), queued]
    task,      \* task[t]: [at, ev, holds]: where t is in a broadcast
    stream,    \* the open stream: [at, queue, snap]
    atom,      \* the page's ConversationAtom: [last, held, phase, msgs], and
               \* history: the events after its last message it applied (live),
               \* the stored messages the last init left out (beyond)
    lost,      \* TRUE iff the stream was opened, or went on, over a known hole
    faults,    \* failed writes and restarts so far
    opens      \* streams opened so far

vars == <<base, rows, phase, tip, ring, gate, task, stream, atom, lost, faults, opens>>

server == <<base, rows, phase, tip, ring, gate, task>>

-----------------------------------------------------------------------------
(* The reducer.                                                            *)

Seqs(E) == {e.seq : e \in E}

MaxOf(S) == Max(S \cup {0})

\* createInitialAtom: a page that has applied nothing.
FreshAtom ==
    [last |-> 0, held |-> {}, phase |-> 0, msgs |-> {}, live |-> {}, beyond |-> {}]

\* drainBufferedEventEnvelopes: the events that follow `last` without a gap are
\* applied in order; the rest stays held back (eventGap).
Drain(a) ==
    LET run    == {e \in a.held : (a.last + 1)..e.seq \subseteq Seqs(a.held)}
        states == {e \in run : e.kind = "state"}
        msgs   == a.msgs \cup Seqs({e \in run : e.kind = "msg"})
    IN  [a EXCEPT
            !.last  = MaxOf({@} \cup Seqs(run)),
            !.held  = @ \ run,
            !.phase = IF states = {} THEN @
                      ELSE (CHOOSE e \in states : e.seq = MaxOf(Seqs(states))).val,
            !.msgs  = msgs,
            !.live  = {n \in @ \cup Seqs(run) : n > MaxOf(msgs)}]

\* Faulty variant: the event is applied whatever is missing before it.
Receive_Skips(a, e) ==
    IF e.seq <= a.last THEN a
    ELSE Drain([a EXCEPT !.last = e.seq - 1,
                         !.held = {f \in a.held : f.seq > e.seq} \cup {e}])

\* applyContiguousWireAction.
Receive(a, e) ==
    IF e.seq <= a.last THEN a
    ELSE Drain([a EXCEPT !.held = {f \in a.held : f.seq # e.seq} \cup {e}])

\* Phase 1 of sse_init: the floor above which pending events are replayed.
Floor(a, s) == MaxOf(s.rows \cup {IF a.last = 0 THEN s.anchor ELSE a.last})

\* sse_init: snapshot, replay of the pending events, and the truncated case.
\* The snapshot is always a suffix, merged unless the page knows nothing yet; the
\* cursor is raised to its end, whatever was stored between the two.
InitApplied(a, s, ph) ==
    LET floor == Floor(a, s)
        next  == Drain([a EXCEPT
                           !.last   = floor,
                           !.held   = {e \in s.pending : e.seq > floor},
                           !.phase  = ph,
                           !.msgs   = (IF a.last = 0 THEN {} ELSE @) \cup s.rows,
                           !.beyond = s.beyond])
    IN  IF s.truncated
        THEN [next EXCEPT !.last = MaxOf(s.rows \cup {s.highest}), !.held = {}]
        ELSE next

-----------------------------------------------------------------------------
(* The broadcaster.                                                        *)

NoEvent == [seq |-> 0, kind |-> "other", val |-> 0]

IdleTask == [at |-> "idle", ev |-> NoEvent, holds |-> FALSE]

Releasing == [at |-> "release", ev |-> NoEvent, holds |-> TRUE]

\* ReplayRing::reset.  `top` and `holed` are history: the highest number that
\* has passed through the ring or been given up, and whether a number above
\* the anchor is in nothing a new subscriber is given.
Anchored(r, seq) ==
    [entries |-> {}, anchor |-> seq, truncated |-> FALSE,
     top |-> MaxOf({r.top, seq}), holed |-> r.top > seq]

\* ReplayRing::append.
Appended(r, e) ==
    LET full == Cardinality(r.entries) >= RingCap
    IN  IF r.truncated \/ e.seq <= r.anchor
        THEN [r EXCEPT !.top = MaxOf({r.top, e.seq})]
        ELSE [r EXCEPT !.entries   = IF full THEN {} ELSE @ \cup {e},
                       !.truncated = full,
                       !.top       = MaxOf({r.top, e.seq})]

\* The ring operation of an event (RingOp).
InRing(r, e) == IF e.kind = "msg" THEN Anchored(r, e.seq) ELSE Appended(r, e)

\* send_with_ring holds an event back while a range below it is reserved.
HeldBack(e) == gate.until # 0 /\ e.seq > gate.until

\* tx.send: a channel without a receiver drops the event.
Posted(s, e) == IF s.at = "down" THEN s ELSE [s EXCEPT !.queue = Append(@, e)]

TypeOK ==
    /\ base \in 0..MaxStored /\ rows \subseteq 1..MaxSeq /\ phase \in 0..MaxPhase /\ tip \in 0..MaxSeq
    /\ ring \in [entries: SUBSET Event, anchor: 0..MaxSeq, truncated: BOOLEAN,
                 top: 0..MaxSeq, holed: BOOLEAN]
    /\ gate \in [until: 0..MaxSeq, queued: SUBSET Event]
    /\ task \in [Task -> [at: {"idle", "commit", "send", "route", "post", "release"},
                          ev: Event, holds: BOOLEAN]]
    /\ stream.at \in {"down", "subscribed", "snapshot", "read", "open"}
    /\ atom.last \in 0..MaxSeq /\ atom.held \subseteq Event
    /\ atom.phase \in 0..MaxPhase
    /\ atom.msgs \cup atom.live \cup atom.beyond \subseteq 1..MaxSeq
    /\ lost \in BOOLEAN /\ faults \in 0..MaxFault /\ opens \in 0..MaxOpen

-----------------------------------------------------------------------------
(* Broadcasting.  Each step below ends at a point where another task may    *)
(* run: a database write, or the release of the gate or ring mutex.         *)

NewRing(seq) ==
    [entries |-> {}, anchor |-> seq, truncated |-> FALSE, top |-> seq, holed |-> FALSE]

NoSnap ==
    [anchor |-> 0, truncated |-> FALSE, highest |-> 0, pending |-> {}, rows |-> {},
     beyond |-> {}]

NoStream == [at |-> "down", queue |-> <<>>, snap |-> NoSnap]

Init ==
    /\ base \in 0..MaxStored
    /\ rows = 1..base /\ phase = 0 /\ tip = base
    /\ ring = NewRing(base)
    /\ gate = [until |-> 0, queued |-> {}]
    /\ task = [t \in Task |-> IdleTask]
    /\ stream = NoStream
    /\ atom = FreshAtom
    /\ lost = FALSE /\ faults = 0 /\ opens = 0

\* A task whose event has been sent gives up its range, if it holds one.
Sent(t) == [task EXCEPT ![t] = IF @.holds THEN Releasing ELSE IdleTask]

\* What is under way: broadcasts, events on their way, a stream being opened.
Load == Cardinality({t \in Task : task[t].at # "idle"}) + Cardinality(gate.queued)
        + Len(stream.queue) + (IF stream.at \in {"down", "open"} THEN 0 ELSE 1)

\* Bounds: a number is left for what a task begins, and not too much is under
\* way when it begins.
Room(t) ==
    /\ task[t].at = "idle" /\ Load < MaxLoad
    /\ tip + (IF task[Exec].at = "send" THEN 1 ELSE 0) < base + MaxNew

\* next_seq.
Numbered(t, at, kind, val, holds) ==
    /\ tip' = tip + 1
    /\ task' = [task EXCEPT ![t] =
                   [at |-> at, holds |-> holds,
                    ev |-> [seq |-> tip + 1, kind |-> kind, val |-> val]]]

\* persist_state_effect: the row is updated before the event is numbered.
PersistState ==
    /\ Room(Exec) /\ phase < MaxPhase
    /\ phase' = phase + 1
    /\ task' = [task EXCEPT ![Exec] =
                   [at |-> "send", ev |-> [NoEvent EXCEPT !.kind = "state", !.val = phase + 1],
                    holds |-> FALSE]]
    /\ UNCHANGED <<base, rows, tip, ring, gate, stream, atom, lost, faults, opens>>

SendState ==
    /\ task[Exec].at = "send"
    /\ Numbered(Exec, "route", "state", task[Exec].ev.val, FALSE)
    /\ UNCHANGED <<base, rows, phase, ring, gate, stream, atom, lost, faults, opens>>

\* send_seq, and send_ephemeral_message.  (The executor's own go the way of
\* SendState.)
SendOther(t) ==
    /\ Room(t)
    /\ Numbered(t, "route", "other", 0, FALSE)
    /\ UNCHANGED <<base, rows, phase, ring, gate, stream, atom, lost, faults, opens>>

\* Effect::PersistMessage and the other writes that number their message
\* without reserving it.
NumberMessage ==
    /\ Room(Exec)
    /\ Numbered(Exec, "commit", "msg", 0, FALSE)
    /\ UNCHANGED <<base, rows, phase, ring, gate, stream, atom, lost, faults, opens>>

\* reserve_next_persisted_message_range(1): checkpoints, direct turns,
\* continuations, wake deliveries.  Two tasks may hold a range at once.
Reserve(t) ==
    /\ Room(t)
    /\ Numbered(t, "commit", "msg", 0, TRUE)
    /\ gate' = [gate EXCEPT !.until = tip + 1]
    /\ UNCHANGED <<base, rows, phase, ring, stream, atom, lost, faults, opens>>

\* The row is durable.
Commit(t) ==
    /\ task[t].at = "commit"
    /\ rows' = rows \cup {task[t].ev.seq}
    /\ task' = [task EXCEPT ![t].at = "route"]
    /\ UNCHANGED <<base, phase, tip, ring, gate, stream, atom, lost, faults, opens>>

\* send_reserved_seq: a continuation that was refused fills its number with the
\* stored state.
FillReserved ==
    /\ task[Exec].at = "commit" /\ task[Exec].holds
    /\ task' = [task EXCEPT ![Exec].at = "route", ![Exec].ev.kind = "state",
                            ![Exec].ev.val = phase]
    /\ UNCHANGED <<base, rows, phase, tip, ring, gate, stream, atom, lost, faults, opens>>

\* The write fails or is refused, and the number is never used.
Abandon(t) ==
    /\ task[t].at = "commit" /\ faults < MaxFault
    /\ faults' = faults + 1
    /\ task' = Sent(t)
    /\ ring' = [ring EXCEPT !.top = MaxOf({@, task[t].ev.seq}), !.holed = TRUE]
    /\ lost' = (lost \/ stream.at # "down")
    /\ UNCHANGED <<base, rows, phase, tip, gate, stream, atom, opens>>

\* send_with_ring: past the gate and into the ring.
Route(t) ==
    /\ task[t].at = "route"
    /\ \/ /\ HeldBack(task[t].ev)
          /\ gate' = [gate EXCEPT !.queued = @ \cup {task[t].ev}]
          /\ task' = Sent(t)
          /\ UNCHANGED ring
       \/ /\ ~HeldBack(task[t].ev)
          /\ ring' = InRing(ring, task[t].ev)
          /\ task' = [task EXCEPT ![t].at = "post"]
          /\ UNCHANGED gate
    /\ UNCHANGED <<base, rows, phase, tip, stream, atom, lost, faults, opens>>

Post(t) ==
    /\ task[t].at = "post"
    /\ stream' = Posted(stream, task[t].ev)
    /\ task' = Sent(t)
    /\ UNCHANGED <<base, rows, phase, tip, ring, gate, atom, lost, faults, opens>>

\* Faulty variant: what was held back is dropped with the range.
Release_Discards(t) ==
    /\ task[t].at = "release"
    /\ gate' = [until |-> 0, queued |-> {}]
    /\ task' = [task EXCEPT ![t] = IdleTask]
    /\ UNCHANGED <<base, rows, phase, tip, ring, stream, atom, lost, faults, opens>>

\* release_reserved_range: what was held back follows in order.
Release(t) ==
    LET queued == SetToSortSeq(gate.queued, LAMBDA e, f : e.seq < f.seq)
    IN  /\ task[t].at = "release"
        /\ ring' = FoldLeft(InRing, ring, queued)
        /\ stream' = FoldLeft(Posted, stream, queued)
        /\ gate' = [until |-> 0, queued |-> {}]
        /\ task' = [task EXCEPT ![t] = IdleTask]
        /\ UNCHANGED <<base, rows, phase, tip, atom, lost, faults, opens>>

-----------------------------------------------------------------------------
(* Opening a stream: stream_conversation.                                  *)

\* The receiver exists before anything is read.
Subscribe ==
    /\ stream.at = "down" /\ opens < MaxOpen
    /\ stream' = [NoStream EXCEPT !.at = "subscribed"]
    /\ opens' = opens + 1
    /\ lost' = FALSE
    /\ UNCHANGED <<server, atom, faults>>

\* ReplayRing::snapshot_after, for the cursor of a page that has applied events.
Served(cursor) ==
    /\ ~ring.truncated
    /\ cursor \in ring.anchor..MaxOf({ring.anchor} \cup Seqs(ring.entries))

\* Faulty variant: a cursor the ring cannot serve has no full snapshot to fall
\* back to.
Snapshot_NoFallback ==
    /\ stream.at = "subscribed" /\ (atom.last > 0 => Served(atom.last))
    /\ stream' = [stream EXCEPT
          !.at = "snapshot",
          !.snap = [NoSnap EXCEPT
              !.anchor = ring.anchor, !.truncated = ring.truncated,
              !.pending = {e \in ring.entries : e.seq > atom.last},
              !.highest = MaxOf({ring.anchor} \cup Seqs(ring.entries))]]
    /\ lost' = (lost \/ ring.holed \/ ring.truncated)
    /\ UNCHANGED <<server, atom, faults, opens>>

\* snapshot_pending_for_stream.
Snapshot ==
    LET cursor  == atom.last
        pending == IF ring.truncated THEN {}
                   ELSE IF cursor > 0 /\ Served(cursor)
                        THEN {e \in ring.entries : e.seq > cursor}
                        ELSE ring.entries
    IN  /\ stream.at = "subscribed"
        /\ stream' = [stream EXCEPT
              !.at = "snapshot",
              !.snap = [NoSnap EXCEPT
                  !.anchor = ring.anchor, !.truncated = ring.truncated,
                  !.pending = pending,
                  !.highest = IF ring.truncated THEN ring.anchor
                              ELSE MaxOf({ring.anchor} \cup Seqs(ring.entries))]]
        /\ lost' = (lost \/ ring.holed \/ ring.truncated)
        /\ UNCHANGED <<server, atom, faults, opens>>

\* A number at or below the floor the page will start from belongs to a message
\* that is not stored yet, or to no event of this process at all.
Overtaken ==
    LET floor == MaxOf(rows \cup {atom.last})
    IN  \/ \E t \in Task : task[t].at = "commit" /\ task[t].ev.seq <= floor
        \/ floor > tip

\* get_latest_aligned_messages: the latest messages, up to the limit, and those
\* before them that belong to the same unit on the page.
LatestAligned ==
    {w \in {{r \in rows : r >= from} : from \in 0..MaxSeq} :
        w = rows \/ Cardinality(w) >= Window}

\* read_stream_init_messages_with_tail.  The page never sends its transcript
\* generation with a cursor, so it is given the latest messages, also when it has
\* missed more than those.
ReadRows ==
    /\ stream.at = "snapshot"
    /\ \E w \in LatestAligned :
          stream' = [stream EXCEPT !.at = "read", !.snap.rows = w,
                                   !.snap.beyond = rows \ (w \cup atom.msgs)]
    /\ tip' = MaxOf(rows \cup {tip, stream.snap.highest})
    /\ lost' = (lost \/ Overtaken)
    /\ UNCHANGED <<base, rows, phase, ring, gate, task, atom, faults, opens>>

\* The conversation row is read last; the init event goes out before what the
\* receiver has collected, and the page applies it.
InitArrives ==
    /\ stream.at = "read"
    /\ atom' = InitApplied(atom, stream.snap, phase)
    /\ stream' = [stream EXCEPT !.at = "open", !.snap = NoSnap]
    /\ UNCHANGED <<server, lost, faults, opens>>

Deliver ==
    /\ stream.at = "open" /\ stream.queue # <<>>
    /\ atom' = Receive(atom, Head(stream.queue))
    /\ stream' = [stream EXCEPT !.queue = Tail(@)]
    /\ UNCHANGED <<server, lost, faults, opens>>

\* The connection breaks, or the receiver lags and sse_stream ends the stream.
\* The client opens another.  (A stream that breaks before its init arrives
\* leaves the page as it was.)
Drop ==
    /\ stream.at = "open" /\ opens < MaxOpen
    /\ stream' = NoStream
    /\ UNCHANGED <<server, atom, lost, faults, opens>>

\* The process restarts: broadcaster and tasks are gone, the next broadcaster is
\* numbered from the last stored message (conversation_broadcaster).
Restart ==
    /\ faults < MaxFault /\ opens < MaxOpen
    /\ faults' = faults + 1
    /\ task' = [t \in Task |-> IdleTask]
    /\ gate' = [until |-> 0, queued |-> {}]
    /\ tip' = MaxOf(rows)
    /\ ring' = NewRing(MaxOf(rows))
    /\ stream' = NoStream
    /\ UNCHANGED <<base, rows, phase, atom, lost, opens>>

Broadcast ==
    \/ SendState \/ FillReserved
    \/ \E t \in Task : Commit(t) \/ Route(t) \/ Post(t) \/ Release(t)

Serve == Subscribe \/ Snapshot \/ ReadRows \/ InitArrives \/ Deliver

Next ==
    \/ Broadcast \/ Serve
    \/ PersistState \/ NumberMessage
    \/ \E t \in Worker : SendOther(t)
    \/ \E t \in Task : Reserve(t) \/ Abandon(t)
    \/ Drop \/ Restart

Spec == Init /\ [][Next]_vars

\* Tasks finish the broadcasts they began, the server answers a request, what
\* is sent arrives, and the client opens a stream whenever it has none.
\* (One condition for all: no step of these can starve another for ever.)
FairSpec == Spec /\ WF_vars(Broadcast \/ Serve)

-----------------------------------------------------------------------------
Quiet ==
    /\ stream.at = "open" /\ stream.queue = <<>>
    /\ \A t \in Task : task[t].at = "idle"

\* The page shows what is stored, save what lay beyond the window of an init, has
\* applied every event the ring would replay, and waits for the next event to be
\* sent.
CaughtUp ==
    /\ atom.msgs = rows \ atom.beyond /\ atom.phase = phase
    /\ Seqs(ring.entries) \subseteq atom.live
    /\ atom.held = {} /\ atom.last = tip

\* When the server has sent what it had to send, a page whose stream was opened
\* over no hole has caught up: subscribing before the snapshot, the snapshot
\* before the rows, the ring, the gate and the reducer's buffer together lose
\* nothing but what an init leaves out for its length, whatever the tasks did
\* between the steps of the handshake.
NoLoss == Quiet /\ ~lost => CaughtUp

\* runtime.rs promises the same of every stream, holes or not: "the client
\* reconnects, `init` replays current state, and no silent gap results".
NoSilentGap == Quiet => atom.msgs = rows

\* At every moment the page's cursor tells the truth: no stored message, and no
\* event the ring holds for replay, has a number the page has passed without
\* applying it, but for the messages an init left out for its length
\* (InitSnapshotNoDurableGap).
NothingSkipped ==
    stream.at = "open" /\ ~lost =>
        /\ rows \cap 1..atom.last \subseteq atom.msgs \cup atom.beyond
        /\ Seqs(ring.entries) \cap (MaxOf(rows) + 1)..atom.last \subseteq atom.live

\* sse.rs says of a page that reconnects: "the next `init` event pulls in
\* everything that was in the gap".  What the page has passed and does not show
\* would then be older than all it shows.
ShownIsATail ==
    stream.at = "open" /\ ~lost =>
        \A r \in (rows \cap 1..atom.last) \ atom.msgs, m \in atom.msgs : r < m

\* The cursor goes back only when an init says that the ring overflowed: an
\* event is never applied twice to the same page.
CursorAdvances ==
    [][atom'.last >= atom.last \/ stream.snap.truncated]_vars

\* Whatever breaks, the page ends with an open stream and, unless that stream
\* was opened over a hole, everything there is to show.
StreamSettles == <>[](Quiet /\ (lost \/ CaughtUp))

=============================================================================
