-------------------------- MODULE ConnectionMachine --------------------------
(***************************************************************************)
(* The page's connection to the event stream: the pure machine of          *)
(* connectionMachine.ts and the hook that runs its effects                 *)
(* (useConnection.ts).  One conversation page is open at a time; the user  *)
(* moves between conversations, the hook is mounted anew, the browser goes *)
(* offline and back, streams fail, timers fire, and events of an           *)
(* EventSource that was closed may still be in the task queue.             *)
(*                                                                         *)
(* JavaScript runs one callback at a time, so a transition and the effects *)
(* it returns are one step; dispatchMachine reads the machine's state from *)
(* a ref that it has already updated.                                      *)
(***************************************************************************)
EXTENDS Integers, Sequences

CONSTANTS
    Conv,          \* conversations
    NoConv,        \* no conversation is open
    Threshold,     \* OFFLINE_THRESHOLD
    MaxFail,       \* bound: streams that fail
    MaxFlip,       \* bound: times the browser goes offline
    MaxMove        \* bound: conversations opened, tab switches, manual retries

ASSUME ConnectionAssumption ==
    /\ NoConv \notin Conv
    /\ {Threshold, MaxFail, MaxFlip, MaxMove} \subseteq Nat

VARIABLES
    m,         \* ConnectionMachineState: [state, attempt, waits, epoch]
    conv,      \* conversationIdRef
    es,        \* eventSourceRef: [conv, epoch, at, id], NoSource for null
    late,      \* the source last replaced, which may have an event in the queue
    retry,     \* retryTimeoutRef: the timer's owner, NoTimer if none is set
    display,   \* reconnectedTimeoutRef, likewise
    atom,      \* atom[c]: connectionEpoch of c's atom, 0 for null
    shown,     \* whether the page's atom has taken the init of the source in es
    onLine,    \* navigator.onLine
    events,    \* the window's online and offline events still to be dispatched
    fails, flips, moves    \* what the bounds count

vars == <<m, conv, es, late, retry, display, atom, shown, onLine, events,
          fails, flips, moves>>

spent == <<fails, flips, moves>>

\* ConnectionMachineState and EventSource, field by field.
Machine(state, attempt, waits, epoch) ==
    [state |-> state, attempt |-> attempt, waits |-> waits, epoch |-> epoch]

EventSource(c, epoch, at, id) == [conv |-> c, epoch |-> epoch, at |-> at, id |-> id]

State == {"disconnected", "connecting", "connected", "reconnecting", "offline",
          "reconnected"}

MachineState == [state: State, attempt: Nat, waits: BOOLEAN, epoch: Nat]

Source == [conv: Conv \cup {NoConv}, epoch: Nat,
           at: {"none", "opening", "open", "mute", "closed"}, id: 0..2]

NoSource == EventSource(NoConv, 0, "none", 0)

NoTimer == [conv |-> NoConv, epoch |-> 0]

Timer == [conv: Conv \cup {NoConv}, epoch: Nat]

Move == moves < MaxMove /\ moves' = moves + 1 /\ UNCHANGED <<fails, flips>>

Fail == fails < MaxFail /\ fails' = fails + 1 /\ UNCHANGED <<flips, moves>>

TypeOK ==
    /\ m \in MachineState
    /\ conv \in Conv \cup {NoConv}
    /\ es \in Source /\ es.at # "closed" /\ late \in Source /\ retry \in Timer /\ display \in Timer
    /\ atom \in [Conv -> Nat] /\ shown \in BOOLEAN
    /\ onLine \in BOOLEAN /\ events \in Seq({"online", "offline"})
    /\ fails \in 0..MaxFail /\ flips \in 0..MaxFlip /\ moves \in 0..MaxMove

Init ==
    /\ m = Machine("disconnected", 0, FALSE, 0)
    /\ conv = NoConv /\ es = NoSource /\ late = NoSource
    /\ retry = NoTimer /\ display = NoTimer
    /\ atom = [c \in Conv |-> 0] /\ shown = FALSE
    /\ onLine = TRUE /\ events = <<>>
    /\ fails = 0 /\ flips = 0 /\ moves = 0

-----------------------------------------------------------------------------
(* Effects.                                                                *)

\* An EventSource that is closed may have an event in the task queue; the model
\* keeps the last one.
Closed == IF es = NoSource THEN late ELSE EventSource(es.conv, es.epoch, "closed", es.id)

CLOSE_SSE == late' = Closed /\ es' = NoSource

\* OPEN_SSE for conversation c: the source there is is closed, the atom is told
\* of the new epoch (connection_opened, strictly monotonic), a source is opened.
OPEN_SSE(c, epoch, atoms) ==
    /\ late' = Closed
    /\ es' = EventSource(c, epoch, "opening", IF late'.id = 1 THEN 2 ELSE 1)
    /\ atom' = IF epoch <= atoms[c] THEN atoms ELSE [atoms EXCEPT ![c] = epoch]
    /\ shown' = FALSE

CANCEL_TIMERS == retry' = NoTimer /\ display' = NoTimer

Owner == [conv |-> conv, epoch |-> m.epoch]

-----------------------------------------------------------------------------
(* The conversation effect: leaving and opening a conversation.            *)

\* DISCONNECT.
Disconnected(epoch) == Machine("disconnected", 0, FALSE, epoch)

\* CONNECT, from disconnected.
Connecting(epoch) == Machine("connecting", 0, FALSE, epoch)

\* The cleanup of the last run disconnects; the new run resets c's atom and
\* connects.  A hook mounted anew starts from initialState.
Enter(c) ==
    /\ Move
    /\ \E epoch \in {m.epoch, 0} :
          /\ m' = Connecting(epoch + 1)
          /\ OPEN_SSE(c, epoch + 1, [atom EXCEPT ![c] = 0])
    /\ conv' = c
    /\ CANCEL_TIMERS
    /\ UNCHANGED <<onLine, events>>

Leave ==
    /\ conv # NoConv
    /\ conv' = NoConv
    /\ m' = Disconnected(m.epoch)
    /\ CLOSE_SSE /\ CANCEL_TIMERS
    /\ UNCHANGED <<atom, shown, onLine, events, spent>>

-----------------------------------------------------------------------------
(* Events of an EventSource.                                               *)

\* Faulty variant: conversation and epoch are taken to identify the source.
IsCurrentOwner_ByEpoch(s) == conv = s.conv /\ m.epoch = s.epoch

\* isCurrentOwner.
IsCurrentOwner(s) ==
    conv = s.conv /\ m.epoch = s.epoch /\ es.id = s.id

\* SSE_OPEN.
Opened(s) ==
    CASE s.state = "connecting" -> Machine("connected", 0, FALSE, s.epoch)
      [] s.state \in {"reconnecting", "offline"} -> Machine("reconnected", 0, FALSE, s.epoch)
      [] OTHER -> s

\* The init event of the source: SSE_OPEN, then sse_init, which the reducer drops
\* unless it bears the atom's epoch (isStaleEpoch).
InitHandler(s) ==
    IF IsCurrentOwner(s)
    THEN /\ m' = Opened(m)
         /\ retry' = NoTimer
         /\ display' = IF m.state \in {"reconnecting", "offline"} THEN Owner ELSE NoTimer
         /\ shown' = (shown \/ atom[conv] = s.epoch)
    ELSE UNCHANGED <<m, retry, display, shown>>

InitEvent ==
    /\ es.at = "opening" /\ onLine
    /\ es' = EventSource(es.conv, es.epoch, "open", es.id)
    /\ InitHandler(es)
    /\ UNCHANGED <<conv, late, atom, onLine, events, spent>>

LateInit ==
    /\ late.at = "closed"
    /\ late' = NoSource
    /\ InitHandler(late)
    /\ UNCHANGED <<conv, es, atom, onLine, events, spent>>

\* An init that does not parse: the stream stays open and the machine is not
\* told.
BadInit ==
    /\ es.at = "opening" /\ onLine
    /\ Fail
    /\ es' = EventSource(es.conv, es.epoch, "mute", es.id)
    /\ UNCHANGED <<m, conv, late, retry, display, atom, shown, onLine, events>>

\* SSE_ERROR.
Failed(s) ==
    LET attempt == s.attempt + 1
    IN  IF onLine
        THEN Machine(IF attempt >= Threshold THEN "offline" ELSE "reconnecting",
                     attempt, TRUE, s.epoch)
        ELSE Machine("offline", attempt, FALSE, s.epoch)

\* The native error event of a source, in use or closed.
ErrorHandler(s) ==
    IF IsCurrentOwner(s)
    THEN /\ m' = Failed(m)
         /\ CLOSE_SSE
         /\ IF onLine THEN retry' = Owner /\ UNCHANGED display ELSE CANCEL_TIMERS
    ELSE late' = NoSource /\ UNCHANGED <<m, es, retry, display>>

ErrorEvent ==
    /\ es # NoSource
    /\ Fail
    /\ ErrorHandler(es)
    /\ UNCHANGED <<conv, atom, shown, onLine, events>>

LateError ==
    /\ late.at = "closed"
    /\ ErrorHandler(late)
    /\ UNCHANGED <<conv, atom, shown, onLine, events, spent>>

-----------------------------------------------------------------------------
(* Timers.                                                                 *)

\* RETRY_TIMER_FIRED, if the timer's owner is still there.
RetryTimer ==
    /\ retry # NoTimer
    /\ retry' = NoTimer
    /\ IF retry = Owner /\ m.state \in {"reconnecting", "offline"}
       THEN /\ m' = Machine(m.state, m.attempt, FALSE, m.epoch + 1)
            /\ OPEN_SSE(conv, m.epoch + 1, atom)
       ELSE UNCHANGED <<m, es, late, atom, shown>>
    /\ UNCHANGED <<conv, display, onLine, events, spent>>

\* Faulty variant: the timer's owner is compared with the epoch before it.
DisplayTimer_OffByOne ==
    /\ display # NoTimer
    /\ display' = NoTimer
    /\ m' = IF display.epoch + 1 = m.epoch /\ m.state = "reconnected"
            THEN Machine("connected", 0, FALSE, m.epoch)
            ELSE m
    /\ UNCHANGED <<conv, es, late, retry, atom, shown, onLine, events, spent>>

\* RECONNECTED_DISPLAY_DONE.
DisplayTimer ==
    /\ display # NoTimer
    /\ display' = NoTimer
    /\ m' = IF display = Owner /\ m.state = "reconnected"
            THEN Machine("connected", 0, FALSE, m.epoch)
            ELSE m
    /\ UNCHANGED <<conv, es, late, retry, atom, shown, onLine, events, spent>>

-----------------------------------------------------------------------------
(* The browser and the user.                                               *)

\* The browser loses or regains the network; its event is dispatched later.
Flip ==
    /\ onLine => flips < MaxFlip
    /\ flips' = IF onLine THEN flips + 1 ELSE flips
    /\ onLine' = ~onLine
    /\ events' = Append(events, IF onLine THEN "offline" ELSE "online")
    /\ UNCHANGED <<m, conv, es, late, retry, display, atom, shown, fails, moves>>

\* Faulty variant: a machine that went offline is not woken.
Reopen_NotOffline(attempt) ==
    IF m.state = "reconnecting"
    THEN /\ m' = Machine("reconnecting", attempt, FALSE, m.epoch + 1)
         /\ OPEN_SSE(conv, m.epoch + 1, atom)
         /\ CANCEL_TIMERS
    ELSE UNCHANGED <<m, es, late, atom, shown, retry, display>>

\* Retried at once: BROWSER_ONLINE keeps the attempts, RETRY_NOW forgets them.
Reopen(attempt) ==
    IF m.state \in {"offline", "reconnecting"}
    THEN /\ m' = Machine("reconnecting", attempt, FALSE, m.epoch + 1)
         /\ OPEN_SSE(conv, m.epoch + 1, atom)
         /\ CANCEL_TIMERS
    ELSE UNCHANGED <<m, es, late, atom, shown, retry, display>>

BrowserOnline ==
    /\ events # <<>> /\ Head(events) = "online"
    /\ events' = Tail(events)
    /\ Reopen(m.attempt)
    /\ UNCHANGED <<conv, onLine, spent>>

\* BROWSER_OFFLINE.
BrowserOffline ==
    /\ events # <<>> /\ Head(events) = "offline"
    /\ events' = Tail(events)
    /\ IF m.state = "disconnected"
       THEN UNCHANGED <<m, es, late, retry, display>>
       ELSE /\ m' = Machine("offline", m.attempt, FALSE, m.epoch)
            /\ CLOSE_SSE /\ CANCEL_TIMERS
    /\ UNCHANGED <<conv, atom, shown, onLine, spent>>

\* The tab becomes visible while the browser is online.
Visible ==
    /\ onLine /\ m.state \in {"offline", "reconnecting"}
    /\ Move
    /\ Reopen(m.attempt)
    /\ UNCHANGED <<conv, onLine, events>>

\* The button of the offline banner.
RetryNow ==
    /\ m.state \in {"offline", "reconnecting"}
    /\ Move
    /\ Reopen(0)
    /\ UNCHANGED <<conv, onLine, events>>

Next ==
    \/ \E c \in Conv : Enter(c)
    \/ Leave
    \/ InitEvent \/ BadInit \/ ErrorEvent
    \/ LateInit \/ LateError
    \/ RetryTimer \/ DisplayTimer
    \/ Flip \/ BrowserOnline \/ BrowserOffline
    \/ Visible \/ RetryNow

Spec == Init /\ [][Next]_vars

\* A stream that is asked for while the network is up opens; timers fire and
\* the window's events are dispatched.
FairSpec ==
    /\ Spec
    /\ WF_vars(InitEvent)
    /\ WF_vars(RetryTimer \/ DisplayTimer)
    /\ WF_vars(BrowserOnline \/ BrowserOffline)

-----------------------------------------------------------------------------
\* While the page says it is connected, its one source is open for this
\* conversation and this epoch, and the atom takes its events and shows its init:
\* a late event of another source, of another conversation or of an earlier
\* mount of the hook never passes for this one's.
ConnectedIsCurrent ==
    m.state \in {"connected", "reconnected"} =>
        /\ es.at = "open" /\ es.conv = conv /\ es.epoch = m.epoch
        /\ atom[conv] = m.epoch /\ shown

\* An event that a replaced source left in the queue changes nothing: the machine,
\* the source in use, the timers and what is shown stay as they are, whatever
\* moves, remounts and retries came since, also when a hook mounted anew has
\* reached the epoch of the old source again.
LateIsIgnored ==
    [][LateInit \/ LateError => UNCHANGED <<m, es, retry, display, shown>>]_vars

\* A page that is not connected has something that will connect it: a stream
\* being opened, a retry timer its machine will accept, or an online event to
\* come.  (A stream whose init did not parse stays open and is the exception.)
NeverStranded ==
    m.state \in {"connecting", "reconnecting", "offline"} =>
        \/ es.at \in {"opening", "mute"}
        \/ retry = Owner
        \/ ~onLine
        \/ events # <<>> /\ events[Len(events)] = "online"

\* The countdown the user sees (nextRetryMs) is that of a timer that is set and
\* that will be accepted when it fires.
CountdownIsReal == m.waits <=> (retry = Owner /\ conv # NoConv)

\* The machine's list of invariants: "4. state is 'offline' when attempt >=
\* OFFLINE_THRESHOLD and not connected".
OfflineAtThreshold ==
    m.attempt >= Threshold => m.state \in {"offline", "connected", "reconnected"}

\* Once streams stop failing, an online page with a conversation ends connected.
Reconnects ==
    <>[](conv # NoConv /\ onLine => m.state = "connected" \/ es.at = "mute")

=============================================================================
