----------------------- MODULE ConnectionMachineProofs -----------------------
(***************************************************************************)
(* Proofs about ConnectionMachine, for every set of conversations and every *)
(* bound.                                                                   *)
(***************************************************************************)
EXTENDS ConnectionMachine, SequenceTheorems, TLAPS

USE SMTT(60), ZenonT(60)

Live == {"connected", "reconnected"}
Waiting == {"connecting", "reconnecting", "offline"}

\* The source in use belongs to this conversation and epoch; it is open exactly
\* while the machine says so, and it is never the one that was replaced.
SourceFits ==
    /\ es = NoSource \/ (es.conv = conv /\ es.epoch = m.epoch /\ es.id \in {1, 2}
                         /\ es.at \in {"opening", "open", "mute"} /\ es.id # late.id)
    /\ m.state \in Live <=> es.at = "open"
    /\ es.at \in {"opening", "mute"} => m.state \in Waiting
    /\ m.state = "connecting" => es.at \in {"opening", "mute"}
    /\ late.at \in {"none", "closed"} /\ (late.at = "closed" => late.id \in {1, 2})

\* With no conversation there is nothing to run.
IdleWithout ==
    /\ conv = NoConv <=> m.state = "disconnected"
    /\ conv = NoConv => es = NoSource /\ retry = NoTimer

\* A retry timer that is set is this owner's, and nothing else is under way.
TimerFits ==
    /\ retry # NoTimer =>
          /\ conv # NoConv /\ retry = Owner /\ es = NoSource
          /\ m.state \in {"reconnecting", "offline"}
    /\ m.waits <=> retry # NoTimer

\* The conversation's atom takes this epoch's events.
AtomFollows ==
    /\ conv # NoConv => atom[conv] = m.epoch
    /\ es.at = "open" => shown

\* The last event the window will dispatch tells what navigator.onLine is.
EventsTell ==
    events # <<>> => events[Len(events)] = (IF onLine THEN "online" ELSE "offline")

ConnInv ==
    /\ TypeOK /\ SourceFits /\ IdleWithout /\ TimerFits /\ AtomFollows
    /\ EventsTell /\ NeverStranded

-----------------------------------------------------------------------------
(* Records and sequences.                                                  *)

\* A source built field by field.
LEMMA SourceFields ==
    ASSUME NEW c \in Conv \cup {NoConv}, NEW e \in Nat, NEW id \in 0..2,
           NEW at \in {"none", "opening", "open", "mute", "closed"}
    PROVE  /\ EventSource(c, e, at, id) \in Source
           /\ EventSource(c, e, at, id).conv = c
           /\ EventSource(c, e, at, id).epoch = e
           /\ EventSource(c, e, at, id).at = at
           /\ EventSource(c, e, at, id).id = id
  BY DEF EventSource, Source

\* The source that stands for none.
LEMMA NoSourceFields ==
    /\ NoSource \in Source /\ NoSource.conv = NoConv /\ NoSource.epoch = 0
    /\ NoSource.at = "none" /\ NoSource.id = 0
  BY SourceFields DEF NoSource

\* What the type invariant says of the fields.
LEMMA Fields ==
    ASSUME TypeOK
    PROVE  /\ m.state \in State /\ m.attempt \in Nat /\ m.waits \in BOOLEAN /\ m.epoch \in Nat
           /\ es.conv \in Conv \cup {NoConv} /\ es.epoch \in Nat /\ es.id \in 0..2
           /\ late.conv \in Conv \cup {NoConv} /\ late.epoch \in Nat /\ late.id \in 0..2
           /\ es.at \in {"none", "opening", "open", "mute", "closed"}
           /\ late.at \in {"none", "opening", "open", "mute", "closed"}
  BY DEF TypeOK, MachineState, Source

\* What the invariant gives: the properties the runs check.
LEMMA ConnInvGives ==
    ConnInv => ConnectedIsCurrent /\ NeverStranded /\ CountdownIsReal
<1>1. ConnInv => ConnectedIsCurrent
  BY NoSourceFields
     DEF ConnInv, ConnectedIsCurrent, SourceFits, AtomFollows, IdleWithout, Live
<1>2. ConnInv => TimerFits /\ NeverStranded
  BY ZenonT(60) DEF ConnInv
<1>3. TimerFits => CountdownIsReal
  BY DEF CountdownIsReal, TimerFits, Owner, NoTimer
<1> QED
  BY <1>1, <1>2, <1>3

\* Dispatching the first event leaves the last one last.
LEMMA LastOfTail ==
    ASSUME NEW S, NEW q \in Seq(S), q # <<>>
    PROVE  /\ Tail(q) \in Seq(S)
           /\ Tail(q) # <<>> => Tail(q)[Len(Tail(q))] = q[Len(q)]
           /\ Tail(q) = <<>> => q[Len(q)] = Head(q)
<1>1. /\ Tail(q) \in Seq(S) /\ Len(Tail(q)) = Len(q) - 1 /\ Len(q) \in Nat \ {0}
      /\ \A i \in 1..Len(Tail(q)) : Tail(q)[i] = q[i + 1]
  OBVIOUS
<1>2. Tail(q) # <<>> => Len(Tail(q)) \in 1..Len(Tail(q))
  BY <1>1, EmptySeq
<1>3. Tail(q) = <<>> => Len(q) = 1
  BY <1>1, EmptySeq
<1> QED  BY <1>1, <1>2, <1>3

\* An event that is appended is the last.
LEMMA LastOfAppend ==
    ASSUME NEW S, NEW q \in Seq(S), NEW x \in S
    PROVE  /\ Append(q, x) \in Seq(S) /\ Append(q, x) # <<>>
           /\ Append(q, x)[Len(Append(q, x))] = x
  OBVIOUS

-----------------------------------------------------------------------------
(* Effects.                                                                *)

\* Closing: what was open is closed and no longer named.
LEMMA CloseEffect ==
    ASSUME TypeOK, SourceFits, CLOSE_SSE
    PROVE  /\ es' = NoSource /\ late' \in Source /\ late'.at \in {"none", "closed"}
           /\ (late'.at = "closed" => late'.id \in {1, 2})
<1>1. /\ Closed \in Source /\ Closed.at \in {"none", "closed"}
      /\ (Closed.at = "closed" => Closed.id \in {1, 2})
  <2>1. CASE es = NoSource  BY <2>1, Fields DEF Closed, SourceFits, TypeOK
  <2>2. CASE es # NoSource  BY <2>2, Fields DEF Closed, EventSource, Source, SourceFits
  <2> QED  BY <2>1, <2>2
<1> QED  BY <1>1 DEF CLOSE_SSE

\* Opening: one new source, named, and an atom that takes its epoch.
LEMMA OpenEffect ==
    ASSUME TypeOK, SourceFits, NEW c \in Conv, NEW e \in Nat, NEW A \in [Conv -> Nat],
           A[c] < e, OPEN_SSE(c, e, A)
    PROVE  /\ es' \in Source /\ es'.at = "opening" /\ es'.conv = c /\ es'.epoch = e
           /\ es'.id \in {1, 2} /\ es'.id # late'.id
           /\ late' \in Source /\ late'.at \in {"none", "closed"}
           /\ (late'.at = "closed" => late'.id \in {1, 2})
           /\ atom' \in [Conv -> Nat] /\ atom'[c] = e /\ shown' = FALSE
<1>1. /\ late' \in Source /\ late'.at \in {"none", "closed"}
      /\ (late'.at = "closed" => late'.id \in {1, 2})
  <2>1. CASE es = NoSource  BY <2>1, Fields DEF Closed, SourceFits, TypeOK, OPEN_SSE
  <2>2. CASE es # NoSource  BY <2>2, Fields DEF Closed, OPEN_SSE, EventSource, Source, SourceFits
  <2> QED  BY <2>1, <2>2
<1>2. PICK id \in {1, 2} : id # late'.id /\ es' = EventSource(c, e, "opening", id)
  BY DEF OPEN_SSE
<1>3. /\ es' \in Source /\ es'.at = "opening" /\ es'.conv = c /\ es'.epoch = e
      /\ es'.id = id
  BY <1>2, SourceFields
<1>4. atom' \in [Conv -> Nat] /\ atom'[c] = e /\ shown' = FALSE
  BY DEF OPEN_SSE
<1> QED  BY <1>1, <1>2, <1>3, <1>4

\* The owner a timer records.
LEMMA OwnerType ==
    ASSUME TypeOK PROVE Owner \in Timer /\ NoTimer \in Timer
  BY Fields DEF Owner, Timer, NoTimer, TypeOK

\* The invariant after a transition that opens a source for conversation c.
LEMMA AfterOpen ==
    ASSUME ConnInv, NEW c \in Conv, NEW e \in Nat, NEW A \in [Conv -> Nat], A[c] < e,
           OPEN_SSE(c, e, A), conv' = c, NEW st \in Waiting, NEW a \in Nat,
           m' = Machine(st, a, FALSE, e), retry' = NoTimer,
           display' \in Timer, onLine' \in BOOLEAN, events' \in Seq({"online", "offline"}),
           fails' \in 0..MaxFail, flips' \in 0..MaxFlip, moves' \in 0..MaxMove
    PROVE  TypeOK' /\ SourceFits' /\ IdleWithout' /\ TimerFits' /\ AtomFollows'
           /\ NeverStranded'
<1> USE ConnectionAssumption
<1>1. /\ es' \in Source /\ es'.at = "opening" /\ es'.conv = c /\ es'.epoch = e
      /\ es'.id \in {1, 2} /\ es'.id # late'.id
      /\ late' \in Source /\ late'.at \in {"none", "closed"}
      /\ (late'.at = "closed" => late'.id \in {1, 2})
      /\ atom' \in [Conv -> Nat] /\ atom'[c] = e /\ shown' = FALSE
  BY ZenonT(60), OpenEffect DEF ConnInv
<1>2. st \in State  BY DEF Waiting, State
<1>3. /\ m' \in MachineState /\ m'.state = st /\ m'.attempt = a /\ m'.waits = FALSE
      /\ m'.epoch = e
  BY <1>2 DEF Machine, MachineState
<1>4. st # "disconnected" /\ st \notin Live /\ c # NoConv /\ es' # NoSource
  BY <1>1, NoSourceFields DEF Waiting, Live
<1>5. TypeOK'
  BY ZenonT(60), <1>1, <1>3, OwnerType DEF TypeOK, ConnInv
<1>6. SourceFits'
  BY ZenonT(60), <1>1, <1>3, <1>4 DEF SourceFits
<1>7. IdleWithout' /\ TimerFits' /\ AtomFollows' /\ NeverStranded'
  BY ZenonT(60), <1>1, <1>3, <1>4 DEF IdleWithout, TimerFits, AtomFollows, NeverStranded, Owner, NoTimer
<1> QED  BY <1>5, <1>6, <1>7

\* The invariant, but for NeverStranded, after one that closes the source there
\* is and schedules a retry or not.
LEMMA AfterClose ==
    ASSUME ConnInv, CLOSE_SSE, conv # NoConv, UNCHANGED <<conv, atom, shown>>,
           NEW st \in {"reconnecting", "offline"}, NEW a \in Nat, NEW w \in BOOLEAN,
           m' = Machine(st, a, w, m.epoch), retry' = IF w THEN Owner ELSE NoTimer,
           display' \in Timer, onLine' \in BOOLEAN, events' \in Seq({"online", "offline"}),
           fails' \in 0..MaxFail, flips' \in 0..MaxFlip, moves' \in 0..MaxMove
    PROVE  TypeOK' /\ SourceFits' /\ IdleWithout' /\ TimerFits' /\ AtomFollows'
<1> USE ConnectionAssumption
<1>1. /\ es' = NoSource /\ late' \in Source /\ late'.at \in {"none", "closed"}
      /\ (late'.at = "closed" => late'.id \in {1, 2})
  BY CloseEffect DEF ConnInv
<1>2. st \in State  BY DEF State
<1>3. /\ m' \in MachineState /\ m'.state = st /\ m'.attempt = a /\ m'.waits = w
      /\ m'.epoch = m.epoch
  BY <1>2, Fields DEF Machine, MachineState, ConnInv
<1>4. st # "disconnected" /\ st \notin Live  BY DEF Live
<1>5. TypeOK'
  BY <1>1, <1>3, OwnerType, NoSourceFields DEF TypeOK, ConnInv
<1>6. SourceFits'
  BY <1>1, <1>3, <1>4, NoSourceFields DEF SourceFits
<1>7. IdleWithout'
  BY <1>3, <1>4 DEF IdleWithout
<1>8. Owner' = Owner /\ Owner # NoTimer
  BY <1>3 DEF Owner, NoTimer
<1>9. TimerFits'
  <2>1. CASE w = TRUE   BY <2>1, <1>1, <1>3, <1>8 DEF TimerFits
  <2>2. CASE w = FALSE  BY <2>2, <1>1, <1>3, <1>8 DEF TimerFits
  <2> QED  BY ZenonT(60), <2>1, <2>2
<1>10. AtomFollows'
  BY <1>1, <1>3, NoSourceFields DEF AtomFollows, ConnInv
<1> QED  BY <1>5, <1>6, <1>7, <1>9, <1>10

-----------------------------------------------------------------------------
(* Actions.                                                                *)

\* The hook starts with the invariant.
LEMMA ConnInit == Init => ConnInv
<1> SUFFICES ASSUME Init PROVE ConnInv  OBVIOUS
<1> USE ConnectionAssumption
<1>1. /\ m \in MachineState /\ m.state = "disconnected" /\ m.waits = FALSE
  BY DEF Init, Machine, MachineState, State
<1>2. TypeOK
  <2>1. NoTimer \in Timer  BY DEF Timer, NoTimer
  <2>2. es \in Source /\ es.at # "closed" /\ late \in Source
    BY NoSourceFields DEF Init
  <2>3. events \in Seq({"online", "offline"}) /\ atom \in [Conv -> Nat]
    BY EmptySeq DEF Init
  <2>4. fails \in 0..MaxFail /\ flips \in 0..MaxFlip /\ moves \in 0..MaxMove
    BY DEF Init
  <2>5. shown \in BOOLEAN /\ onLine \in BOOLEAN  BY ZenonT(60) DEF Init
  <2> QED  BY ZenonT(60), <1>1, <2>1, <2>2, <2>3, <2>4, <2>5 DEF Init, TypeOK
<1>3. SourceFits /\ IdleWithout /\ TimerFits /\ AtomFollows /\ EventsTell /\ NeverStranded
  BY ZenonT(60), <1>1, NoSourceFields
     DEF Init, SourceFits, IdleWithout, TimerFits, AtomFollows, EventsTell,
         NeverStranded, Live, Waiting
<1> QED  BY <1>2, <1>3 DEF ConnInv

\* Opening a conversation, or mounting the hook anew.
LEMMA EnterKeeps ==
    ASSUME ConnInv, NEW c \in Conv, Enter(c) PROVE ConnInv'
<1>1. PICK epoch \in {m.epoch, 0} :
          m' = Connecting(epoch + 1) /\ OPEN_SSE(c, epoch + 1, [atom EXCEPT ![c] = 0])
  BY DEF Enter
<1> DEFINE A == [atom EXCEPT ![c] = 0]
<1>2. epoch + 1 \in Nat /\ epoch + 1 > 0  BY Fields DEF ConnInv
<1>3. A \in [Conv -> Nat] /\ A[c] < epoch + 1  BY <1>2 DEF ConnInv, TypeOK
<1>4. m' = Machine("connecting", 0, FALSE, epoch + 1) /\ "connecting" \in Waiting
  BY <1>1 DEF Connecting, Waiting
<1>5. /\ conv' = c /\ retry' = NoTimer /\ display' \in Timer
      /\ onLine' \in BOOLEAN /\ events' \in Seq({"online", "offline"})
      /\ fails' \in 0..MaxFail /\ flips' \in 0..MaxFlip /\ moves' \in 0..MaxMove
  BY OwnerType, ConnectionAssumption DEF Enter, CANCEL_TIMERS, Move, ConnInv, TypeOK
<1> HIDE DEF A
<1>6. TypeOK' /\ SourceFits' /\ IdleWithout' /\ TimerFits' /\ AtomFollows' /\ NeverStranded'
  <2>1. OPEN_SSE(c, epoch + 1, A)  BY <1>1 DEF A
  <2> QED  BY ZenonT(60), <2>1, <1>2, <1>3, <1>4, <1>5, AfterOpen
<1>7. EventsTell'  BY DEF Enter, EventsTell, ConnInv
<1> QED  BY <1>6, <1>7 DEF ConnInv

\* The common part of a retry: by the timer, by the browser, by the user.
LEMMA RetryOpens ==
    ASSUME ConnInv, m.state \in {"reconnecting", "offline"},
           NEW st \in {"reconnecting", "offline"}, NEW a \in Nat,
           m' = Machine(st, a, FALSE, m.epoch + 1), OPEN_SSE(conv, m.epoch + 1, atom),
           conv' = conv, retry' = NoTimer,
           display' \in Timer, onLine' \in BOOLEAN, events' \in Seq({"online", "offline"}),
           fails' \in 0..MaxFail, flips' \in 0..MaxFlip, moves' \in 0..MaxMove
    PROVE  TypeOK' /\ SourceFits' /\ IdleWithout' /\ TimerFits' /\ AtomFollows'
           /\ NeverStranded'
<1>1. conv \in Conv /\ conv # NoConv  BY DEF ConnInv, TypeOK, IdleWithout
<1>2. m.epoch + 1 \in Nat /\ atom \in [Conv -> Nat] /\ atom[conv] < m.epoch + 1
  BY <1>1, Fields DEF ConnInv, TypeOK, AtomFollows
<1>3. st \in Waiting  BY DEF Waiting
<1> QED  BY ZenonT(60), <1>1, <1>2, <1>3, AfterOpen

\* Nothing but the events and the bounds' counters changes.
LEMMA Untouched ==
    ASSUME ConnInv, UNCHANGED <<m, es, late, atom, shown, retry, conv, onLine>>,
           display' \in Timer, events' \in Seq({"online", "offline"}),
           fails' \in 0..MaxFail, flips' \in 0..MaxFlip, moves' \in 0..MaxMove
    PROVE  TypeOK' /\ SourceFits' /\ IdleWithout' /\ TimerFits' /\ AtomFollows'
<1>1. TypeOK'  BY DEF TypeOK, ConnInv
<1>2. SourceFits' /\ IdleWithout'
  BY DEF SourceFits, IdleWithout, ConnInv
<1>3. TimerFits' /\ AtomFollows'
  BY DEF TimerFits, Owner, AtomFollows, ConnInv
<1> QED  BY <1>1, <1>2, <1>3

\* Retried at once, or ignored by a machine that is not waiting.
LEMMA ReopenKeeps ==
    ASSUME ConnInv, NEW a \in Nat, Reopen(a), UNCHANGED <<conv, onLine>>,
           events' \in Seq({"online", "offline"}),
           fails' \in 0..MaxFail, flips' \in 0..MaxFlip, moves' \in 0..MaxMove
    PROVE  TypeOK' /\ SourceFits' /\ IdleWithout' /\ TimerFits' /\ AtomFollows'
           /\ NeverStranded'
<1>1. CASE m.state \in {"offline", "reconnecting"}
  <2>1. /\ m' = Machine("reconnecting", a, FALSE, m.epoch + 1)
        /\ OPEN_SSE(conv, m.epoch + 1, atom) /\ retry' = NoTimer
        /\ display' \in Timer /\ onLine' \in BOOLEAN
    BY <1>1, OwnerType DEF Reopen, CANCEL_TIMERS, ConnInv, TypeOK
  <2> QED  BY ZenonT(60), <1>1, <2>1, RetryOpens
<1>2. CASE m.state \notin {"offline", "reconnecting"}
  <2>1. UNCHANGED <<m, es, late, atom, shown, retry, conv, onLine>> /\ display' \in Timer
    BY <1>2 DEF Reopen, ConnInv, TypeOK
  <2>2. TypeOK' /\ SourceFits' /\ IdleWithout' /\ TimerFits' /\ AtomFollows'
    BY <2>1, Untouched
  <2>3. NeverStranded'
    BY <2>1, <1>2 DEF NeverStranded, ConnInv, SourceFits
  <2> QED  BY <2>2, <2>3
<1> QED  BY <1>1, <1>2

\* The cleanup that disconnects.
LEMMA LeaveKeeps == ASSUME ConnInv, Leave PROVE ConnInv'
<1> USE ConnectionAssumption
<1>1. /\ es' = NoSource /\ late' \in Source /\ late'.at \in {"none", "closed"}
      /\ (late'.at = "closed" => late'.id \in {1, 2})
  BY CloseEffect DEF ConnInv, Leave
<1>2. m' \in MachineState /\ m'.state = "disconnected" /\ m'.waits = FALSE
  BY Fields DEF Leave, Disconnected, Machine, MachineState, State, ConnInv
<1>3. retry' = NoTimer /\ display' = NoTimer /\ conv' = NoConv
  BY DEF Leave, CANCEL_TIMERS
<1>4. TypeOK'
  BY <1>1, <1>2, <1>3, OwnerType, NoSourceFields DEF Leave, TypeOK, ConnInv, spent
<1>5. SourceFits' /\ IdleWithout' /\ TimerFits' /\ AtomFollows' /\ NeverStranded'
  BY <1>1, <1>2, <1>3, NoSourceFields
     DEF SourceFits, IdleWithout, TimerFits, AtomFollows, NeverStranded, Live,
         Waiting
<1>6. EventsTell'  BY DEF Leave, EventsTell, ConnInv
<1> QED  BY <1>4, <1>5, <1>6 DEF ConnInv

\* The first event of the source in use is handled: the source is the owner.
LEMMA UsedIsOwner ==
    ASSUME ConnInv, es # NoSource
    PROVE  IsCurrentOwner(es) /\ conv \in Conv /\ conv # NoConv
  BY DEF ConnInv, SourceFits, IdleWithout, IsCurrentOwner, TypeOK

\* The init of the source in use: SSE_OPEN and sse_init.
LEMMA InitEventKeeps == ASSUME ConnInv, InitEvent PROVE ConnInv'
<1> USE ConnectionAssumption
<1>1. es.at = "opening" /\ es # NoSource  BY NoSourceFields DEF InitEvent
<1>2. IsCurrentOwner(es) /\ conv \in Conv /\ conv # NoConv  BY <1>1, UsedIsOwner
<1>3. m.state \in Waiting  BY <1>1 DEF ConnInv, SourceFits
<1>4. /\ es' \in Source /\ es'.at = "open" /\ es'.conv = es.conv /\ es'.epoch = es.epoch
      /\ es'.id = es.id
  BY Fields DEF InitEvent, ConnInv, EventSource, Source
<1>5. /\ m' = Opened(m) /\ retry' = NoTimer /\ display' \in Timer
      /\ shown' = (shown \/ atom[conv] = es.epoch)
  BY <1>2, OwnerType DEF InitEvent, InitHandler, ConnInv
<1>6. /\ m' \in MachineState /\ m'.state \in Live /\ m'.waits = FALSE /\ m'.epoch = m.epoch
  <2>1. CASE m.state = "connecting"
    BY <2>1, <1>5, Fields DEF Opened, Machine, MachineState, State, Live, ConnInv
  <2>2. CASE m.state \in {"reconnecting", "offline"}
    BY <2>2, <1>5, Fields DEF Opened, Machine, MachineState, State, Live, ConnInv
  <2> QED  BY ZenonT(60), <1>3, <2>1, <2>2 DEF Waiting
<1>7. shown' = TRUE
  BY ZenonT(60), <1>1, <1>2, <1>5 DEF ConnInv, AtomFollows, SourceFits
<1>8. TypeOK'
  <2>1. shown' \in BOOLEAN  BY <1>7
  <2>2. es'.at # "closed"  BY <1>4
  <2> QED  BY <1>4, <1>5, <1>6, <2>1, <2>2, OwnerType DEF InitEvent, TypeOK, ConnInv, spent
<1>9. m'.state \notin Waiting /\ m'.state # "disconnected" /\ m'.state # "connecting"
  BY <1>6 DEF Live, Waiting
<1>10. SourceFits'
  BY <1>1, <1>4, <1>6, <1>9 DEF InitEvent, SourceFits, ConnInv
<1>11. IdleWithout' /\ TimerFits' /\ NeverStranded'
  BY <1>2, <1>5, <1>6, <1>9
     DEF InitEvent, IdleWithout, TimerFits, NeverStranded, Waiting
<1>12. AtomFollows' /\ EventsTell'
  BY <1>6, <1>7 DEF InitEvent, AtomFollows, EventsTell, ConnInv
<1> QED  BY <1>8, <1>10, <1>11, <1>12 DEF ConnInv

\* An init that does not parse.
LEMMA BadInitKeeps == ASSUME ConnInv, BadInit PROVE ConnInv'
<1> USE ConnectionAssumption
<1>1. es.at = "opening" /\ es # NoSource  BY NoSourceFields DEF BadInit
<1>2. m.state \in Waiting /\ m.state \notin Live
  BY <1>1 DEF ConnInv, SourceFits
<1>3. /\ es' \in Source /\ es'.at = "mute" /\ es'.conv = es.conv /\ es'.epoch = es.epoch
      /\ es'.id = es.id
  BY Fields DEF BadInit, ConnInv, EventSource, Source
<1>4. retry = NoTimer  BY <1>1 DEF ConnInv, TimerFits
<1>5. TypeOK'
  BY <1>3 DEF BadInit, Fail, TypeOK, ConnInv
<1>6. SourceFits'
  BY <1>1, <1>2, <1>3 DEF BadInit, SourceFits, ConnInv
<1>7. IdleWithout' /\ TimerFits'
  BY <1>1, <1>4 DEF BadInit, IdleWithout, TimerFits, Owner, ConnInv
<1>8. NeverStranded' /\ AtomFollows' /\ EventsTell'
  BY <1>1, <1>3 DEF BadInit, NeverStranded, AtomFollows, EventsTell, ConnInv
<1> QED  BY <1>5, <1>6, <1>7, <1>8 DEF ConnInv

\* The error of the source in use: SSE_ERROR.
LEMMA ErrorEventKeeps == ASSUME ConnInv, ErrorEvent PROVE ConnInv'
<1> USE ConnectionAssumption
<1>1. es # NoSource  BY DEF ErrorEvent
<1>2. IsCurrentOwner(es) /\ conv \in Conv /\ conv # NoConv  BY <1>1, UsedIsOwner
<1>3. /\ m' = Failed(m) /\ CLOSE_SSE
      /\ IF onLine THEN retry' = Owner /\ UNCHANGED display ELSE CANCEL_TIMERS
  BY <1>2 DEF ErrorEvent, ErrorHandler
<1>4. onLine \in BOOLEAN /\ m.attempt + 1 \in Nat  BY Fields DEF ConnInv, TypeOK
<1> DEFINE st == IF onLine /\ m.attempt + 1 < Threshold THEN "reconnecting" ELSE "offline"
<1>5. m' = Machine(st, m.attempt + 1, onLine, m.epoch) /\ st \in {"reconnecting", "offline"}
  <2>1. CASE onLine = TRUE
    <3>1. m' = Machine(IF m.attempt + 1 >= Threshold THEN "offline" ELSE "reconnecting",
                       m.attempt + 1, TRUE, m.epoch)
      BY <2>1, <1>3 DEF Failed
    <3>2. st = IF m.attempt + 1 >= Threshold THEN "offline" ELSE "reconnecting"
      BY <2>1, <1>4
    <3> QED  BY ZenonT(60), <2>1, <3>1, <3>2
  <2>2. CASE onLine = FALSE  BY ZenonT(60), <2>2, <1>3, <1>4 DEF Failed
  <2> QED  BY ZenonT(60), <1>4, <2>1, <2>2
<1>6. retry' = (IF onLine THEN Owner ELSE NoTimer) /\ display' \in Timer
  <2>1. CASE onLine = TRUE   BY <2>1, <1>3 DEF ConnInv, TypeOK
  <2>2. CASE onLine = FALSE  BY <2>2, <1>3, OwnerType DEF CANCEL_TIMERS, ConnInv
  <2> QED  BY ZenonT(60), <1>4, <2>1, <2>2
<1>7. /\ UNCHANGED <<conv, atom, shown>> /\ onLine' \in BOOLEAN
      /\ events' \in Seq({"online", "offline"})
      /\ fails' \in 0..MaxFail /\ flips' \in 0..MaxFlip /\ moves' \in 0..MaxMove
  BY DEF ErrorEvent, Fail, ConnInv, TypeOK
<1> HIDE DEF st
<1>8. TypeOK' /\ SourceFits' /\ IdleWithout' /\ TimerFits' /\ AtomFollows'
  BY <1>2, <1>3, <1>4, <1>5, <1>6, <1>7, AfterClose
<1>9. Owner' = Owner
  BY <1>5, <1>7, <1>4, Fields DEF Owner, Machine, ConnInv
<1>10. NeverStranded'
  <2>1. CASE onLine = TRUE   BY <2>1, <1>6, <1>9 DEF NeverStranded
  <2>2. CASE onLine = FALSE  BY <2>2 DEF NeverStranded, ErrorEvent
  <2> QED  BY ZenonT(60), <1>4, <2>1, <2>2
<1>11. EventsTell'  BY DEF ErrorEvent, EventsTell, ConnInv
<1> QED  BY <1>8, <1>10, <1>11 DEF ConnInv

\* An event of a source that was replaced is nobody's.
LEMMA LateIsNobodys ==
    ASSUME ConnInv, late.at = "closed" PROVE ~IsCurrentOwner(late)
  BY NoSourceFields DEF ConnInv, SourceFits, IsCurrentOwner

\* ... and changes nothing but the queue.
LEMMA LateKeeps ==
    ASSUME ConnInv, late' = NoSource,
           UNCHANGED <<m, es, atom, shown, retry, display, conv, onLine, events, fails, flips,
                       moves>>
    PROVE  ConnInv'
<1>1. TypeOK'  BY NoSourceFields DEF TypeOK, ConnInv
<1>2. SourceFits'  BY NoSourceFields DEF SourceFits, ConnInv
<1>3. IdleWithout' /\ TimerFits' /\ AtomFollows' /\ EventsTell' /\ NeverStranded'
  BY DEF IdleWithout, TimerFits, Owner, AtomFollows, EventsTell, NeverStranded, ConnInv
<1> QED  BY <1>1, <1>2, <1>3 DEF ConnInv

\* The retry timer fires: its owner is always this one.
LEMMA RetryTimerKeeps == ASSUME ConnInv, RetryTimer PROVE ConnInv'
<1>1. retry = Owner /\ m.state \in {"reconnecting", "offline"}
  BY DEF RetryTimer, ConnInv, TimerFits
<1>2. /\ m' = Machine(m.state, m.attempt, FALSE, m.epoch + 1)
      /\ OPEN_SSE(conv, m.epoch + 1, atom) /\ conv' = conv /\ retry' = NoTimer
      /\ display' \in Timer /\ onLine' \in BOOLEAN /\ events' \in Seq({"online", "offline"})
      /\ fails' \in 0..MaxFail /\ flips' \in 0..MaxFlip /\ moves' \in 0..MaxMove
  BY <1>1 DEF RetryTimer, ConnInv, TypeOK, spent
<1>3. m.attempt \in Nat  BY Fields DEF ConnInv
<1>4. TypeOK' /\ SourceFits' /\ IdleWithout' /\ TimerFits' /\ AtomFollows' /\ NeverStranded'
  BY ZenonT(60), <1>1, <1>2, <1>3, RetryOpens
<1>5. EventsTell'  BY DEF RetryTimer, EventsTell, ConnInv
<1> QED  BY <1>4, <1>5 DEF ConnInv

\* The reconnected banner is taken down.
LEMMA DisplayTimerKeeps == ASSUME ConnInv, DisplayTimer PROVE ConnInv'
<1>1. CASE display = Owner /\ m.state = "reconnected"
  <2>1. /\ m' \in MachineState /\ m'.state = "connected" /\ m'.waits = FALSE
        /\ m'.epoch = m.epoch
    BY <1>1, Fields DEF DisplayTimer, Machine, MachineState, State, ConnInv
  <2>2. retry = NoTimer  BY <1>1 DEF ConnInv, TimerFits
  <2>3. TypeOK'
    BY ZenonT(60), <2>1, OwnerType DEF DisplayTimer, TypeOK, ConnInv, spent
  <2>4. SourceFits'
    BY ZenonT(60), <1>1, <2>1 DEF DisplayTimer, SourceFits, ConnInv, Live, Waiting
  <2>5. IdleWithout' /\ TimerFits' /\ NeverStranded'
    BY ZenonT(60), <1>1, <2>1, <2>2 DEF DisplayTimer, IdleWithout, TimerFits, NeverStranded, ConnInv
  <2>6. AtomFollows' /\ EventsTell'
    BY ZenonT(60), <2>1 DEF DisplayTimer, AtomFollows, EventsTell, ConnInv
  <2> QED  BY <2>3, <2>4, <2>5, <2>6 DEF ConnInv
<1>2. CASE ~(display = Owner /\ m.state = "reconnected")
  <2>1. UNCHANGED <<m, es, late, atom, shown, retry, conv, onLine, events>> /\ display' \in Timer
    BY ZenonT(60), <1>2, OwnerType DEF DisplayTimer, ConnInv
  <2>2. TypeOK' /\ SourceFits' /\ IdleWithout' /\ TimerFits' /\ AtomFollows'
    BY ZenonT(60), <2>1, Untouched DEF DisplayTimer, spent, ConnInv, TypeOK
  <2>3. EventsTell' /\ NeverStranded'
    BY <2>1 DEF EventsTell, NeverStranded, Owner, ConnInv
  <2> QED  BY <2>2, <2>3 DEF ConnInv
<1> QED  BY <1>1, <1>2

\* The browser loses or regains the network.
LEMMA FlipKeeps == ASSUME ConnInv, Flip PROVE ConnInv'
<1> DEFINE e == IF onLine THEN "offline" ELSE "online"
<1>1. e \in {"online", "offline"} /\ onLine \in BOOLEAN  BY DEF ConnInv, TypeOK
<1>2. events' = Append(events, e)  BY DEF Flip
<1> HIDE DEF e
<1>3. /\ events' \in Seq({"online", "offline"}) /\ events' # <<>>
      /\ events'[Len(events')] = e
  BY <1>1, <1>2, LastOfAppend DEF ConnInv, TypeOK
<1>4. e = IF onLine' THEN "online" ELSE "offline"
  BY ZenonT(60), <1>1 DEF Flip, e
<1>5. onLine' \in BOOLEAN /\ flips' \in 0..MaxFlip
  <2>1. CASE onLine = TRUE   BY <2>1, ConnectionAssumption DEF Flip, ConnInv, TypeOK
  <2>2. CASE onLine = FALSE  BY <2>2 DEF Flip, ConnInv, TypeOK
  <2> QED  BY ZenonT(60), <1>1, <2>1, <2>2
<1>6. TypeOK'  BY <1>3, <1>5 DEF Flip, TypeOK, ConnInv
<1>7. SourceFits' /\ IdleWithout'
  BY DEF Flip, SourceFits, IdleWithout, ConnInv
<1>8. TimerFits' /\ AtomFollows'
  BY DEF Flip, TimerFits, Owner, AtomFollows, ConnInv
<1>9. EventsTell'  BY <1>3, <1>4 DEF EventsTell
<1>10. NeverStranded'
  <2>1. ~onLine' \/ (events' # <<>> /\ events'[Len(events')] = "online")
    BY <1>3, <1>4, <1>5
  <2> QED  BY <2>1 DEF NeverStranded
<1> QED  BY <1>6, <1>7, <1>8, <1>9, <1>10 DEF ConnInv

\* Dispatching an event keeps what the events tell.
LEMMA DispatchTells ==
    ASSUME ConnInv, events # <<>>, events' = Tail(events), onLine' = onLine
    PROVE  events' \in Seq({"online", "offline"}) /\ EventsTell'
<1>1. /\ Tail(events) \in Seq({"online", "offline"})
      /\ Tail(events) # <<>> => Tail(events)[Len(Tail(events))] = events[Len(events)]
  BY LastOfTail DEF ConnInv, TypeOK
<1> QED  BY <1>1 DEF ConnInv, EventsTell

\* The online event is dispatched.
LEMMA BrowserOnlineKeeps == ASSUME ConnInv, BrowserOnline PROVE ConnInv'
<1>1. events' \in Seq({"online", "offline"}) /\ EventsTell'
  BY DispatchTells DEF BrowserOnline
<1>2. m.attempt \in Nat  BY Fields DEF ConnInv
<1>3. TypeOK' /\ SourceFits' /\ IdleWithout' /\ TimerFits' /\ AtomFollows' /\ NeverStranded'
  BY <1>1, <1>2, ReopenKeeps DEF BrowserOnline, spent, ConnInv, TypeOK
<1> QED  BY <1>1, <1>3 DEF ConnInv

\* The offline event is dispatched.
LEMMA BrowserOfflineKeeps == ASSUME ConnInv, BrowserOffline PROVE ConnInv'
<1>1. events' \in Seq({"online", "offline"}) /\ EventsTell'
  BY DispatchTells DEF BrowserOffline
<1>2. CASE m.state = "disconnected"
  <2>1. UNCHANGED <<m, es, late, atom, shown, retry, conv, onLine>> /\ display' \in Timer
    BY <1>2 DEF BrowserOffline, ConnInv, TypeOK
  <2>2. TypeOK' /\ SourceFits' /\ IdleWithout' /\ TimerFits' /\ AtomFollows'
    BY <1>1, <2>1, Untouched DEF BrowserOffline, spent, ConnInv, TypeOK
  <2>3. NeverStranded'  BY <1>2, <2>1 DEF NeverStranded
  <2> QED  BY <1>1, <2>2, <2>3 DEF ConnInv
<1>3. CASE m.state # "disconnected"
  <2>1. /\ m' = Machine("offline", m.attempt, FALSE, m.epoch) /\ CLOSE_SSE
        /\ retry' = NoTimer /\ display' \in Timer
    BY <1>3, OwnerType DEF BrowserOffline, CANCEL_TIMERS, ConnInv
  <2>2. /\ conv # NoConv /\ m.attempt \in Nat
    BY <1>3, Fields DEF ConnInv, IdleWithout
  <2>3. /\ UNCHANGED <<conv, atom, shown>> /\ onLine' \in BOOLEAN
        /\ fails' \in 0..MaxFail /\ flips' \in 0..MaxFlip /\ moves' \in 0..MaxMove
    BY DEF BrowserOffline, spent, ConnInv, TypeOK
  <2>4. TypeOK' /\ SourceFits' /\ IdleWithout' /\ TimerFits' /\ AtomFollows'
    <3>1. retry' = IF FALSE THEN Owner ELSE NoTimer  BY <2>1
    <3> QED  BY ZenonT(60), <1>1, <2>1, <2>2, <2>3, <3>1, AfterClose
  \* While the browser is online the last event says so, so it is still to come.
  <2>5. NeverStranded'
    <3>1. CASE onLine = TRUE
      <4>1. events # <<>> /\ Head(events) = "offline" /\ events[Len(events)] = "online"
        BY <3>1 DEF BrowserOffline, ConnInv, EventsTell
      <4>2. /\ Tail(events) # <<>> => Tail(events)[Len(Tail(events))] = events[Len(events)]
            /\ Tail(events) = <<>> => events[Len(events)] = Head(events)
        BY <4>1, LastOfTail DEF ConnInv, TypeOK
      <4> QED  BY <4>1, <4>2 DEF NeverStranded, BrowserOffline
    <3>2. CASE onLine = FALSE  BY <3>2 DEF NeverStranded, BrowserOffline
    <3> QED  BY ZenonT(60), <3>1, <3>2 DEF ConnInv, TypeOK
  <2> QED  BY <1>1, <2>4, <2>5 DEF ConnInv
<1> QED  BY <1>2, <1>3

\* The tab becomes visible, or the user presses the button.
LEMMA ManualKeeps == ASSUME ConnInv, Visible \/ RetryNow PROVE ConnInv'
<1>1. PICK a \in Nat : Reopen(a)
  BY Fields DEF Visible, RetryNow, ConnInv
<1>2. /\ UNCHANGED <<conv, onLine, events, fails, flips>> /\ moves' \in 0..MaxMove
  BY ConnectionAssumption DEF Visible, RetryNow, Move, ConnInv, TypeOK
<1>3. TypeOK' /\ SourceFits' /\ IdleWithout' /\ TimerFits' /\ AtomFollows' /\ NeverStranded'
  BY <1>1, <1>2, ReopenKeeps DEF ConnInv, TypeOK
<1>4. EventsTell'  BY <1>2 DEF EventsTell, ConnInv
<1> QED  BY <1>3, <1>4 DEF ConnInv

\* The invariant is inductive: every callback of the hook keeps it.
LEMMA ConnInvInductive == ASSUME ConnInv, [Next]_vars PROVE ConnInv'
<1>1. ASSUME NEW c \in Conv, Enter(c) PROVE ConnInv'  BY <1>1, EnterKeeps
<1>2. CASE Leave      BY <1>2, LeaveKeeps
<1>3. CASE InitEvent  BY <1>3, InitEventKeeps
<1>4. CASE BadInit    BY <1>4, BadInitKeeps
<1>5. CASE ErrorEvent BY <1>5, ErrorEventKeeps
<1>6. CASE LateInit
  BY <1>6, LateIsNobodys, LateKeeps DEF LateInit, InitHandler, spent
<1>7. CASE LateError
  BY <1>7, LateIsNobodys, LateKeeps DEF LateError, ErrorHandler, spent
<1>8. CASE RetryTimer      BY <1>8, RetryTimerKeeps
<1>9. CASE DisplayTimer    BY <1>9, DisplayTimerKeeps
<1>10. CASE Flip           BY <1>10, FlipKeeps
<1>11. CASE BrowserOnline  BY <1>11, BrowserOnlineKeeps
<1>12. CASE BrowserOffline BY <1>12, BrowserOfflineKeeps
<1>13. CASE Visible \/ RetryNow  BY <1>13, ManualKeeps
<1>14. CASE UNCHANGED vars
  BY <1>14 DEF vars, ConnInv, TypeOK, SourceFits, IdleWithout, TimerFits, Owner,
               AtomFollows, EventsTell, NeverStranded
<1> QED
  BY <1>1, <1>2, <1>3, <1>4, <1>5, <1>6, <1>7, <1>8, <1>9, <1>10, <1>11, <1>12, <1>13,
     <1>14 DEF Next

\* The invariant holds throughout.
LEMMA ConnInvHolds == Spec => []ConnInv
  BY ConnInit, ConnInvInductive, PTL DEF Spec

-----------------------------------------------------------------------------
(* Theorems.                                                               *)

\* A page that says it is connected has its own source open and shows its init,
\* whatever late events of replaced sources, moves and retries come in between.
THEOREM ConnectedMeansCurrent == Spec => []ConnectedIsCurrent
  BY ConnInvGives, ConnInvHolds, PTL

\* An event of a source that was replaced changes nothing the hook acts on.
THEOREM LateEventsIgnored == Spec => LateIsIgnored
<1>1. ConnInv /\ [Next]_vars =>
        [LateInit \/ LateError => UNCHANGED <<m, es, retry, display, shown>>]_vars
  BY ZenonT(60), LateIsNobodys DEF LateInit, LateError, InitHandler, ErrorHandler
<1> QED
  BY <1>1, ConnInvHolds, PTL DEF Spec, LateIsIgnored

\* A page that is not connected always has something under way that reconnects
\* it, for any number of failures, network changes and manual retries.
THEOREM AlwaysComesBack == Spec => []NeverStranded
  BY ConnInvGives, ConnInvHolds, PTL

\* The countdown shown is that of a timer the machine will accept.
THEOREM CountdownHolds == Spec => []CountdownIsReal
  BY ConnInvGives, ConnInvHolds, PTL

=============================================================================
