--------------------------- MODULE TurnLoopProofs ---------------------------
(***************************************************************************)
(* Proofs about the turn loop.  A handler applies a transition record, with *)
(* or without a write failing.  What the state machine's records have in    *)
(* common is stated once (Fits), proved for every handler, and used to show *)
(* that applying any such record keeps LoopInv; the steps that apply none   *)
(* are treated one by one.                                                  *)
(***************************************************************************)
EXTENDS TurnLoop, TLAPS

USE SMTT(60), ZenonT(60)

LlmRec(n) == [gen : 0 .. n, turn : Nat, live : BOOLEAN]
ToolRec(n) == [gen : 1 .. n, id : ToolId, round : Nat]
TimerRec(n) == [gen : 0 .. n, attempt : 1 .. MaxAttempts]
SpentRec == [messages : Nat, cancels : Nat, rounds : Nat, faults : Nat]

\* The parts of LoopInv that an application of a record establishes, by the
\* variables they are about.
ConvFits == conv \in ConvRec /\ OwnResults

LlmFits ==
    /\ llmGen \in Nat /\ turn \in Nat /\ cycles \in Nat
    /\ halting \in BOOLEAN /\ owed \in BOOLEAN
    /\ llmTask \subseteq LlmRec(llmGen)
    /\ \A t, u \in llmTask : t.gen = u.gen => t = u
    /\ \A t \in llmTask : t.gen = llmGen =>
          conv.phase \in {"LlmRequesting", "Idle"} /\ t.turn = turn

ToolFits ==
    /\ toolGen \in Nat /\ toolTask \subseteq ToolRec(toolGen) /\ token \subseteq 0 .. toolGen
    /\ \A k \in toolTask :
          k.gen = toolGen /\ conv.phase \in {"ToolExecuting", "CancellingTool"} =>
              k.round = conv.round

TimerFits ==
    /\ retryGen \in Nat /\ timerHeld \in BOOLEAN /\ timers \subseteq TimerRec(retryGen)
    /\ \A f, h \in timers : f.gen = h.gen => f = h
    /\ \A f \in timers : f.gen = retryGen => timerHeld
    /\ timerHeld => conv.phase = "LlmRequesting"

InputFits ==
    /\ ask \in BOOLEAN /\ queue \in Seq({"steer", "cancel"}) /\ Len(queue) <= QueueCap

CountFits == steers \in Nat /\ spent \in SpentRec

Awaited == spent.faults = 0 => OneThingAwaited /\ SomethingAwaited

\* The invariant is the conjunction of these parts.
LEMMA Parts ==
    LoopInv <=> /\ ConvFits /\ LlmFits /\ ToolFits /\ TimerFits /\ InputFits /\ CountFits
                /\ Awaited
BY ZenonT(60) DEF LoopInv, TypeOK, GenerationsFit, ConvFits, LlmFits, ToolFits, TimerFits, InputFits,
       CountFits, Awaited, LlmRec, ToolRec, TimerRec, SpentRec

\* The same of the state after a step.
LEMMA PartsNext ==
    LoopInv' <=> /\ ConvFits' /\ LlmFits' /\ ToolFits' /\ TimerFits' /\ InputFits'
                 /\ CountFits' /\ Awaited'
BY ZenonT(60) DEF LoopInv, TypeOK, GenerationsFit, ConvFits, LlmFits, ToolFits, TimerFits, InputFits,
       CountFits, Awaited, LlmRec, ToolRec, TimerRec, SpentRec

-----------------------------------------------------------------------------
(* Records.                                                                 *)

\* Components of records.
LEMMA LlmParts ==
    ASSUME NEW n \in Nat
    PROVE  /\ \A t \in LlmRec(n) : t.gen \in 0 .. n /\ t.turn \in Nat /\ t.live \in BOOLEAN
           /\ \A g \in 0 .. n, w \in Nat, b \in BOOLEAN :
                 [gen |-> g, turn |-> w, live |-> b] \in LlmRec(n)
           /\ LlmRec(n) \subseteq LlmRec(n + 1)
BY DEF LlmRec

LEMMA ToolParts ==
    ASSUME NEW n \in Nat
    PROVE  /\ \A k \in ToolRec(n) : k.gen \in 1 .. n /\ k.id \in ToolId /\ k.round \in Nat
           /\ \A g \in 1 .. n, i \in ToolId, w \in Nat :
                 [gen |-> g, id |-> i, round |-> w] \in ToolRec(n)
           /\ ToolRec(n) \subseteq ToolRec(n + 1)
BY DEF ToolRec

LEMMA TimerParts ==
    ASSUME NEW n \in Nat
    PROVE  /\ \A f \in TimerRec(n) : f.gen \in 0 .. n /\ f.attempt \in 1 .. MaxAttempts
           /\ \A g \in 0 .. n, a \in 1 .. MaxAttempts :
                 [gen |-> g, attempt |-> a] \in TimerRec(n)
           /\ TimerRec(n) \subseteq TimerRec(n + 1)
BY DEF TimerRec

LEMMA ConvParts ==
    ASSUME NEW c \in ConvRec
    PROVE  /\ c.phase \in Phase /\ c.attempt \in 1 .. MaxAttempts
           /\ c.rest \in Seq(ToolId) /\ c.done \in Seq(ToolResult) /\ c.round \in Nat
BY DEF ConvRec

\* A state without tools is well formed and has collected nothing.
LEMMA Plain ==
    ASSUME NEW p \in Phase, NEW n \in 1 .. MaxAttempts
    PROVE  /\ At(p, n) \in ConvRec /\ At(p, n).phase = p /\ At(p, n).attempt = n
           /\ DOMAIN At(p, n).done = {}
BY DEF At, ConvRec

LEMMA PlainOne ==
    /\ \A p \in Phase : At(p, 1) \in ConvRec /\ At(p, 1).phase = p /\ DOMAIN At(p, 1).done = {}
    /\ Requesting \in ConvRec /\ Requesting.phase = "LlmRequesting"
    /\ DOMAIN Requesting.done = {}
<1>1. 1 \in 1 .. MaxAttempts
  BY BoundAssumption
<1> QED
  BY <1>1, Plain DEF Requesting, Phase

-----------------------------------------------------------------------------
(* The records of the state machine.                                        *)

\* What the records that a handler applies have in common, given the requests and
\* tool runs that stay in flight and the tool generation.
Fits(r, others, tools, tg) ==
    /\ r.conv \in ConvRec
    /\ \A i \in DOMAIN r.conv.done : r.conv.done[i].round = r.conv.round
    /\ others \subseteq llmTask /\ tools \subseteq toolTask /\ tg \in {toolGen, toolGen + 1}
    /\ "request" \in r.effects => r.conv = Requesting /\ conv.phase # "LlmRequesting"
    /\ "retry" \in r.effects =>
          r.conv.phase = "LlmRequesting" /\ conv.phase = "LlmRequesting"
    /\ r.conv.phase = "LlmRequesting" => "request" \in r.effects \/ "retry" \in r.effects
    /\ "execute" \in r.effects <=> r.conv.phase = "ToolExecuting"
    /\ r.conv.phase = "ToolExecuting" => r.conv.cur \in ToolId /\ r.first = "nothing"
    /\ r.conv.phase = "CancellingTool" =>
          /\ conv.phase = "ToolExecuting" /\ r.conv.round = conv.round
          /\ tg = toolGen /\ r.first = "nothing"
    /\ r.first = "user" <=> conv.phase \in {"Idle", "Error"}
    /\ r.first = "user" => "request" \in r.effects
    /\ "abort_llm" \in r.effects =>
          conv.phase = "LlmRequesting" /\ r.conv.phase = "Idle"
    /\ conv.phase = "LlmRequesting" /\ "abort_llm" \notin r.effects =>
          \A t \in others : t.gen # llmGen

\* The record of each handler fits.
LEMMA FitsMessage ==
    ASSUME LoopInv, conv.phase \in {"Idle", "Error"}
    PROVE  Fits(OnMessage, llmTask, toolTask, toolGen)
BY PlainOne DEF Fits, OnMessage, Transition

LEMMA FitsAnswer ==
    ASSUME LoopInv, conv.phase = "LlmRequesting", NEW t \in llmTask, t.gen = llmGen,
           NEW first \in {"answer", "nothing"}
    PROVE  Fits(OnAnswer(first), llmTask \ {t}, toolTask, toolGen)
<1>1. \A u \in llmTask \ {t} : u.gen # llmGen
  BY Parts DEF LlmFits
<1> QED
  BY <1>1, PlainOne DEF Transition, Fits, OnAnswer, Phase

LEMMA FitsTools ==
    ASSUME LoopInv, conv.phase = "LlmRequesting", NEW t \in llmTask, t.gen = llmGen,
           NEW calls \in ToolLists
    PROVE  Fits(OnTools(calls, t.gen), llmTask \ {t}, toolTask, toolGen)
<1> DEFINE c == [phase |-> "ToolExecuting", attempt |-> 1, cur |-> Head(calls),
                 rest |-> Tail(calls), done |-> <<>>, round |-> t.gen]
<1>1. \A u \in llmTask \ {t} : u.gen # llmGen
  BY Parts DEF LlmFits
<1>2. Head(calls) \in ToolId /\ Tail(calls) \in Seq(ToolId)
  BY ToolAssumption
<1>3. c \in ConvRec
  BY <1>2, BoundAssumption, Parts DEF ConvRec, LlmFits, Phase
<1>4. c.phase = "ToolExecuting" /\ c.cur \in ToolId /\ DOMAIN c.done = {}
  BY <1>2
<1>5. OnTools(calls, t.gen) = Transition(c, "nothing", TRUE, {"execute"})
  BY DEF OnTools
<1> HIDE DEF c
<1> QED
  BY <1>1, <1>3, <1>4, <1>5 DEF Transition, Fits

LEMMA FitsLlmError ==
    ASSUME LoopInv, conv.phase = "LlmRequesting", NEW t \in llmTask, t.gen = llmGen,
           NEW retryable \in BOOLEAN
    PROVE  Fits(OnLlmError(retryable), llmTask \ {t}, toolTask, toolGen)
<1>1. \A u \in llmTask \ {t} : u.gen # llmGen
  BY Parts DEF LlmFits
<1>2. CASE retryable /\ conv.attempt < MaxAttempts
  <2>1. conv.attempt + 1 \in 1 .. MaxAttempts
    BY <1>2, BoundAssumption, Parts, ConvParts DEF ConvFits
  <2>2. /\ At("LlmRequesting", conv.attempt + 1) \in ConvRec
        /\ At("LlmRequesting", conv.attempt + 1).phase = "LlmRequesting"
        /\ DOMAIN At("LlmRequesting", conv.attempt + 1).done = {}
    BY <2>1, Plain DEF Phase
  <2> QED
    BY ZenonT(60), <1>1, <1>2, <2>2 DEF Transition, Fits, OnLlmError
<1>3. CASE ~(retryable /\ conv.attempt < MaxAttempts)
  BY ZenonT(60), <1>1, <1>3, PlainOne DEF Transition, Fits, OnLlmError, Phase
<1> QED
  BY <1>2, <1>3

LEMMA FitsAuthError ==
    ASSUME LoopInv, conv.phase = "LlmRequesting", NEW t \in llmTask, t.gen = llmGen
    PROVE  Fits(OnAuthError, llmTask \ {t}, toolTask, toolGen)
<1>1. \A u \in llmTask \ {t} : u.gen # llmGen
  BY Parts DEF LlmFits
<1> QED
  BY <1>1, PlainOne DEF Transition, Fits, OnAuthError, Phase

LEMMA FitsCredential ==
    ASSUME LoopInv, conv.phase = "AwaitingRecovery", NEW valid \in BOOLEAN
    PROVE  Fits(OnCredential(valid), llmTask, toolTask, toolGen)
BY PlainOne DEF Transition, Fits, OnCredential, Phase

LEMMA FitsToolStopped ==
    ASSUME LoopInv, conv.phase = "CancellingTool", NEW tools \in SUBSET toolTask,
           NEW tg \in {toolGen, toolGen + 1}
    PROVE  Fits(OnToolStopped, llmTask, tools, tg)
BY PlainOne DEF Transition, Fits, OnToolStopped, Phase

\* A result is appended to those of the response it belongs to.
LEMMA FitsToolComplete ==
    ASSUME LoopInv, conv.phase = "ToolExecuting", NEW k \in toolTask, k.gen = toolGen
    PROVE  Fits(OnToolComplete([id |-> k.id, round |-> k.round]),
                llmTask, toolTask \ {k}, toolGen)
<1> DEFINE r == [id |-> k.id, round |-> k.round]
           c == [conv EXCEPT !.cur = Head(conv.rest), !.rest = Tail(conv.rest),
                             !.done = Append(@, r)]
<1>1. r \in ToolResult /\ r.round = conv.round
  BY Parts, ToolParts DEF ToolFits, ToolResult
<1>2. CASE conv.rest # <<>>
  <2>1. Head(conv.rest) \in ToolId /\ Tail(conv.rest) \in Seq(ToolId)
    BY <1>2, Parts, ConvParts DEF ConvFits
  <2>2. Append(conv.done, r) \in Seq(ToolResult)
    BY <1>1, Parts, ConvParts DEF ConvFits
  <2>3. c \in ConvRec
    BY <2>1, <2>2, Parts, ZenonT(60) DEF ConvFits, ConvRec
  <2>4. /\ c.phase = "ToolExecuting" /\ c.cur \in ToolId
        /\ c.done = Append(conv.done, r) /\ c.round = conv.round
    BY <2>1, Parts DEF ConvFits, ConvRec
  <2>5. \A i \in DOMAIN Append(conv.done, r) : Append(conv.done, r)[i].round = conv.round
    BY <1>1, Parts, ConvParts DEF ConvFits, OwnResults
  <2>6. OnToolComplete(r) = Transition(c, "nothing", TRUE, {"execute"})
    BY <1>2 DEF OnToolComplete
  <2> HIDE DEF c, r
  <2> QED
    BY <2>3, <2>4, <2>5, <2>6 DEF Transition, Fits, r
<1>3. CASE conv.rest = <<>>
  BY <1>3, PlainOne DEF Transition, Fits, OnToolComplete
<1> QED
  BY <1>2, <1>3

LEMMA FitsCancel ==
    ASSUME LoopInv, conv.phase \in {"LlmRequesting", "ToolExecuting", "AwaitingRecovery"}
    PROVE  Fits(OnCancel, llmTask, toolTask, toolGen)
<1>1. CASE conv.phase = "ToolExecuting"
  <2> DEFINE c == [conv EXCEPT !.phase = "CancellingTool"]
  <2>1. /\ c \in ConvRec /\ c.phase = "CancellingTool"
        /\ c.done = conv.done /\ c.round = conv.round
    BY Parts DEF ConvFits, ConvRec, Phase
  <2>2. \A i \in DOMAIN conv.done : conv.done[i].round = conv.round
    BY Parts DEF ConvFits, OwnResults
  <2>3. OnCancel = Transition(c, "nothing", TRUE, {"abort_tool"})
    BY <1>1 DEF OnCancel
  <2> HIDE DEF c
  <2> QED
    BY <1>1, <2>1, <2>2, <2>3 DEF Transition, Fits
<1>2. CASE conv.phase = "LlmRequesting"
  BY <1>2, PlainOne DEF Transition, Fits, OnCancel, Phase
<1>3. CASE conv.phase = "AwaitingRecovery"
  BY <1>3, PlainOne DEF Transition, Fits, OnCancel, Phase
<1> QED
  BY <1>1, <1>2, <1>3

-----------------------------------------------------------------------------
(* Applying a record.                                                       *)

\* The requests left after an abort that the record asks for, and their generation.
Left(r, others) == IF "abort_llm" \in r.effects THEN Aborted(others) ELSE others
GenAfter(r) == IF "abort_llm" \in r.effects THEN llmGen + 1 ELSE llmGen

\* An abort changes nothing of a request but whether it is live.
LEMMA AbortKeeps ==
    ASSUME LlmFits, NEW others \in SUBSET llmTask
    PROVE  \A u \in Aborted(others) : \E t \in others :
              /\ u \in LlmRec(llmGen) /\ u.gen = t.gen /\ u.turn = t.turn
              /\ u = [t EXCEPT !.live = u.live]
              /\ u.live = (t.live /\ t.gen # llmGen)
<1> SUFFICES ASSUME NEW u \in Aborted(others)
             PROVE  \E t \in others :
                       /\ u \in LlmRec(llmGen) /\ u.gen = t.gen /\ u.turn = t.turn
                       /\ u = [t EXCEPT !.live = u.live]
                       /\ u.live = (t.live /\ t.gen # llmGen)
  OBVIOUS
<1>1. PICK t \in others : u = [t EXCEPT !.live = (t.live /\ t.gen # llmGen)]
  BY DEF Aborted
<1>2. t \in LlmRec(llmGen)
  BY DEF LlmFits
<1> QED
  BY <1>1, <1>2, ZenonT(60) DEF LlmRec

\* The requests left are distinguished by their generations; only a message, which
\* starts a turn, can find one of the current generation.
LEMMA LeftFits ==
    ASSUME LoopInv, NEW r, NEW others, NEW tools, NEW tg, Fits(r, others, tools, tg)
    PROVE  /\ GenAfter(r) \in {llmGen, llmGen + 1}
           /\ Left(r, others) \subseteq LlmRec(llmGen)
           /\ \A t, u \in Left(r, others) : t.gen = u.gen => t = u
           /\ \A t \in Left(r, others) : t.gen = GenAfter(r) => conv.phase = "Idle"
           /\ spent.faults = 0 => \A t \in Left(r, others) : ~t.live
<1>1. LlmFits /\ Awaited
  BY Parts
<1>2. others \in SUBSET llmTask
  BY DEF Fits
<1>3. CASE "abort_llm" \in r.effects
  <2>1. Left(r, others) = Aborted(others) /\ GenAfter(r) = llmGen + 1
    BY <1>3 DEF Left, GenAfter
  <2>2. Aborted(others) \subseteq LlmRec(llmGen)
    BY <1>1, <1>2, AbortKeeps
  <2>3. ASSUME NEW t \in Aborted(others), NEW u \in Aborted(others), t.gen = u.gen
        PROVE  t = u
    <3>1. PICK v \in others : /\ t.gen = v.gen /\ t = [v EXCEPT !.live = t.live]
                              /\ t.live = (v.live /\ v.gen # llmGen)
      BY <1>1, <1>2, AbortKeeps
    <3>2. PICK w \in others : /\ u.gen = w.gen /\ u = [w EXCEPT !.live = u.live]
                              /\ u.live = (w.live /\ w.gen # llmGen)
      BY <1>1, <1>2, AbortKeeps
    <3>3. v = w
      BY <1>1, <1>2, <2>3, <3>1, <3>2, ZenonT(90) DEF LlmFits
    <3> QED
      BY <3>1, <3>2, <3>3
  <2>4. \A t \in Aborted(others) : t.gen # llmGen + 1
    BY <1>1, <2>2, LlmParts DEF LlmFits
  <2>5. spent.faults = 0 => \A t \in Aborted(others) : ~t.live
    <3> SUFFICES ASSUME spent.faults = 0, NEW t \in Aborted(others)
                 PROVE  ~t.live
      OBVIOUS
    <3>1. PICK v \in others : t.live = (v.live /\ v.gen # llmGen)
      BY <1>1, <1>2, AbortKeeps
    <3>2. v.live <=> v.gen = llmGen
      BY <1>1, <1>2 DEF Awaited, OneThingAwaited
    <3> QED
      BY <3>1, <3>2, ZenonT(60)
  <2> QED
    BY <2>1, <2>2, <2>3, <2>4, <2>5
<1>4. CASE "abort_llm" \notin r.effects
  <2>1. Left(r, others) = others /\ GenAfter(r) = llmGen
    BY <1>4 DEF Left, GenAfter
  <2>2. \A t \in others : t.gen = llmGen => conv.phase = "Idle"
    BY <1>1, <1>2, <1>4 DEF LlmFits, Fits
  <2>3. spent.faults = 0 => \A t \in others : ~t.live
    BY <1>1, <1>2, <1>4, <2>2 DEF Awaited, OneThingAwaited
  <2> QED
    BY <1>1, <1>2, <2>1, <2>2, <2>3 DEF LlmFits
<1> QED
  BY <1>3, <1>4

\* The state after a record: the record's, or that of the turn which follows at once.
LEMMA ApplyConv ==
    ASSUME LoopInv, NEW r, NEW others, NEW tools, NEW tg, Fits(r, others, tools, tg),
           \/ conv' = r.conv \/ conv' = Requesting \/ conv' = conv
    PROVE  ConvFits'
<1>1. CASE conv' = r.conv
  BY <1>1 DEF Fits, ConvFits, OwnResults
<1>2. CASE conv' = Requesting
  BY <1>2, PlainOne DEF ConvFits, OwnResults
<1>3. CASE conv' = conv
  BY <1>3, Parts DEF ConvFits, OwnResults
<1> QED
  BY <1>1, <1>2, <1>3

\* A request that is made has a new generation and is the only one of it.  Where
\* none is made, none has the current generation.
LEMMA ApplyLlm ==
    ASSUME LoopInv, NEW r, NEW others, NEW tools, NEW tg, Fits(r, others, tools, tg),
           Apply(r, others, tools, tg)
    PROVE  /\ LlmFits'
           /\ \A t \in llmTask' : t.gen = llmGen' => conv'.phase = "LlmRequesting" /\ t.live
           /\ spent.faults = 0 => \A t \in llmTask' : t.live => t.gen = llmGen'
           /\ conv'.phase = "LlmRequesting" =>
                 halting' \/ "retry" \in r.effects \/ \E t \in llmTask' : t.gen = llmGen'
           /\ "retry" \in r.effects => \A t \in llmTask' : t.gen # llmGen'
           /\ spent.faults = 0 /\ owed' => CycleCap > 0 /\ cycles' > CycleCap
<1> DEFINE asks == NextTurn(r.conv) \/ "request" \in r.effects
           owes == owed \/ Drains(r.conv) \/ r.first = "user"
           count == IF r.first = "user" THEN 0 ELSE cycles
           left == Left(r, others)
           g == GenAfter(r)
<1>1. /\ conv' = IF NextTurn(r.conv) THEN Requesting ELSE r.conv
      /\ turn' = IF NextTurn(r.conv) \/ r.first = "user" THEN turn + 1 ELSE turn
      /\ asks => RequestLlm(left, g, count, owes)
      /\ ~asks => /\ llmGen' = g /\ llmTask' = left /\ owed' = owes
                  /\ cycles' = cycles /\ halting' = halting
  BY DEF Apply, Left, GenAfter
<1>2. LlmFits /\ ConvFits /\ Awaited
  BY Parts
<1>3. /\ g \in {llmGen, llmGen + 1} /\ left \subseteq LlmRec(llmGen)
      /\ \A t, u \in left : t.gen = u.gen => t = u
      /\ \A t \in left : t.gen = g => conv.phase = "Idle"
      /\ spent.faults = 0 => \A t \in left : ~t.live
  BY LeftFits
<1>4. /\ owes \in BOOLEAN /\ count \in Nat /\ turn' \in Nat /\ g \in Nat
      /\ left \subseteq LlmRec(g) /\ \A t \in left : t.gen \in 0 .. g
  BY <1>1, <1>2, <1>3, LlmParts DEF LlmFits, Drains
<1>5. conv.phase = "Idle" => r.first = "user" /\ asks
  BY DEF Fits
<1>6. asks => conv'.phase = "LlmRequesting"
  BY <1>1, PlainOne DEF Fits
<1>7. ~asks => (conv'.phase = "LlmRequesting" => "retry" \in r.effects)
  BY <1>1 DEF Fits
<1>8. ~asks => owes = owed
  BY <1>2 DEF Fits, Drains, NextTurn, LlmFits
<1>12. "retry" \in r.effects => ~asks
  BY DEF Fits, NextTurn
<1> HIDE DEF asks, owes, count, left, g
<1>9. CASE ~asks
  <2>1. /\ llmGen' = g /\ llmTask' = left /\ owed' = owed
        /\ cycles' = cycles /\ halting' = halting
    BY <1>1, <1>8, <1>9
  <2>2. \A t \in left : t.gen # g
    BY <1>3, <1>5, <1>9
  <2>3. LlmFits'
    BY <1>2, <1>3, <1>4, <2>1, <2>2 DEF LlmFits
  <2>4. spent.faults = 0 /\ owed => CycleCap > 0 /\ cycles > CycleCap
    BY <1>2 DEF Awaited, OneThingAwaited
  <2> QED
    BY <1>3, <1>7, <1>9, <2>1, <2>2, <2>3, <2>4
<1>10. CASE asks /\ CycleCap > 0 /\ count >= CycleCap
  <2>1. /\ cycles' = count + 1 /\ halting' = TRUE /\ llmGen' = g /\ llmTask' = left
        /\ owed' = owes
    BY <1>1, <1>10 DEF RequestLlm
  <2>2. r.first # "user"
    BY <1>10, BoundAssumption DEF count
  <2>3. \A t \in left : t.gen # g
    BY <1>3, <1>5, <2>2
  <2>4. LlmFits'
    BY <1>3, <1>4, <2>1, <2>3 DEF LlmFits
  <2>5. cycles' > CycleCap
    BY <1>4, <1>10, <2>1, BoundAssumption
  <2> QED
    BY <1>3, <1>10, <1>12, <2>1, <2>3, <2>4, <2>5
<1>11. CASE asks /\ ~(CycleCap > 0 /\ count >= CycleCap)
  <2> DEFINE new == [gen |-> g + 1, turn |-> turn', live |-> TRUE]
  <2>1. /\ cycles' = IF CycleCap > 0 THEN count + 1 ELSE count
        /\ llmGen' = g + 1 /\ llmTask' = left \cup {new}
        /\ owed' = FALSE /\ halting' = halting
    BY <1>1, <1>11 DEF RequestLlm
  <2>2. new.gen = g + 1 /\ new.turn = turn' /\ new.live = TRUE /\ new \in LlmRec(g + 1)
    BY <1>4 DEF LlmRec
  <2> HIDE DEF new
  <2>3. llmTask' \subseteq LlmRec(g + 1)
    BY <1>4, <2>1, <2>2, LlmParts
  <2>4. \A t \in left : t.gen # g + 1
    BY <1>4
  <2>5. \A t \in llmTask' : t.gen = g + 1 => t = new
    BY <2>1, <2>4
  <2>6. \A t, u \in llmTask' : t.gen = u.gen => t = u
    BY <1>3, <2>1, <2>2, <2>4
  <2>7. cycles' \in Nat /\ llmGen' \in Nat /\ halting' \in BOOLEAN
    BY <1>2, <1>4, <2>1 DEF LlmFits
  <2>8. LlmFits'
    BY <1>4, <1>6, <1>11, <2>1, <2>2, <2>3, <2>5, <2>6, <2>7, ZenonT(60) DEF LlmFits
  <2> QED
    BY <1>3, <1>6, <1>11, <1>12, <2>1, <2>2, <2>5, <2>8
<1> QED
  BY <1>9, <1>10, <1>11

\* A tool that is started has a new generation and is for the record's response.
LEMMA ApplyTools ==
    ASSUME LoopInv, NEW r, NEW others, NEW tools, NEW tg, Fits(r, others, tools, tg),
           Apply(r, others, tools, tg)
    PROVE  /\ ToolFits'
           /\ conv'.phase = "ToolExecuting" =>
                 \E k \in toolTask' : k.gen = toolGen' /\ k.id = conv'.cur /\ k.gen \notin token'
<1>1. /\ conv' = IF NextTurn(r.conv) THEN Requesting ELSE r.conv
      /\ IF "execute" \in r.effects
         THEN ExecuteTool(r.conv, tools, tg)
         ELSE toolGen' = tg /\ toolTask' = tools
      /\ token' = IF "abort_tool" \in r.effects THEN token \cup {tg} ELSE token
  BY DEF Apply
<1>2. ToolFits /\ ConvFits
  BY Parts
<1>3. /\ tg \in Nat /\ tg \in {toolGen, toolGen + 1} /\ tools \subseteq toolTask
      /\ tools \subseteq ToolRec(tg) /\ token' \subseteq 0 .. tg
      /\ r.conv \in ConvRec /\ r.conv.round \in Nat
  BY <1>1, <1>2, ToolParts, ConvParts DEF ToolFits, Fits
<1>4. CASE "execute" \in r.effects
  <2> DEFINE new == [gen |-> tg + 1, id |-> r.conv.cur, round |-> r.conv.round]
  <2>1. conv' = r.conv /\ r.conv.phase = "ToolExecuting" /\ r.conv.cur \in ToolId
    BY <1>1, <1>4 DEF Fits, NextTurn
  <2>2. toolGen' = tg + 1 /\ toolTask' = tools \cup {new}
    BY ZenonT(60), <1>1, <1>4 DEF ExecuteTool
  <2>3. /\ new.gen = tg + 1 /\ new.id = r.conv.cur /\ new.round = r.conv.round
        /\ new \in ToolRec(tg + 1)
    BY <1>3, <2>1, ToolParts
  <2> HIDE DEF new
  <2>4. toolTask' \subseteq ToolRec(tg + 1)
    BY <1>3, <2>2, <2>3, ToolParts
  <2>5. \A k \in tools : k.gen # tg + 1
    BY <1>3, ToolParts
  <2>6. token' \subseteq 0 .. tg + 1 /\ tg + 1 \notin token'
    BY <1>3
  <2>7. ASSUME NEW k \in toolTask', k.gen = toolGen'
        PROVE  k.round = conv'.round
    BY <2>1, <2>2, <2>3, <2>5, <2>7, ZenonT(60)
  <2>8. toolGen' \in Nat
    BY <1>3, <2>2
  <2>9. /\ new \in toolTask' /\ new.gen = toolGen' /\ new.id = conv'.cur
        /\ new.gen \notin token'
    BY <2>1, <2>2, <2>3, <2>6, ZenonT(60)
  <2>10. ToolFits'
    BY <2>2, <2>4, <2>6, <2>7, <2>8 DEF ToolFits
  <2> QED
    BY <2>9, <2>10, ZenonT(60)
<1>5. CASE "execute" \notin r.effects
  <2>1. toolGen' = tg /\ toolTask' = tools
    BY <1>1, <1>5
  <2>2. conv'.phase # "ToolExecuting"
    BY <1>1, <1>5, PlainOne DEF Fits
  <2>3. conv'.phase = "CancellingTool" =>
           conv.phase = "ToolExecuting" /\ conv'.round = conv.round /\ tg = toolGen
    BY <1>1, PlainOne DEF Fits
  <2> QED
    BY <1>2, <1>3, <2>1, <2>2, <2>3 DEF ToolFits
<1> QED
  BY <1>4, <1>5

\* The timer that was held is retired unless the same request is waited for.
LEMMA Retired ==
    ASSUME LoopInv, NEW c, RetireTimer(c),
           c.phase = "LlmRequesting" /\ conv.phase = "LlmRequesting" =>
               conv'.phase = "LlmRequesting"
    PROVE  /\ timerHeld' => timerHeld /\ c.phase = "LlmRequesting"
           /\ timers' = timers
           /\ TimerFits'
<1>1. TimerFits
  BY Parts
<1>2. /\ timerHeld' = (timerHeld /\ c.phase = "LlmRequesting") /\ timers' = timers
      /\ retryGen' = IF timerHeld /\ c.phase # "LlmRequesting" THEN retryGen + 1 ELSE retryGen
  BY DEF RetireTimer
<1>3. CASE timerHeld /\ c.phase # "LlmRequesting"
  <2>1. retryGen' = retryGen + 1 /\ timerHeld' = FALSE
    BY <1>2, <1>3, ZenonT(90)
  <2>2. timers \subseteq TimerRec(retryGen + 1) /\ \A f \in timers : f.gen # retryGen + 1
    BY <1>1, TimerParts DEF TimerFits
  <2> QED
    BY <1>1, <1>2, <2>1, <2>2 DEF TimerFits
<1>4. CASE ~(timerHeld /\ c.phase # "LlmRequesting")
  <2>1. retryGen' = retryGen /\ timerHeld' = timerHeld
    BY <1>1, <1>2, <1>4 DEF TimerFits
  <2> QED
    BY <1>1, <1>2, <1>4, <2>1 DEF TimerFits
<1> QED
  BY <1>3, <1>4

\* A timer is held after a record only if the record schedules it, for its attempt.
LEMMA ApplyTimers ==
    ASSUME LoopInv, NEW r, NEW others, NEW tools, NEW tg, Fits(r, others, tools, tg),
           Apply(r, others, tools, tg)
    PROVE  /\ TimerFits'
           /\ timerHeld' => "retry" \in r.effects
           /\ \A f \in timers' : f.gen = retryGen' => f.attempt = conv'.attempt
           /\ "retry" \in r.effects =>
                 \E f \in timers' : f.gen = retryGen' /\ f.attempt = conv'.attempt
<1>1. /\ conv' = IF NextTurn(r.conv) THEN Requesting ELSE r.conv
      /\ IF "retry" \in r.effects THEN ScheduleRetry(r.conv) ELSE RetireTimer(r.conv)
  BY ZenonT(60) DEF Apply
<1>2. TimerFits
  BY Parts
<1>3. CASE "retry" \in r.effects
  <2> DEFINE new == [gen |-> retryGen + 1, attempt |-> r.conv.attempt]
  <2>1. /\ conv' = r.conv /\ r.conv.phase = "LlmRequesting"
        /\ r.conv.attempt \in 1 .. MaxAttempts
    BY <1>1, <1>3, ConvParts DEF Fits, NextTurn
  <2>2. /\ retryGen' = retryGen + 1 /\ timerHeld' = TRUE /\ timers' = timers \cup {new}
    BY <1>1, <1>3 DEF ScheduleRetry
  <2>3. /\ new.gen = retryGen + 1 /\ new.attempt = r.conv.attempt
        /\ new \in TimerRec(retryGen + 1)
    BY <1>2, <2>1 DEF TimerRec, TimerFits
  <2> HIDE DEF new
  <2>4. timers' \subseteq TimerRec(retryGen + 1)
    BY <1>2, <2>2, <2>3, TimerParts DEF TimerFits
  <2>5. \A f \in timers : f.gen # retryGen + 1
    BY <1>2, TimerParts DEF TimerFits
  <2>6. \A f, h \in timers' : f.gen = h.gen => f = h
    BY <1>2, <2>2, <2>3, <2>5 DEF TimerFits
  <2>7. TimerFits'
    BY <1>2, <2>1, <2>2, <2>4, <2>6 DEF TimerFits
  <2> QED
    BY ZenonT(60), <1>3, <2>1, <2>2, <2>3, <2>5, <2>7
<1>4. CASE "retry" \notin r.effects
  <2>1. RetireTimer(r.conv)
    BY <1>1, <1>4
  <2>2. ~(r.conv.phase = "LlmRequesting" /\ conv.phase = "LlmRequesting")
    BY <1>4 DEF Fits
  <2>3. TimerFits' /\ (timerHeld' => timerHeld /\ r.conv.phase = "LlmRequesting")
    BY <2>1, <2>2, Retired
  <2>4. ~timerHeld'
    BY <1>2, <2>2, <2>3 DEF TimerFits
  <2> QED
    BY <1>4, <2>3, <2>4 DEF TimerFits
<1> QED
  BY <1>3, <1>4

\* While every write succeeds, what a waiting conversation waits for is started.
LEMMA ApplyAwaited ==
    ASSUME LoopInv, NEW r, NEW others, NEW tools, NEW tg, Fits(r, others, tools, tg),
           Apply(r, others, tools, tg), spent.faults = 0
    PROVE  OneThingAwaited' /\ SomethingAwaited'
<1>1. OneThingAwaited'
  BY ApplyLlm, ApplyTimers DEF OneThingAwaited
<1>2. SomethingAwaited'
  BY ApplyLlm, ApplyTools, ApplyTimers DEF SomethingAwaited
<1> QED
  BY <1>1, <1>2

\* The state after a failed write is the record's, the old one, or that of the next
\* turn.
LEMMA FailsConv ==
    ASSUME LoopInv, NEW r, NEW others, NEW tools, NEW tg, Fits(r, others, tools, tg),
           ApplyFails(r, others, tools, tg)
    PROVE  /\ conv' = r.conv \/ conv' = Requesting \/ conv' = conv
           /\ r.conv.phase \in {"ToolExecuting", "CancellingTool"} => conv' = conv
<1>1. \/ r.first # "nothing" /\ (conv' = r.conv \/ conv' = conv)
      \/ conv' = IF Drains(r.conv) THEN r.conv ELSE conv
      \/ Drains(r.conv) /\ conv' = IF NextTurn(r.conv) THEN Requesting ELSE r.conv
  BY DEF ApplyFails
<1>2. r.conv.phase \in {"ToolExecuting", "CancellingTool"} =>
         r.first = "nothing" /\ ~Drains(r.conv)
  BY DEF Fits, Drains
<1> QED
  BY <1>1, <1>2

LEMMA FailsLlm ==
    ASSUME LoopInv, NEW r, NEW others, NEW tools, NEW tg, Fits(r, others, tools, tg),
           ApplyFails(r, others, tools, tg)
    PROVE  LlmFits'
<1>1. /\ cycles' = IF r.first = "user" THEN 0 ELSE cycles
      /\ halting' = halting /\ turn' = turn
      /\ owed' = owed \/ owed' = TRUE
      /\ \/ llmGen' = llmGen /\ llmTask' = others
         \/ /\ "abort_llm" \in r.effects /\ llmGen' = llmGen + 1
            /\ llmTask' = Aborted(others)
  BY DEF ApplyFails
<1>2. LlmFits
  BY Parts
<1>3. cycles' \in Nat /\ halting' \in BOOLEAN /\ turn' \in Nat /\ owed' \in BOOLEAN
  BY <1>1, <1>2, ZenonT(60) DEF LlmFits
<1>4. others \in SUBSET llmTask
  BY ZenonT(60) DEF Fits
<1>5. CASE llmGen' = llmGen /\ llmTask' = others
  <2>1. ASSUME NEW t \in others, t.gen = llmGen
        PROVE  conv'.phase \in {"LlmRequesting", "Idle"}
    <3>1. conv.phase \in {"LlmRequesting", "Idle"}
      BY <1>2, <1>4, <2>1 DEF LlmFits
    <3>2. r.conv.phase \in {"LlmRequesting", "Idle"}
      BY <2>1, <3>1, PlainOne DEF Fits
    <3> QED
      BY <3>1, <3>2, FailsConv, PlainOne
  <2> QED
    BY <1>1, <1>2, <1>3, <1>4, <1>5, <2>1 DEF LlmFits
<1>6. CASE /\ "abort_llm" \in r.effects /\ llmGen' = llmGen + 1
           /\ llmTask' = Aborted(others)
  <2>1. llmTask' = Left(r, others) /\ llmGen' \in Nat
    BY <1>2, <1>6 DEF Left, LlmFits
  <2>2. llmTask' \subseteq LlmRec(llmGen) /\ \A t, u \in llmTask' : t.gen = u.gen => t = u
    BY <2>1, LeftFits
  <2>3. llmTask' \subseteq LlmRec(llmGen') /\ \A t \in llmTask' : t.gen # llmGen'
    BY <1>2, <1>6, <2>2, LlmParts DEF LlmFits
  <2> QED
    BY <1>3, <2>1, <2>2, <2>3 DEF LlmFits
<1> QED
  BY <1>1, <1>5, <1>6

LEMMA FailsTools ==
    ASSUME LoopInv, NEW r, NEW others, NEW tools, NEW tg, Fits(r, others, tools, tg),
           ApplyFails(r, others, tools, tg)
    PROVE  ToolFits'
<1>1. /\ toolGen' = tg /\ toolTask' = tools
      /\ token' = token \/ token' = token \cup {tg}
  BY DEF ApplyFails
<1>2. ToolFits
  BY Parts
<1>3. /\ tg \in Nat /\ tg \in {toolGen, toolGen + 1} /\ tools \subseteq toolTask
      /\ tools \subseteq ToolRec(tg) /\ token' \subseteq 0 .. tg
  <2>1. /\ tg \in Nat /\ tg \in {toolGen, toolGen + 1} /\ tools \subseteq toolTask
        /\ token \subseteq 0 .. tg /\ tg \in 0 .. tg
    BY <1>2 DEF ToolFits, Fits
  <2>2. tools \subseteq ToolRec(tg)
    BY <1>2, <2>1, ToolParts DEF ToolFits
  <2> QED
    BY <1>1, <2>1, <2>2, ZenonT(60)
<1>4. conv'.phase \in {"ToolExecuting", "CancellingTool"} => conv' = conv
  BY FailsConv, PlainOne
<1>5. \A k \in tools : k.gen = tg => k.gen = toolGen
  BY <1>2, <1>3, ToolParts DEF ToolFits
<1> QED
  BY <1>1, <1>2, <1>3, <1>4, <1>5 DEF ToolFits

\* Applying a record of the state machine keeps the invariant.
LEMMA RunKeeps ==
    ASSUME LoopInv, NEW r, NEW others, NEW tools, NEW tg, Fits(r, others, tools, tg),
           Run(r, others, tools, tg), InputFits'
    PROVE  LoopInv'
<1>1. CASE /\ Apply(r, others, tools, tg)
           /\ spent' = IF Starts(r) THEN [spent EXCEPT !.rounds = @ + 1] ELSE spent
  <2>1. CountFits' /\ spent'.faults = spent.faults
    BY <1>1, Parts DEF CountFits, SpentRec, Apply
  <2>2. ConvFits'
    BY <1>1, ApplyConv DEF Apply
  <2>3. Awaited'
    BY <1>1, <2>1, ApplyAwaited DEF Awaited
  <2> QED
    BY <1>1, <2>1, <2>2, <2>3, ApplyLlm, ApplyTools, ApplyTimers, PartsNext
<1>2. CASE ApplyFails(r, others, tools, tg) /\ spent' = [spent EXCEPT !.faults = @ + 1]
  <2>1. CountFits' /\ spent'.faults # 0
    BY <1>2, Parts DEF CountFits, SpentRec, ApplyFails
  <2>2. ConvFits'
    BY <1>2, FailsConv, ApplyConv
  <2>3. TimerFits'
    BY <1>2, FailsConv, Retired, PlainOne DEF ApplyFails
  <2>4. Awaited'
    BY <2>1 DEF Awaited
  <2> QED
    BY <1>2, <2>1, <2>2, <2>3, <2>4, FailsLlm, FailsTools, PartsNext
<1> QED
  BY <1>1, <1>2 DEF Run

-----------------------------------------------------------------------------
(* The steps.                                                               *)

LEMMA InitFits ==
    Init => LoopInv
<1> SUFFICES ASSUME Init
             PROVE  LoopInv
  OBVIOUS
<1>1. ConvFits
  BY PlainOne DEF Init, ConvFits, OwnResults, Phase
<1>2. conv.phase = "Idle"
  BY PlainOne DEF Init, Phase
<1>3. LlmFits /\ ToolFits /\ TimerFits
  BY <1>2, ZenonT(60) DEF Init, LlmFits, ToolFits, TimerFits
<1>5. InputFits
  <2>1. queue = <<>> /\ ask = FALSE
    BY DEF Init
  <2>2. queue \in Seq({"steer", "cancel"}) /\ Len(queue) = 0
    BY <2>1
  <2>3. 0 <= QueueCap
    BY BoundAssumption
  <2>4. ask \in BOOLEAN /\ Len(queue) <= QueueCap
    BY <2>1, <2>2, <2>3, ZenonT(60)
  <2> QED
    BY <2>2, <2>4 DEF InputFits
<1>6. CountFits
  BY DEF Init, CountFits, SpentRec
<1>4. Awaited
  BY <1>2 DEF Init, Awaited, OneThingAwaited, SomethingAwaited
<1> QED
  BY <1>1, <1>3, <1>4, <1>5, <1>6, Parts

LEMMA LlmOutcomeKeeps ==
    ASSUME LoopInv, NEW t \in llmTask, LlmOutcome(t)
    PROVE  LoopInv'
<1>1. InputFits'
  BY Parts DEF LlmOutcome, inputs, InputFits
<1>2. CASE /\ LlmOutcomeIsStale(t) \/ conv.phase # "LlmRequesting"
           /\ llmTask' = llmTask \ {t}
           /\ UNCHANGED <<kept, toolTask, timers>>
  <2>1. ConvFits' /\ ToolFits' /\ TimerFits' /\ CountFits'
    BY <1>2, Parts DEF kept, ConvFits, OwnResults, ToolFits, TimerFits, CountFits
  <2>2. LlmFits'
    BY <1>2, Parts DEF kept, LlmFits
  <2>3. Awaited'
    <3> SUFFICES ASSUME spent'.faults = 0
                 PROVE  OneThingAwaited' /\ SomethingAwaited'
      BY DEF Awaited
    <3>1. OneThingAwaited /\ SomethingAwaited
      BY <1>2, Parts DEF kept, Awaited
    <3>2. t.gen # llmGen
      BY <1>2, <3>1 DEF LlmOutcomeIsStale, OneThingAwaited
    <3>3. OneThingAwaited'
      BY <1>2, <3>1 DEF kept, OneThingAwaited
    <3>4. SomethingAwaited'
      BY ZenonT(60), <1>2, <3>1, <3>2 DEF kept, SomethingAwaited, LlmOutcome, inputs
    <3> QED
      BY <3>3, <3>4
  <2> QED
    BY <1>1, <2>1, <2>2, <2>3, PartsNext
<1>3. CASE /\ ~LlmOutcomeIsStale(t) /\ conv.phase = "LlmRequesting"
           /\ \E r \in LlmTransitions(t) : Run(r, llmTask \ {t}, toolTask, toolGen)
  <2>1. PICK r \in LlmTransitions(t) : Run(r, llmTask \ {t}, toolTask, toolGen)
    BY <1>3
  <2>2. t.gen = llmGen /\ conv.phase = "LlmRequesting"
    BY <1>3 DEF LlmOutcomeIsStale
  <2>3. \/ r = OnAnswer("answer") \/ r = OnAnswer("nothing")
        \/ r = OnLlmError(TRUE) \/ r = OnLlmError(FALSE) \/ r = OnAuthError
        \/ \E calls \in ToolLists : r = OnTools(calls, t.gen)
    BY ZenonT(60) DEF LlmTransitions
  <2>4. Fits(r, llmTask \ {t}, toolTask, toolGen)
    BY <2>2, <2>3, FitsAnswer, FitsLlmError, FitsAuthError, FitsTools, ZenonT(90)
  <2> QED
    BY <1>1, <2>1, <2>4, RunKeeps
<1> QED
  BY <1>2, <1>3 DEF LlmOutcome

LEMMA ToolOutcomeKeeps ==
    ASSUME LoopInv, NEW k \in toolTask, ToolOutcome(k)
    PROVE  LoopInv'
<1> DEFINE left == toolTask \ {k}
           taken(abort) == /\ ~ToolOutcomeIsStale(k) /\ k.id = conv.cur
                           /\ \/ conv.phase = "ToolExecuting" /\ ~abort
                              \/ conv.phase = "CancellingTool"
<1>1. InputFits'
  BY Parts, ZenonT(90) DEF ToolOutcome, inputs, InputFits
<1>2. PICK abort \in {FALSE, k.gen \in token} :
         \/ /\ ~taken(abort)
            /\ toolTask' = left
            /\ UNCHANGED <<kept, llmTask, timers>>
         \/ /\ taken(abort) /\ conv.phase = "ToolExecuting"
            /\ Run(OnToolComplete([id |-> k.id, round |-> k.round]), llmTask, left, toolGen)
         \/ /\ taken(abort) /\ conv.phase = "CancellingTool"
            /\ Run(OnToolStopped, llmTask, left, toolGen)
  BY ZenonT(60) DEF ToolOutcome
<1>3. CASE ~taken(abort) /\ toolTask' = left /\ UNCHANGED <<kept, llmTask, timers>>
  <2>1. ConvFits' /\ LlmFits' /\ TimerFits' /\ CountFits'
    BY ZenonT(60), <1>3, Parts DEF kept, ConvFits, OwnResults, LlmFits, TimerFits, CountFits
  <2>2. ToolFits'
    BY <1>3, Parts, ZenonT(60) DEF kept, ToolFits
  <2>3. Awaited'
    <3> SUFFICES ASSUME spent'.faults = 0
                 PROVE  OneThingAwaited' /\ SomethingAwaited'
      BY DEF Awaited
    <3>1. OneThingAwaited /\ SomethingAwaited
      BY ZenonT(60), <1>3, Parts DEF kept, Awaited
    <3>2. OneThingAwaited'
      BY ZenonT(60), <1>3, <3>1 DEF kept, OneThingAwaited
    <3>3. conv.phase = "ToolExecuting" =>
             ~(k.gen = toolGen /\ k.id = conv.cur /\ k.gen \notin token)
      BY <1>3, ZenonT(60) DEF ToolOutcomeIsStale
    <3>4. SomethingAwaited'
      BY <1>3, <3>1, <3>3, ZenonT(90) DEF kept, SomethingAwaited, ToolOutcome, inputs
    <3> QED
      BY <3>2, <3>4
  <2> QED
    BY <1>1, <2>1, <2>2, <2>3, PartsNext
<1>4. CASE /\ taken(abort) /\ conv.phase = "ToolExecuting"
           /\ Run(OnToolComplete([id |-> k.id, round |-> k.round]), llmTask, left, toolGen)
  <2>1. k.gen = toolGen
    BY <1>4 DEF ToolOutcomeIsStale
  <2>2. Fits(OnToolComplete([id |-> k.id, round |-> k.round]), llmTask, left, toolGen)
    BY ZenonT(60), <1>4, <2>1, FitsToolComplete
  <2> QED
    BY <1>1, <1>4, <2>2, RunKeeps
<1>5. CASE /\ taken(abort) /\ conv.phase = "CancellingTool"
           /\ Run(OnToolStopped, llmTask, left, toolGen)
  <2>1. Fits(OnToolStopped, llmTask, left, toolGen)
    BY <1>5, FitsToolStopped
  <2> QED
    BY ZenonT(60), <1>1, <1>5, <2>1, RunKeeps
<1> QED
  BY ZenonT(60), <1>2, <1>3, <1>4, <1>5

\* A fire that is taken belongs to the timer that is held: no request is current.
LEMMA RetryKeeps ==
    ASSUME LoopInv, NEW f \in timers, RetryTimeout(f)
    PROVE  LoopInv'
<1>1. /\ timers' = timers \ {f}
      /\ conv' = conv /\ toolGen' = toolGen /\ toolTask' = toolTask /\ token' = token
      /\ retryGen' = retryGen /\ steers' = steers /\ turn' = turn /\ spent' = spent
      /\ queue' = queue /\ ask' = ask
  BY DEF RetryTimeout, inputs
<1>2. ConvFits' /\ ToolFits' /\ InputFits' /\ CountFits'
  BY <1>1, Parts DEF ConvFits, OwnResults, ToolFits, InputFits, CountFits
<1>3. LlmFits /\ TimerFits /\ Awaited
  BY Parts
<1>4. CASE /\ RetryTimeoutIsStale(f)
           /\ UNCHANGED <<timerHeld, llmGen, llmTask, cycles, halting, owed>>
  <2>1. TimerFits' /\ LlmFits'
    BY <1>1, <1>3, <1>4 DEF TimerFits, LlmFits
  <2>2. f.gen # retryGen
    BY <1>4 DEF RetryTimeoutIsStale
  <2>3. Awaited'
    BY <1>1, <1>3, <1>4, <2>2 DEF Awaited, OneThingAwaited, SomethingAwaited
  <2> QED
    BY <1>2, <2>1, <2>3, PartsNext
<1>5. CASE ~RetryTimeoutIsStale(f)
  <2>1. f.gen = retryGen /\ timerHeld /\ conv.phase = "LlmRequesting"
    BY <1>3, <1>5 DEF RetryTimeoutIsStale, TimerFits
  <2>2. /\ timerHeld' = FALSE
        /\ IF conv.attempt = f.attempt
           THEN RequestLlm(llmTask, llmGen, cycles, owed)
           ELSE UNCHANGED <<llmGen, llmTask, cycles, halting, owed>>
    BY <1>5, <2>1, ZenonT(60) DEF RetryTimeout
  <2>3. \A h \in timers' : h.gen # retryGen
    BY <1>1, <1>3, <2>1 DEF TimerFits
  <2>4. TimerFits'
    BY <1>1, <1>3, <2>2, <2>3, ZenonT(60) DEF TimerFits
  <2>5. CASE conv.attempt # f.attempt
    <3>1. LlmFits'
      BY ZenonT(60), <1>1, <1>3, <2>2, <2>5 DEF LlmFits
    <3>2. spent.faults # 0
      BY <1>3, <2>1, <2>5 DEF Awaited, OneThingAwaited
    <3>3. Awaited'
      BY <1>1, <3>2 DEF Awaited
    <3> QED
      BY <1>2, <2>4, <3>1, <3>3, PartsNext
  <2>6. CASE conv.attempt = f.attempt /\ CycleCap > 0 /\ cycles >= CycleCap
    <3>1. /\ cycles' = cycles + 1 /\ halting' = TRUE /\ llmGen' = llmGen
          /\ llmTask' = llmTask /\ owed' = owed
      BY <2>2, <2>6 DEF RequestLlm
    <3>2. LlmFits'
      BY <1>1, <1>3, <3>1 DEF LlmFits
    <3>3. cycles' > CycleCap
      BY <1>3, <2>6, <3>1, BoundAssumption DEF LlmFits
    <3>4. Awaited'
      BY <1>1, <1>3, <2>1, <2>3, <2>6, <3>1, <3>3
         DEF Awaited, OneThingAwaited, SomethingAwaited
    <3> QED
      BY <1>2, <2>4, <3>2, <3>4, PartsNext
  <2>7. CASE conv.attempt = f.attempt /\ ~(CycleCap > 0 /\ cycles >= CycleCap)
    <3> DEFINE new == [gen |-> llmGen + 1, turn |-> turn', live |-> TRUE]
    <3>1. /\ cycles' = IF CycleCap > 0 THEN cycles + 1 ELSE cycles
          /\ llmGen' = llmGen + 1 /\ llmTask' = llmTask \cup {new}
          /\ owed' = FALSE /\ halting' = halting
      BY <2>2, <2>7 DEF RequestLlm
    <3>2. /\ new.gen = llmGen + 1 /\ new.turn = turn' /\ new.live = TRUE
          /\ new \in LlmRec(llmGen + 1)
      BY <1>1, <1>3 DEF LlmRec, LlmFits
    <3> HIDE DEF new
    <3>3. llmTask' \subseteq LlmRec(llmGen + 1)
      BY <1>3, <3>1, <3>2, LlmParts DEF LlmFits
    <3>4. \A t \in llmTask : t.gen # llmGen + 1
      BY <1>3, LlmParts DEF LlmFits
    <3>5. \A t, u \in llmTask' : t.gen = u.gen => t = u
      BY <1>3, <3>1, <3>2, <3>4 DEF LlmFits
    <3>6. cycles' \in Nat /\ llmGen' \in Nat /\ halting' \in BOOLEAN /\ turn' \in Nat
      BY <1>1, <1>3, <3>1 DEF LlmFits
    <3>7. LlmFits'
      BY <1>1, <2>1, <3>1, <3>2, <3>3, <3>4, <3>5, <3>6, ZenonT(90) DEF LlmFits
    <3>8. spent.faults = 0 => \A t \in llmTask : ~t.live
      BY <1>3, <2>1 DEF Awaited, OneThingAwaited
    <3>9. spent.faults = 0 => OneThingAwaited'
      BY <1>1, <2>1, <2>2, <2>3, <3>1, <3>2, <3>4, <3>8 DEF OneThingAwaited
    <3>10. SomethingAwaited'
      <4>1. \E t \in llmTask' : t.gen = llmGen'
        BY <3>1, <3>2
      <4> QED
        BY ZenonT(60), <1>1, <2>1, <4>1 DEF SomethingAwaited
    <3> QED
      BY <1>1, <1>2, <2>4, <3>7, <3>9, <3>10, PartsNext DEF Awaited
  <2> QED
    BY <2>5, <2>6, <2>7
<1> QED
  BY <1>4, <1>5 DEF RetryTimeout

\* A step that changes only the inputs and counters: every cancellation in the
\* channel is still there, unless the phase is one that waits for none.
LEMMA InputKeeps ==
    ASSUME LoopInv, InputFits', CountFits', spent'.faults = spent.faults, halting' \in BOOLEAN,
           UNCHANGED <<conv, tasks, cycles, owed, turn>>,
           conv.phase = "LlmRequesting" =>
              /\ halting => halting' \/ \E i \in DOMAIN queue' : queue'[i] = "cancel"
              /\ (\E i \in DOMAIN queue : queue[i] = "cancel") =>
                    \E i \in DOMAIN queue' : queue'[i] = "cancel"
    PROVE  LoopInv'
<1>1. ConvFits' /\ LlmFits' /\ ToolFits' /\ TimerFits'
  BY Parts DEF tasks, ConvFits, OwnResults, LlmFits, ToolFits, TimerFits
<1>2. spent.faults = 0 => OneThingAwaited'
  BY Parts DEF tasks, Awaited, OneThingAwaited
<1>3. spent.faults = 0 => SomethingAwaited'
  BY Parts DEF tasks, Awaited, SomethingAwaited
<1> QED
  BY <1>1, <1>2, <1>3, PartsNext DEF Awaited

LEMMA AppendInput ==
    ASSUME LoopInv, NEW e \in {"steer", "cancel"}, Len(queue) < QueueCap,
           queue' = Append(queue, e), ask' = ask
    PROVE  /\ InputFits'
           /\ e = "cancel" => \E i \in DOMAIN queue' : queue'[i] = "cancel"
           /\ (\E i \in DOMAIN queue : queue[i] = "cancel") =>
                 \E i \in DOMAIN queue' : queue'[i] = "cancel"
<1>1. InputFits
  BY Parts
<1>2. InputFits'
  BY <1>1, BoundAssumption DEF InputFits
<1>3. queue'[Len(queue) + 1] = e /\ Len(queue) + 1 \in DOMAIN queue'
  BY <1>1 DEF InputFits
<1>4. \A i \in DOMAIN queue : i \in DOMAIN queue' /\ queue'[i] = queue[i]
  BY <1>1 DEF InputFits
<1> QED
  BY <1>2, <1>3, <1>4

LEMMA EventKeeps ==
    ASSUME LoopInv, HandleEvent
    PROVE  LoopInv'
<1>1. InputFits /\ CountFits
  BY Parts
<1>2. queue # <<>> /\ queue' = Tail(queue) /\ ask' = ask
  BY DEF HandleEvent
<1>3. InputFits'
  BY <1>1, <1>2, BoundAssumption DEF InputFits
<1>4. CASE /\ Head(queue) = "steer" /\ steers' = steers + 1
           /\ UNCHANGED <<conv, tasks, cycles, halting, owed, turn, spent>>
  <2>1. CountFits'
    BY <1>1, <1>4 DEF CountFits
  <2>2. ASSUME NEW i \in DOMAIN queue, queue[i] = "cancel"
        PROVE  \E j \in DOMAIN queue' : queue'[j] = "cancel"
    <3>1. i # 1 /\ i \in 1 .. Len(queue)
      BY <1>1, <1>4, <2>2 DEF InputFits
    <3>2. i - 1 \in DOMAIN queue' /\ queue'[i - 1] = queue[i]
      BY <1>1, <1>2, <3>1 DEF InputFits
    <3> QED
      BY <2>2, <3>2
  <2>3. halting' \in BOOLEAN
    BY <1>4, Parts DEF LlmFits
  <2> QED
    BY <1>3, <1>4, <2>1, <2>2, <2>3, InputKeeps
<1>5. CASE /\ conv.phase \in {"Idle", "Error", "CancellingTool"}
           /\ UNCHANGED <<kept, llmTask, toolTask, timers>>
  <2>1. /\ CountFits' /\ halting' \in BOOLEAN /\ spent' = spent
        /\ UNCHANGED <<conv, tasks, cycles, owed, turn>>
    BY <1>1, <1>5, Parts DEF CountFits, LlmFits, kept, tasks
  <2> QED
    BY <1>3, <1>5, <2>1, InputKeeps
<1>6. CASE /\ conv.phase \in {"LlmRequesting", "ToolExecuting", "AwaitingRecovery"}
           /\ Run(OnCancel, llmTask, toolTask, toolGen)
  BY <1>3, <1>6, FitsCancel, RunKeeps
<1> QED
  BY <1>4, <1>5, <1>6 DEF HandleEvent

\* Every step keeps the invariant.
LEMMA NextKeeps ==
    LoopInv /\ [Next]_vars => LoopInv'
<1> SUFFICES ASSUME LoopInv, [Next]_vars
             PROVE  LoopInv'
  OBVIOUS
<1>1. CASE AnyLlmOutcome
  BY <1>1, LlmOutcomeKeeps DEF AnyLlmOutcome
<1>2. CASE AnyToolOutcome
  BY <1>2, ToolOutcomeKeeps DEF AnyToolOutcome
<1>3. CASE AnyRetryTimeout
  BY <1>3, RetryKeeps DEF AnyRetryTimeout
<1>4. CASE CancelBackstop
  <2>1. InputFits'
    BY <1>4, Parts DEF CancelBackstop, inputs, InputFits
  <2>2. Fits(OnToolStopped, llmTask, toolTask, toolGen + 1)
    BY <1>4, FitsToolStopped DEF CancelBackstop
  <2> QED
    BY <1>4, <2>1, <2>2, RunKeeps DEF CancelBackstop
<1>5. CASE CredentialSettles
  <2>1. InputFits'
    BY <1>5, Parts DEF CredentialSettles, inputs, InputFits
  <2>2. PICK valid \in BOOLEAN : Run(OnCredential(valid), llmTask, toolTask, toolGen)
    BY <1>5 DEF CredentialSettles
  <2>3. Fits(OnCredential(valid), llmTask, toolTask, toolGen)
    BY <1>5, FitsCredential DEF CredentialSettles
  <2> QED
    BY <2>1, <2>2, <2>3, RunKeeps
<1>6. CASE HandleEvent
  BY <1>6, EventKeeps
<1>7. CASE HandleMessage
  <2>1. InputFits'
    BY <1>7, Parts, ZenonT(60) DEF HandleMessage, InputFits
  <2> QED
    BY <1>7, <2>1, FitsMessage, RunKeeps DEF HandleMessage
<1>8. CASE HaltCycle
  <2>1. /\ Len(queue) < QueueCap /\ queue' = Append(queue, "cancel") /\ ask' = ask
        /\ halting' = FALSE /\ spent' = spent /\ steers' = steers
        /\ UNCHANGED <<conv, tasks, cycles, owed, turn>>
    BY <1>8 DEF HaltCycle
  <2>2. InputFits' /\ \E i \in DOMAIN queue' : queue'[i] = "cancel"
    BY <2>1, AppendInput
  <2>3. CountFits'
    BY <2>1, Parts DEF CountFits
  <2> QED
    BY <2>1, <2>2, <2>3, InputKeeps, ZenonT(60)
<1>9. CASE SendMessage
  <2>1. /\ spent' = [spent EXCEPT !.messages = @ + 1] /\ halting' = halting
        /\ steers' = steers /\ UNCHANGED <<conv, tasks, cycles, owed, turn>>
        /\ \/ ask' = TRUE /\ queue' = queue
           \/ /\ Len(queue) < QueueCap
              /\ queue' = Append(queue, "steer") /\ ask' = ask
    BY <1>9 DEF SendMessage
  <2>2. CountFits' /\ spent'.faults = spent.faults /\ halting' \in BOOLEAN
    BY <2>1, Parts DEF CountFits, SpentRec, LlmFits
  <2>3. InputFits'
    BY <2>1, AppendInput, Parts, ZenonT(60) DEF InputFits
  <2>4. (\E i \in DOMAIN queue : queue[i] = "cancel") =>
           \E i \in DOMAIN queue' : queue'[i] = "cancel"
    BY <2>1, AppendInput
  <2> QED
    BY <2>1, <2>2, <2>3, <2>4, InputKeeps
<1>10. CASE RequestCancel
  <2>1. /\ spent' = [spent EXCEPT !.cancels = @ + 1] /\ halting' = halting
        /\ steers' = steers /\ UNCHANGED <<conv, tasks, cycles, owed, turn>>
        /\ Len(queue) < QueueCap /\ queue' = Append(queue, "cancel") /\ ask' = ask
    BY <1>10 DEF RequestCancel
  <2>2. CountFits' /\ spent'.faults = spent.faults /\ halting' \in BOOLEAN
    BY <2>1, Parts DEF CountFits, SpentRec, LlmFits
  <2>3. InputFits' /\ \E i \in DOMAIN queue' : queue'[i] = "cancel"
    BY <2>1, AppendInput
  <2> QED
    BY <2>1, <2>2, <2>3, InputKeeps
<1>11. CASE UNCHANGED vars
  <2>1. /\ UNCHANGED <<conv, tasks, cycles, owed, turn>> /\ queue' = queue /\ ask' = ask
        /\ halting' = halting /\ spent' = spent /\ steers' = steers
    BY <1>11 DEF vars, tasks
  <2>2. InputFits' /\ CountFits' /\ halting' \in BOOLEAN
    BY <2>1, Parts DEF InputFits, CountFits, LlmFits
  <2> QED
    BY <2>1, <2>2, InputKeeps
<1> QED
  BY <1>1, <1>2, <1>3, <1>4, <1>5, <1>6, <1>7, <1>8, <1>9, <1>10, <1>11 DEF Next

\* LoopInv holds always.
LEMMA AlwaysLoopInv ==
    Spec => []LoopInv
BY InitFits, NextKeeps, PTL DEF Spec

-----------------------------------------------------------------------------
(* The results.                                                             *)

\* The types hold; in particular no request is made more than MaxAttempts times, and
\* the event channel never holds more than its capacity.
THEOREM TypeCorrect ==
    Spec => []TypeOK
<1>1. LoopInv => TypeOK
  BY DEF LoopInv
<1> QED
  BY <1>1, AlwaysLoopInv, PTL

\* The results collected for a response are those of runs started for it, also when
\* a tool_use id is used again and writes fail.
THEOREM ResultsAreOwn ==
    Spec => []OwnResults
<1>1. LoopInv => OwnResults
  BY DEF LoopInv
<1> QED
  BY <1>1, AlwaysLoopInv, PTL

\* While every write succeeds, at most one request that was not aborted is in flight,
\* for any number of turns, retries and cancellations.
THEOREM OneRequest ==
    Spec => []SingleRequest
<1>1. LoopInv => SingleRequest
  BY DEF LoopInv, GenerationsFit, OneThingAwaited, SingleRequest
<1> QED
  BY <1>1, AlwaysLoopInv, PTL

\* While every write succeeds, a conversation that waits has somebody to wait for.
THEOREM AlwaysAwaited ==
    Spec => []NeverStranded
<1>1. LoopInv => NeverStranded
  BY DEF LoopInv, NeverStranded
<1> QED
  BY <1>1, AlwaysLoopInv, PTL

\* While every write succeeds, a turn that the cap did not halt leaves no message
\* unseen when it comes to rest.
THEOREM RestOwesNothing ==
    Spec => []IdleOwesNothing
<1>1. LoopInv => IdleOwesNothing
  <2> SUFFICES ASSUME LoopInv, cycles <= CycleCap, spent.faults = 0
               PROVE  ~owed
    BY DEF IdleOwesNothing
  <2>1. cycles \in Nat
    BY DEF LoopInv, TypeOK
  <2> QED
    BY <2>1, BoundAssumption DEF LoopInv, OneThingAwaited
<1> QED
  BY <1>1, AlwaysLoopInv, PTL

\* Applying a record forgets no request that it is given.
LEMMA RunRemembers ==
    ASSUME LoopInv, NEW r, NEW others \in SUBSET llmTask, NEW tools, NEW tg,
           Run(r, others, tools, tg)
    PROVE  \A t \in others : \E u \in llmTask' : u.gen = t.gen
<1>1. \A t \in others : \E u \in Aborted(others) : u.gen = t.gen
  <2> SUFFICES ASSUME NEW t \in others
               PROVE  \E u \in Aborted(others) : u.gen = t.gen
    OBVIOUS
  <2>1. t \in LlmRec(llmGen)
    BY Parts DEF LlmFits
  <2>2. [t EXCEPT !.live = (t.live /\ t.gen # llmGen)].gen = t.gen
    BY <2>1 DEF LlmRec
  <2>3. [t EXCEPT !.live = (t.live /\ t.gen # llmGen)] \in Aborted(others)
    BY DEF Aborted
  <2> QED
    BY <2>2, <2>3, ZenonT(60)
<1>2. others \subseteq llmTask' \/ Aborted(others) \subseteq llmTask'
  BY DEF Run, Apply, ApplyFails, RequestLlm
<1> QED
  BY <1>1, <1>2

\* An LLM outcome changes the conversation only in the turn it was requested for.
THEOREM OutcomesAreTheTurns ==
    Spec => OutcomeOfThisTurn
<1> DEFINE Own == \A t \in llmTask :
                     (conv' # conv /\ \A u \in llmTask' : u.gen # t.gen) => t.turn = turn
<1>1. LoopInv /\ [Next]_vars => [Own]_vars
  <2> SUFFICES ASSUME LoopInv, Next, conv' # conv,
                      NEW t \in llmTask, \A u \in llmTask' : u.gen # t.gen
               PROVE  t.turn = turn
    OBVIOUS
  <2>1. \A r, tools, tg : ~Run(r, llmTask, tools, tg)
    BY RunRemembers
  <2>2. PICK v \in llmTask : LlmOutcome(v)
    BY <2>1, ZenonT(60) DEF Next, AnyLlmOutcome, AnyToolOutcome, AnyRetryTimeout, ToolOutcome, RetryTimeout,
       CancelBackstop, CredentialSettles, HandleEvent, HandleMessage, HaltCycle, SendMessage,
       RequestCancel, kept
  <2>3. v.gen = llmGen /\ \E r : Run(r, llmTask \ {v}, toolTask, toolGen)
    BY <2>2 DEF LlmOutcome, LlmOutcomeIsStale, kept
  <2>4. \A w \in llmTask \ {v} : \E u \in llmTask' : u.gen = w.gen
    BY <2>3, RunRemembers
  <2>5. t = v
    BY <2>4
  <2> QED
    BY <2>3, <2>5 DEF LoopInv, GenerationsFit
<1> QED
  BY <1>1, AlwaysLoopInv, PTL DEF Spec, OutcomeOfThisTurn

=============================================================================
