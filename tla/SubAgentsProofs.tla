-------------------------- MODULE SubAgentsProofs ---------------------------
(***************************************************************************)
(* Proofs about SubAgents: RoundInv is inductive, and the accounting of    *)
(* agents follows, for every set of agents and every order of results.     *)
(*                                                                         *)
(* What a step does to the current round is one of five moves: nothing, a  *)
(* spawn, the collection of one result, the settlement of the round, or    *)
(* the expiry of the completion deadline.  NextMoves derives the move from *)
(* the action, RoundStep the invariant from the move.                      *)
(***************************************************************************)
EXTENDS SubAgents, FiniteSetTheorems, TLAPS

USE SMTT(60), ZenonT(60)

-----------------------------------------------------------------------------
(* Sets of agents, and sequences.                                           *)

\* Sets of agents are finite.
LEMMA FiniteAgents ==
  ASSUME NEW S \in SUBSET Agent
  PROVE  IsFiniteSet(S) /\ Cardinality(S) \in Nat
BY FS_Subset, FS_CardinalityType, AgentAssumption

\* A set of agents has at most one element iff any two elements of it are equal.
LEMMA AtMostOne ==
  ASSUME NEW S \in SUBSET Agent
  PROVE  Cardinality(S) <= 1 <=> \A x, y \in S : x = y
<1>1. ASSUME Cardinality(S) <= 1, NEW x \in S, NEW y \in S  PROVE x = y
  <2>1. Cardinality(S) = 0 \/ Cardinality(S) = 1
    BY <1>1, FiniteAgents
  <2>2. CASE Cardinality(S) = 0
    BY <2>2, <1>1, FiniteAgents, FS_EmptySet
  <2>3. CASE Cardinality(S) = 1
    <3>1. PICK z : S = {z}
      BY <2>3, FiniteAgents, FS_Singleton
    <3> QED
      BY <3>1, <1>1
  <2> QED
    BY <2>1, <2>2, <2>3
<1>2. ASSUME \A x, y \in S : x = y  PROVE Cardinality(S) <= 1
  <2>1. CASE S = {}
    BY <2>1, FS_EmptySet
  <2>2. CASE S # {}
    <3>1. PICK z : z \in S
      BY <2>2
    <3>2. S = {z}
      BY <3>1, <1>2
    <3> QED
      BY <3>2, FS_Singleton
  <2> QED
    BY <2>1, <2>2
<1> QED
  BY <1>1, <1>2

\* A set of agents with an element has a positive number of them.
LEMMA SomeAgent ==
  ASSUME NEW S \in SUBSET Agent, S # {}
  PROVE  Cardinality(S) > 0
BY FiniteAgents, FS_EmptySet

\* What Append adds to the elements of a sequence.
LEMMA RangeAppend ==
  ASSUME NEW T, NEW s \in Seq(T), NEW e \in T
  PROVE  Range(Append(s, e)) = Range(s) \union {e}
<1>1. /\ DOMAIN Append(s, e) = 1 .. (Len(s) + 1)
      /\ DOMAIN s = 1 .. Len(s) /\ Len(s) \in Nat
      /\ Append(s, e)[Len(s) + 1] = e
      /\ \A i \in 1 .. Len(s) : Append(s, e)[i] = s[i]
  OBVIOUS
<1> QED
  BY <1>1 DEF Range

\* A sequence without elements has an empty range.
LEMMA RangeEmpty ==
  ASSUME NEW T, NEW s \in Seq(T), Len(s) = 0
  PROVE  Range(s) = {}
BY DEF Range

\* The results the manager makes up for the agents of Q form a sequence.
LEMMA MadeUp ==
  ASSUME NEW Q \in SUBSET Agent, NEW q \in Bijection(1 .. Cardinality(Q), Q),
         NEW o \in Outcome
  PROVE  [i \in DOMAIN q |-> Result(q[i], o)] \in Seq({Result(a, o) : a \in Agent})
<1>1. Cardinality(Q) \in Nat
  BY FiniteAgents
<1>2. q \in [1 .. Cardinality(Q) -> Q]
  BY DEF Bijection, Injection
<1> DEFINE R == {Result(a, o) : a \in Agent}
<1>3. [i \in 1 .. Cardinality(Q) |-> Result(q[i], o)] \in [1 .. Cardinality(Q) -> R]
  BY <1>2
<1> HIDE DEF R
<1>4. DOMAIN q = 1 .. Cardinality(Q)
  BY <1>2
<1>5. [i \in DOMAIN q |-> Result(q[i], o)] \in Seq(R)
  BY <1>1, <1>3, <1>4
<1> QED
  BY <1>5 DEF R

-----------------------------------------------------------------------------
(* Moves of the round.                                                      *)

\* The round is left alone; agents may move on, and report when they end.
RoundStill ==
    /\ UNCHANGED <<pending, collected, reports, late, activeWork>>
    /\ phase = "CancellingSubAgents" /\ cause = "Timeout" => UNCHANGED <<phase, cause>>
    /\ \A a \in Agent :
          /\ agent[a] # "fresh" => agent'[a] # "fresh"
          /\ agent[a] = "fresh" => agent'[a] = "fresh"
          /\ agent[a] \in {"done", "gone"} => agent'[a] \in {"done", "gone"}
          /\ own'[a] # own[a] => agent[a] \notin {"done", "gone"} /\ agent'[a] = "done"

RoundSpawns(S) ==
    /\ MaySpawn(S)
    /\ pending' = pending \union S
    /\ agent' = [a \in Agent |-> IF a \in S THEN "requested" ELSE agent[a]]
    /\ activeWork' = activeWork + Cardinality(S \intersect Writer)
    /\ phase = "ToolExecuting"
    /\ UNCHANGED <<collected, reports, late, own>>

RoundCollects(a, o) ==
    /\ a \in pending /\ o \in Outcome
    /\ o = "success" => own[a] = "success"
    /\ a \in late => o = "timedout"
    /\ pending' = pending \ {a}
    /\ collected' = [collected EXCEPT ![a] = o]
    /\ a \notin Writer => activeWork' = activeWork
    /\ UNCHANGED <<phase, cause, reports, late, agent, own>>

RoundSettles(c) ==
    /\ c \in [Agent -> Outcome \union {"none"}]
    /\ \A a \in Agent : c[a] # "none" <=> a \in pending \/ collected[a] # "none"
    /\ \A a \in Agent : c[a] = "success" => own[a] = "success"
    /\ \A a \in late : c[a] \in {"none", "timedout"}
    /\ pending' = {} /\ collected' = NoCollected
    /\ reports' = [a \in Agent |-> IF c[a] = "none" THEN reports[a]
                                   ELSE Append(reports[a], c[a])]
    /\ UNCHANGED <<late, agent, own>>

RoundExpires ==
    /\ phase = "AwaitingSubAgents"
    /\ phase' = "CancellingSubAgents" /\ cause' = "Timeout"
    /\ late' = late \union pending
    /\ UNCHANGED <<pending, collected, reports, activeWork, agent, own>>

RoundMoves ==
    \/ RoundStill \/ RoundExpires
    \/ \E S \in SUBSET Agent : RoundSpawns(S)
    \/ \E a \in Agent, o \in Outcome : RoundCollects(a, o)
    \/ \E c \in [Agent -> Outcome \union {"none"}] : RoundSettles(c)

\* A move keeps the life of agents, the accounts and the deadline.
LEMMA RoundStep ==
  ASSUME RoundInv, RoundMoves,
         own' \in [Agent -> Outcome \union {"none"}],
         agent' \in [Agent -> Live \union {"fresh", "done", "gone"}]
  PROVE  /\ AgentLife' /\ LateAgents'
         /\ ReportedExactlyOnce' /\ SuccessIsReal' /\ DeadlineIsHard'
         /\ \A a \in Agent : collected'[a] = "success" => own'[a] = "success"
<1> USE DEF RoundInv
<1>0. /\ pending \in SUBSET Agent /\ late \in SUBSET Agent
      /\ collected \in [Agent -> Outcome \union {"none"}]
      /\ own \in [Agent -> Outcome \union {"none"}]
      /\ reports \in [Agent -> Seq(Outcome)]
      /\ agent \in [Agent -> Live \union {"fresh", "done", "gone"}]
      /\ \A a \in Agent : collected[a] = "success" => own[a] = "success"
  BY DEF TypeOK, HonestResults
<1>1. CASE RoundStill
  <2>1. \A a \in Agent : own[a] # "none" => own'[a] = own[a]
    BY <1>1 DEF RoundStill, AgentLife
  <2>2. \A a \in Agent : own[a] = "success" => own'[a] = "success"
    BY <2>1
  <2>3. \A a \in Agent : own'[a] # "none" => agent'[a] \in {"done", "gone"}
    <3> SUFFICES ASSUME NEW a \in Agent, own'[a] # "none"  PROVE agent'[a] \in {"done", "gone"}
      OBVIOUS
    <3>1. CASE own'[a] = own[a]
      BY <1>1, <3>1 DEF RoundStill, AgentLife
    <3>2. CASE own'[a] # own[a]
      BY <1>1, <3>2 DEF RoundStill
    <3> QED
      BY <3>1, <3>2
  <2>4. AgentLife'
    BY <1>0, <1>1, <2>3 DEF RoundStill, AgentLife
  <2>5. LateAgents'
    BY <1>0, <1>1 DEF RoundStill, LateAgents
  <2>6. ReportedExactlyOnce'
    BY <1>0, <1>1 DEF RoundStill, ReportedExactlyOnce
  <2>7. SuccessIsReal' /\ \A a \in Agent : collected'[a] = "success" => own'[a] = "success"
    BY <1>0, <1>1, <2>2 DEF RoundStill, SuccessIsReal
  <2>8. DeadlineIsHard'
    BY <1>1 DEF RoundStill, DeadlineIsHard
  <2> QED
    BY <2>4, <2>5, <2>6, <2>7, <2>8
<1>2. CASE RoundExpires
  <2> USE <1>2 DEF RoundExpires
  <2>1. AgentLife'
    BY <1>0 DEF AgentLife
  <2>2. LateAgents'
    BY <1>0 DEF LateAgents, AgentLife
  <2>3. ReportedExactlyOnce' /\ SuccessIsReal'
    BY <1>0 DEF ReportedExactlyOnce, SuccessIsReal
  <2>4. DeadlineIsHard'
    <3> SUFFICES ASSUME NEW a \in late'  PROVE Range(reports[a]) \subseteq {"timedout"}
      BY DEF DeadlineIsHard
    <3>1. CASE a \in late
      BY <3>1 DEF DeadlineIsHard
    <3>2. CASE a \in pending
      <4>1. Len(reports[a]) = 0
        BY <1>0, <3>2 DEF ReportedExactlyOnce
      <4> QED
        BY <4>1, <1>0, <3>2, RangeEmpty
    <3> QED
      BY <3>1, <3>2
  <2> QED
    BY <1>0, <2>1, <2>2, <2>3, <2>4
<1>3. ASSUME NEW S \in SUBSET Agent, RoundSpawns(S)
      PROVE  /\ AgentLife' /\ LateAgents'
             /\ ReportedExactlyOnce' /\ SuccessIsReal' /\ DeadlineIsHard'
             /\ \A a \in Agent : collected'[a] = "success" => own'[a] = "success"
  <2> USE <1>3 DEF RoundSpawns
  <2>1. \A a \in S : agent[a] = "fresh"
    BY DEF MaySpawn
  <2>2. AgentLife'
    BY <1>0, <2>1 DEF AgentLife
  <2>3. LateAgents'
    BY <1>0, <2>1 DEF LateAgents
  <2>4. ReportedExactlyOnce'
    BY <1>0, <2>1 DEF ReportedExactlyOnce
  <2>5. SuccessIsReal' /\ DeadlineIsHard'
    BY DEF SuccessIsReal, DeadlineIsHard
  <2> QED
    BY <1>0, <2>2, <2>3, <2>4, <2>5
<1>4. ASSUME NEW a \in Agent, NEW o \in Outcome, RoundCollects(a, o)
      PROVE  /\ AgentLife' /\ LateAgents'
             /\ ReportedExactlyOnce' /\ SuccessIsReal' /\ DeadlineIsHard'
             /\ \A b \in Agent : collected'[b] = "success" => own'[b] = "success"
  <2> USE <1>4 DEF RoundCollects
  <2>1. o # "none"
    BY DEF Outcome
  <2>2. AgentLife'
    BY <1>0, <2>1 DEF AgentLife
  <2>3. LateAgents'
    BY <1>0 DEF LateAgents
  <2>4. ReportedExactlyOnce'
    BY <1>0, <2>1 DEF ReportedExactlyOnce
  <2>5. SuccessIsReal' /\ DeadlineIsHard'
    BY DEF SuccessIsReal, DeadlineIsHard
  <2> QED
    BY <1>0, <2>2, <2>3, <2>4, <2>5
<1>5. ASSUME NEW c \in [Agent -> Outcome \union {"none"}], RoundSettles(c)
      PROVE  /\ AgentLife' /\ LateAgents'
             /\ ReportedExactlyOnce' /\ SuccessIsReal' /\ DeadlineIsHard'
             /\ \A b \in Agent : collected'[b] = "success" => own'[b] = "success"
  <2> USE <1>5 DEF RoundSettles
  <2>1. \A a \in Agent : collected'[a] = "none"
    BY DEF NoCollected
  <2>2. AgentLife' /\ LateAgents'
    BY <1>0, <2>1 DEF AgentLife, LateAgents
  <2>3. \A a \in Agent : c[a] # "none" =>
            /\ c[a] \in Outcome /\ agent[a] # "fresh"
            /\ Len(reports[a]) = 0 /\ reports[a] \in Seq(Outcome)
            /\ reports'[a] = Append(reports[a], c[a])
    BY <1>0 DEF AgentLife, ReportedExactlyOnce
  <2>4. \A a \in Agent : c[a] # "none" =>
            Len(reports'[a]) = 1 /\ Range(reports'[a]) = {c[a]}
    <3> SUFFICES ASSUME NEW a \in Agent, c[a] # "none"
                 PROVE  Len(reports'[a]) = 1 /\ Range(reports'[a]) = {c[a]}
      BY ZenonT(60)
    <3>1. Range(reports'[a]) = Range(reports[a]) \union {c[a]}
      BY <2>3, RangeAppend
    <3>2. Range(reports[a]) = {}
      BY <2>3, RangeEmpty
    <3>3. Len(reports'[a]) = Len(reports[a]) + 1
      BY <2>3
    <3> QED
      BY <3>1, <3>2, <3>3, <2>3
  <2>5. \A a \in Agent : c[a] = "none" => reports'[a] = reports[a]
    OBVIOUS
  <2>6. ReportedExactlyOnce'
    BY <1>0, <2>1, <2>3, <2>4, <2>5, ZenonT(60) DEF ReportedExactlyOnce
  <2>7. SuccessIsReal'
    BY <1>0, <2>4, <2>5 DEF SuccessIsReal
  <2>8. DeadlineIsHard'
    <3> SUFFICES ASSUME NEW a \in late  PROVE Range(reports'[a]) \subseteq {"timedout"}
      BY ZenonT(60) DEF DeadlineIsHard
    <3>1. a \in Agent /\ c[a] \in {"none", "timedout"}
      BY <1>0
    <3>2. CASE c[a] = "none"
      BY <3>1, <3>2, <2>5, ZenonT(60) DEF DeadlineIsHard
    <3>3. CASE c[a] = "timedout"
      BY <3>1, <3>3, <2>4, ZenonT(90)
    <3> QED
      BY <3>1, <3>2, <3>3
  <2> QED
    BY <2>1, <2>2, <2>6, <2>7, <2>8
<1> QED
  BY <1>1, <1>2, <1>3, <1>4, <1>5 DEF RoundMoves

\* A move keeps at most one Work agent in the round, and the counter positive for it.
LEMMA WriterStep ==
  ASSUME RoundInv, RoundMoves, activeWork' \in Nat
  PROVE  OneWriterPerRound'
<1>0. /\ pending \in SUBSET Agent /\ activeWork \in Nat /\ Writer \subseteq Agent
      /\ OneWriterPerRound
  BY AgentAssumption DEF RoundInv, TypeOK
<1>1. /\ \A x, y \in pending \intersect Writer : x = y
      /\ pending \intersect Writer # {} => activeWork > 0
  BY <1>0, AtMostOne DEF OneWriterPerRound
<1>2. SUFFICES /\ pending' \subseteq Agent
               /\ \A x, y \in pending' \intersect Writer : x = y
               /\ pending' \intersect Writer # {} => activeWork' > 0
  BY <1>0, AtMostOne DEF OneWriterPerRound
<1>3. CASE RoundStill \/ RoundExpires
  BY <1>0, <1>1, <1>3 DEF RoundStill, RoundExpires
<1>4. ASSUME NEW S \in SUBSET Agent, RoundSpawns(S)
      PROVE  /\ pending' \subseteq Agent
             /\ \A x, y \in pending' \intersect Writer : x = y
             /\ pending' \intersect Writer # {} => activeWork' > 0
  <2>1. S \intersect Writer \in SUBSET Agent /\ Cardinality(S \intersect Writer) \in Nat
    BY FiniteAgents
  <2>2. CASE S \intersect Writer = {}
    BY <1>0, <1>1, <1>4, <2>1, <2>2 DEF RoundSpawns
  <2>3. CASE S \intersect Writer # {}
    <3>1. activeWork = 0 /\ Cardinality(S \intersect Writer) <= 1
      BY <1>4, <2>3 DEF RoundSpawns, MaySpawn
    <3>2. pending \intersect Writer = {}
      BY <1>0, <1>1, <3>1
    <3>3. \A x, y \in S \intersect Writer : x = y
      BY <2>1, <3>1, AtMostOne
    <3>4. Cardinality(S \intersect Writer) > 0
      BY <2>1, <2>3, SomeAgent
    <3> QED
      BY <1>0, <1>4, <2>1, <3>2, <3>3, <3>4 DEF RoundSpawns
  <2> QED
    BY <2>2, <2>3
<1>5. ASSUME NEW a \in Agent, NEW o \in Outcome, RoundCollects(a, o)
      PROVE  /\ pending' \subseteq Agent
             /\ \A x, y \in pending' \intersect Writer : x = y
             /\ pending' \intersect Writer # {} => activeWork' > 0
  BY <1>0, <1>1, <1>5 DEF RoundCollects
<1>6. ASSUME NEW c \in [Agent -> Outcome \union {"none"}], RoundSettles(c)
      PROVE  pending' = {}
  BY <1>6 DEF RoundSettles
<1> QED
  BY <1>3, <1>4, <1>5, <1>6 DEF RoundMoves

-----------------------------------------------------------------------------
(* Results under way.                                                       *)

\* What a step may do to the channel, the buffer and the results being drained.
QueueMoves ==
    /\ \/ inbox' = inbox
       \/ inbox # <<>> /\ inbox' = Tail(inbox)
       \/ \E r \in Honest' \union {CancelEvent} : inbox' = Append(inbox, r)
       \/ \E s \in Seq(Honest') : inbox' = inbox \o s
    /\ \/ buffer' = buffer \/ buffer' = <<>>
       \/ \E r \in Honest : buffer' = Append(buffer, r)
    /\ \/ drain' = drain \/ drain' = <<>>
       \/ \E D \in SUBSET DOMAIN buffer : drain' = Restrict(buffer, D)
       \/ \E D \in SUBSET DOMAIN drain : drain' = Restrict(drain, D)

\* A part of a drain is one, and so is a part of the buffer.
LEMMA PartOfDrain ==
  ASSUME NEW R, NEW d, IsDrain(d, R), NEW D \in SUBSET DOMAIN d
  PROVE  IsDrain(Restrict(d, D), R)
BY DEF IsDrain, Restrict

LEMMA PartOfBuffer ==
  ASSUME NEW R, NEW s \in Seq(R), NEW D \in SUBSET DOMAIN s
  PROVE  IsDrain(Restrict(s, D), R)
<1>1. /\ DOMAIN s = 1 .. Len(s) /\ Len(s) \in Nat
      /\ \A i \in DOMAIN s : s[i] \in R
  OBVIOUS
<1> QED
  BY <1>1 DEF IsDrain, Restrict

LEMMA NoDrain == \A R : IsDrain(<<>>, R)
BY DEF IsDrain

\* The failures that are made up for agents that could not be told are honest.
LEMMA FailuresAreHonest == {Result(a, "failure") : a \in Agent} \subseteq Honest'
<1>1. ASSUME NEW a \in Agent
      PROVE  Result(a, "failure") \in Honest'
  <2>1. Result(a, "failure") \in Results
    BY DEF Results, Result, Outcome
  <2>2. Result(a, "failure").outcome # "success"
    BY DEF Result
  <2> QED
    BY <2>1, <2>2 DEF Honest
<1> QED
  BY <1>1

\* Outcomes that are reported stay reported, so honest results stay honest.
LEMMA HonestGrows ==
  ASSUME \A a \in Agent : own[a] = "success" => own'[a] = "success"
  PROVE  Honest \subseteq Honest'
BY DEF Honest, Results

\* Whatever happens to them, the results under way are honest.
LEMMA QueueStep ==
  ASSUME RoundInv, QueueMoves, Honest \subseteq Honest'
  PROVE  /\ inbox' \in Seq(Honest' \union {CancelEvent})
         /\ buffer' \in Seq(Honest') /\ IsDrain(drain', Honest')
<1> DEFINE H == Honest' \union {CancelEvent}
<1>1. /\ inbox \in Seq(Honest \union {CancelEvent})
      /\ buffer \in Seq(Honest) /\ IsDrain(drain, Honest)
  BY DEF RoundInv, HonestResults
<1>2. inbox \in Seq(H) /\ buffer \in Seq(Honest')
  <2>1. Honest \union {CancelEvent} \subseteq H
    OBVIOUS
  <2> HIDE DEF H
  <2> QED
    BY <1>1, <2>1
<1>3. IsDrain(drain, Honest')
  BY <1>1 DEF IsDrain
<1>4. inbox' \in Seq(H)
  <2>1. CASE inbox' = inbox
    BY <1>2, <2>1
  <2>2. CASE inbox # <<>> /\ inbox' = Tail(inbox)
    <3> HIDE DEF H
    <3> QED
      BY <1>2, <2>2
  <2>3. ASSUME NEW r \in H, inbox' = Append(inbox, r)  PROVE inbox' \in Seq(H)
    <3> HIDE DEF H
    <3> QED
      BY <1>2, <2>3
  <2>4. ASSUME NEW s \in Seq(Honest'), inbox' = inbox \o s  PROVE inbox' \in Seq(H)
    <3>1. Honest' \subseteq H
      OBVIOUS
    <3> HIDE DEF H
    <3>2. s \in Seq(H)
      BY <3>1
    <3> QED
      BY <1>2, <2>4, <3>2
  <2> QED
    BY <2>1, <2>2, <2>3, <2>4 DEF QueueMoves
<1>5. buffer' \in Seq(Honest')
  <2>1. CASE buffer' = buffer
    BY <1>2, <2>1
  <2>3. CASE buffer' = <<>>
    BY <2>3
  <2>2. ASSUME NEW r \in Honest, buffer' = Append(buffer, r)  PROVE buffer' \in Seq(Honest')
    BY <1>2, <2>2
  <2> QED
    BY <2>1, <2>2, <2>3 DEF QueueMoves
<1>6. IsDrain(drain', Honest')
  <2>1. CASE drain' = drain \/ drain' = <<>>
    BY <1>3, <2>1, NoDrain
  <2>2. ASSUME NEW D \in SUBSET DOMAIN buffer, drain' = Restrict(buffer, D)
        PROVE  IsDrain(drain', Honest')
    BY <1>2, <2>2, PartOfBuffer
  <2>3. ASSUME NEW D \in SUBSET DOMAIN drain, drain' = Restrict(drain, D)
        PROVE  IsDrain(drain', Honest')
    BY <1>3, <2>3, PartOfDrain
  <2> QED
    BY <2>1, <2>2, <2>3 DEF QueueMoves
<1> QED
  BY <1>4, <1>5, <1>6

-----------------------------------------------------------------------------
(* The steps.                                                               *)

\* The part of TypeOK that neither kind of move is about.
Sorts ==
    /\ phase \in {"Idle", "LlmRequesting", "ToolExecuting", "CancellingTool"} \union Waiting
    /\ plan \in Seq({"bash", "spawn"})
    /\ phase \notin Waiting => collected = NoCollected
    /\ cause \in {"UserRequested", "Timeout"}
    /\ via \in {"none", "event", "outcome"} /\ spawning \in BOOLEAN /\ armed \in BOOLEAN
    /\ drain = <<>> <=> via = "none"
    /\ spawning => phase = "ToolExecuting"
    /\ activeWork \in Nat
    /\ cancelQ \in Seq(SUBSET Agent)
    /\ agent \in [Agent -> Live \union {"fresh", "done", "gone"}]
    /\ mailbox \in [Agent -> Seq({"task", "cancel"})]
    /\ timer \subseteq Agent
    /\ own \in [Agent -> Outcome \union {"none"}]
    /\ presumed \subseteq Agent /\ taken \subseteq Agent

\* The types the moves of a round are about.
LEMMA RoundTypes ==
  ASSUME RoundInv, RoundMoves
  PROVE  /\ pending' \subseteq Agent /\ late' \subseteq Agent
         /\ collected' \in [Agent -> Outcome \union {"none"}]
         /\ reports' \in [Agent -> Seq(Outcome)]
<1>0. /\ pending \in SUBSET Agent /\ late \in SUBSET Agent
      /\ collected \in [Agent -> Outcome \union {"none"}]
      /\ reports \in [Agent -> Seq(Outcome)]
  BY DEF RoundInv, TypeOK
<1>1. CASE RoundStill \/ RoundExpires
  BY <1>0, <1>1 DEF RoundStill, RoundExpires
<1>2. CASE \E S \in SUBSET Agent : RoundSpawns(S)
  BY <1>0, <1>2 DEF RoundSpawns
<1>3. CASE \E a \in Agent, o \in Outcome : RoundCollects(a, o)
  BY <1>0, <1>3 DEF RoundCollects
<1>4. ASSUME NEW c \in [Agent -> Outcome \union {"none"}], RoundSettles(c)
      PROVE  reports' \in [Agent -> Seq(Outcome)]
  <2>1. \A a \in Agent : c[a] # "none" => Append(reports[a], c[a]) \in Seq(Outcome)
    BY <1>0
  <2> QED
    BY <1>0, <1>4, <2>1 DEF RoundSettles
<1>5. ASSUME NEW c \in [Agent -> Outcome \union {"none"}], RoundSettles(c)
      PROVE  pending' = {} /\ late' = late /\ collected' = NoCollected
  BY <1>5 DEF RoundSettles
<1> QED
  BY <1>0, <1>1, <1>2, <1>3, <1>4, <1>5 DEF RoundMoves, NoCollected

\* The parts together.
LEMMA Together ==
  ASSUME RoundInv, RoundMoves, QueueMoves, Sorts'
  PROVE  RoundInv'
<1>1. /\ own' \in [Agent -> Outcome \union {"none"}] /\ activeWork' \in Nat
      /\ agent' \in [Agent -> Live \union {"fresh", "done", "gone"}]
  BY DEF Sorts
<1>2. /\ AgentLife' /\ LateAgents'
      /\ ReportedExactlyOnce' /\ SuccessIsReal' /\ DeadlineIsHard'
      /\ \A a \in Agent : collected'[a] = "success" => own'[a] = "success"
  BY <1>1, RoundStep
<1>3. OneWriterPerRound'
  BY <1>1, WriterStep
<1>4. \A a \in Agent : own[a] = "success" => own'[a] = "success"
  <2>1. CASE RoundStill
    BY <2>1 DEF RoundStill, RoundInv, AgentLife
  <2>2. CASE ~RoundStill
    BY <2>2, ZenonT(60) DEF RoundMoves, RoundExpires, RoundSpawns, RoundCollects, RoundSettles
  <2> QED
    BY <2>1, <2>2
<1>5. /\ inbox' \in Seq(Honest' \union {CancelEvent})
      /\ buffer' \in Seq(Honest') /\ IsDrain(drain', Honest')
  BY <1>4, HonestGrows, QueueStep
<1>6. HonestResults'
  BY <1>2, <1>5 DEF HonestResults
<1>7. /\ inbox' \in Seq(Results \union {CancelEvent})
      /\ buffer' \in Seq(Results) /\ IsDrain(drain', Results)
  <2>1. Honest' \subseteq Results /\ Honest' \union {CancelEvent} \subseteq Results \union {CancelEvent}
    BY DEF Honest
  <2>2. IsDrain(drain', Results)
    BY <1>5, <2>1 DEF IsDrain
  <2> QED
    BY <1>5, <2>1, <2>2
<1>8. TypeOK'
  BY <1>7, RoundTypes DEF Sorts, TypeOK
<1> QED
  BY <1>2, <1>3, <1>6, <1>8 DEF RoundInv

\* The parts of the invariant that the steps start from.
LEMMA Before ==
  ASSUME RoundInv
  PROVE  /\ Sorts /\ pending \in SUBSET Agent /\ late \in SUBSET Agent
         /\ collected \in [Agent -> Outcome \union {"none"}]
         /\ inbox \in Seq(Honest \union {CancelEvent})
         /\ \A a \in pending : agent[a] # "fresh" /\ collected[a] = "none"
         /\ \A i \in DOMAIN drain : drain[i] \in Honest
         /\ \A a \in Agent : collected[a] = "success" => own[a] = "success"
         /\ \A a \in late : collected[a] \in {"none", "timedout"}
         /\ \A a \in late : a \in pending => phase = "CancellingSubAgents" /\ cause = "Timeout"
BY DEF RoundInv, TypeOK, Sorts, AgentLife, HonestResults, LateAgents, IsDrain

\* A result of a pending agent is collected or settles the round.
LEMMA CollectMoves ==
  ASSUME RoundInv, NEW r \in Honest, Accepted(r), Collect(r),
         UNCHANGED <<late, agent, own>>, r.agent \notin Writer => activeWork' = activeWork
  PROVE  /\ RoundMoves
         /\ phase' \in {"Idle", "LlmRequesting"} \union Waiting
         /\ phase' \notin Waiting => collected' = NoCollected
         /\ cause' \in {"UserRequested", "Timeout"} /\ armed' \in BOOLEAN
<1> DEFINE a == r.agent
           o == Teardown(r.outcome)
           c == [collected EXCEPT ![a] = o]
<1>1. a \in Agent /\ a \in pending /\ phase \in Waiting
  BY DEF Honest, Results, Accepted
<1>2. /\ o \in Outcome /\ o \in Outcome \union {"none"} /\ o # "none"
      /\ o = "success" => own[a] = "success"
      /\ a \in late => o = "timedout"
  BY <1>1, Before DEF Teardown, Honest, Results, Outcome
<1>3. /\ cause \in {"UserRequested", "Timeout"} /\ armed \in BOOLEAN
      /\ collected \in [Agent -> Outcome \union {"none"}]
  BY Before DEF Sorts
<1>4. \/ pending = {a} /\ Settle(c)
      \/ /\ pending # {a} /\ collected' = c /\ pending' = pending \ {a}
         /\ UNCHANGED <<phase, cause, reports, armed>>
  BY DEF Collect
<1> HIDE DEF o
<1>5. CASE pending = {a} /\ Settle(c)
  <2>1. /\ c \in [Agent -> Outcome \union {"none"}]
        /\ \A b \in Agent : c[b] # "none" <=> b \in pending \/ collected[b] # "none"
        /\ \A b \in Agent : c[b] = "success" => own[b] = "success"
        /\ \A b \in late : c[b] \in {"none", "timedout"}
    BY <1>1, <1>2, <1>3, <1>5, Before
  <2> HIDE DEF c
  <2>2. RoundSettles(c)
    BY <1>5, <2>1 DEF RoundSettles, Settle
  <2> QED
    BY <1>5, <2>1, <2>2, ZenonT(60) DEF RoundMoves, Settle
<1>6. CASE pending # {a}
  <2>1. RoundCollects(a, o)
    BY <1>1, <1>2, <1>4, <1>6 DEF RoundCollects
  <2> QED
    BY <1>1, <1>2, <1>3, <1>4, <1>6, <2>1 DEF RoundMoves
<1> QED
  BY <1>4, <1>5, <1>6

\* Entering a waiting state drains a part of the buffer.
LEMMA EnterMoves ==
  ASSUME NEW p, NEW S, NEW v \in {"event", "outcome"}, EnterRound(p, S, v)
  PROVE  /\ phase' = p /\ pending' = S /\ buffer' = <<>> /\ armed' = TRUE
         /\ \E D \in SUBSET DOMAIN buffer : drain' = Restrict(buffer, D)
         /\ via' \in {"none", "event", "outcome"}
         /\ drain' = <<>> <=> via' = "none"
BY DEF EnterRound

\* After a tool of a round that has spawned S so far.
LEMMA AfterToolMoves ==
  ASSUME RoundInv, NEW S \in SUBSET Agent, pending \subseteq S, phase = "ToolExecuting",
         AfterTool(S)
  PROVE  /\ pending' = S
         /\ phase' \in {"ToolExecuting", "LlmRequesting", "AwaitingSubAgents"}
         /\ plan' \in Seq({"bash", "spawn"})
         /\ spawning' \in BOOLEAN /\ (spawning' => phase' = "ToolExecuting")
         /\ armed' \in BOOLEAN /\ via' \in {"none", "event", "outcome"}
         /\ drain' = <<>> <=> via' = "none"
         /\ buffer' = buffer \/ buffer' = <<>>
         /\ \/ drain' = drain
            \/ \E D \in SUBSET DOMAIN buffer : drain' = Restrict(buffer, D)
<1>0. Sorts
  BY Before
<1>1. CASE /\ Len(plan) > 1
           /\ plan' = Tail(plan) /\ spawning' = (plan[2] = "spawn")
           /\ pending' = S
           /\ UNCHANGED <<phase, drain, via, buffer, armed>>
  <2>1. plan' \in Seq({"bash", "spawn"})
    BY <1>0, <1>1 DEF Sorts
  <2> QED
    BY <1>0, <1>1, <2>1 DEF Sorts
<1>2. CASE /\ Len(plan) = 1 /\ S = {}
           /\ phase' = "LlmRequesting" /\ plan' = <<>> /\ spawning' = FALSE
           /\ UNCHANGED <<pending, drain, via, buffer, armed>>
  <2>1. pending' = S
    BY <1>2
  <2>2. plan' \in Seq({"bash", "spawn"})
    BY <1>2
  <2>3. /\ armed' \in BOOLEAN /\ via' \in {"none", "event", "outcome"}
        /\ drain' = <<>> <=> via' = "none"
    BY <1>0, <1>2 DEF Sorts
  <2> QED
    BY <1>2, <2>1, <2>2, <2>3, ZenonT(60)
<1>3. CASE /\ Len(plan) = 1 /\ S # {}
           /\ plan' = <<>> /\ spawning' = FALSE
           /\ EnterRound("AwaitingSubAgents", S, "outcome")
  <2>1. plan' \in Seq({"bash", "spawn"})
    BY <1>3
  <2>2. /\ phase' = "AwaitingSubAgents" /\ pending' = S /\ buffer' = <<>> /\ armed' = TRUE
        /\ \E D \in SUBSET DOMAIN buffer : drain' = Restrict(buffer, D)
        /\ via' \in {"none", "event", "outcome"}
        /\ drain' = <<>> <=> via' = "none"
    BY <1>3, EnterMoves, ZenonT(90)
  <2> QED
    BY <1>3, <2>1, <2>2, ZenonT(60)
<1> QED
  BY <1>1, <1>2, <1>3, ZenonT(60) DEF AfterTool

\* A cancelled tool round settles, or waits for its agents.
LEMMA ToolSettlesStep ==
  ASSUME RoundInv, Free, phase = "CancellingTool", NEW v \in {"event", "outcome"},
         ToolSettles(v)
  PROVE  RoundInv'
<1>0. Sorts
  BY Before
<1>1. /\ UNCHANGED <<collected, spawning, activeWork, inbox, cancelQ>>
      /\ UNCHANGED <<agent, mailbox, timer, own, reports, late, presumed, taken>>
      /\ plan' = <<>> /\ ~spawning
      /\ \/ /\ phase' = "Idle" /\ armed' = FALSE
            /\ UNCHANGED <<pending, cause, drain, via, buffer>>
         \/ /\ cause' = "UserRequested"
            /\ EnterRound("CancellingSubAgents", pending, v)
  BY DEF ToolSettles, agents, history, Free
<1>2. /\ pending' = pending
      /\ phase' \in {"Idle", "CancellingSubAgents"} /\ cause' \in {"UserRequested", "Timeout"}
      /\ armed' \in BOOLEAN /\ via' \in {"none", "event", "outcome"}
      /\ drain' = <<>> <=> via' = "none"
      /\ buffer' = buffer \/ buffer' = <<>>
      /\ \/ drain' = drain
         \/ \E D \in SUBSET DOMAIN buffer : drain' = Restrict(buffer, D)
  <2>1. CASE phase' = "Idle" /\ UNCHANGED <<pending, cause, drain, via, buffer>> /\ armed' = FALSE
    BY <1>0, <2>1, ZenonT(60) DEF Sorts
  <2>2. CASE cause' = "UserRequested" /\ EnterRound("CancellingSubAgents", pending, v)
    BY <1>0, <2>2, EnterMoves, ZenonT(60) DEF Sorts
  <2> QED
    BY <1>1, <2>1, <2>2, ZenonT(60)
<1>3. RoundStill
  BY <1>1, <1>2 DEF RoundStill
<1>4. QueueMoves
  BY <1>1, <1>2 DEF QueueMoves
<1>5. Sorts'
  BY <1>0, <1>1, <1>2 DEF Sorts, Waiting
<1> QED
  BY <1>3, <1>4, <1>5, Together DEF RoundMoves

\* What the parent does between rounds, and the user.
LEMMA TurnStep ==
  ASSUME RoundInv, UserSend \/ LlmText \/ LlmTools \/ UserCancels
  PROVE  RoundInv'
<1>0. Sorts
  BY Before
<1>1. /\ UNCHANGED <<pending, collected, cause, buffer, drain, via, armed, activeWork, cancelQ>>
      /\ UNCHANGED <<agent, mailbox, timer, own, reports, late, presumed, taken>>
      /\ \/ inbox' = inbox \/ inbox' = Append(inbox, CancelEvent)
      /\ \/ phase' = phase /\ spawning' = spawning /\ plan' = plan
         \/ /\ phase \in {"Idle", "LlmRequesting"} /\ ~spawning
            /\ \/ phase' \in {"Idle", "LlmRequesting"} /\ spawning' = spawning /\ plan' = plan
               \/ /\ phase' = "ToolExecuting" /\ plan' \in ToolLists
                  /\ spawning' = (Head(plan') = "spawn")
  BY DEF UserSend, LlmText, LlmTools, UserCancels, round, chain, agents, history, Free
<1>2. RoundStill
  BY <1>1, ZenonT(60) DEF RoundStill
<1>3. QueueMoves
  BY <1>1 DEF QueueMoves
<1>4. Sorts'
  <2>1. plan' \in Seq({"bash", "spawn"})
    BY <1>0, <1>1, ToolAssumption DEF Sorts
  <2>2. /\ phase' \in {"Idle", "LlmRequesting", "ToolExecuting", "CancellingTool"} \union Waiting
        /\ phase' \notin Waiting => collected' = NoCollected
    BY <1>0, <1>1 DEF Sorts, Waiting
  <2>3. spawning' \in BOOLEAN /\ (spawning' => phase' = "ToolExecuting")
    <3>1. spawning \in BOOLEAN /\ (spawning => phase = "ToolExecuting")
      BY <1>0 DEF Sorts
    <3>2. CASE phase' = phase /\ spawning' = spawning
      BY <3>1, <3>2, ZenonT(60)
    <3>3. CASE ~spawning /\ spawning' = spawning
      BY <3>1, <3>3, ZenonT(60)
    <3>4. CASE phase' = "ToolExecuting" /\ spawning' = (Head(plan') = "spawn")
      BY <3>4, ZenonT(60)
    <3> QED
      BY <1>1, <3>2, <3>3, <3>4, ZenonT(60)
  <2> QED
    BY <1>0, <1>1, <2>1, <2>2, <2>3 DEF Sorts
<1> QED
  BY <1>2, <1>3, <1>4, Together DEF RoundMoves

\* A tool of the round ends, spawn_agents included.
LEMMA ToolStep ==
  ASSUME RoundInv, RunSpawn \/ ToolComplete
  PROVE  RoundInv'
<1>0. Sorts /\ pending \in SUBSET Agent
  BY Before
<1>1. phase = "ToolExecuting" /\ collected = NoCollected
  BY <1>0 DEF Sorts, RunSpawn, ToolComplete, Waiting
<1>2. /\ UNCHANGED <<collected, cause, inbox, cancelQ, mailbox, timer, own>>
      /\ UNCHANGED <<reports, late, presumed, taken>>
  BY DEF RunSpawn, ToolComplete, agents, history
<1>3. CASE AfterTool(pending) /\ UNCHANGED <<activeWork, agent>>
  <2>1. RoundStill
    BY <1>0, <1>1, <1>2, <1>3, AfterToolMoves DEF RoundStill
  <2>2. QueueMoves
    BY <1>0, <1>1, <1>2, <1>3, AfterToolMoves DEF QueueMoves
  <2>3. Sorts'
    BY <1>0, <1>1, <1>2, <1>3, AfterToolMoves DEF Sorts, Waiting
  <2> QED
    BY <2>1, <2>2, <2>3, Together DEF RoundMoves
<1>4. ASSUME NEW S \in SUBSET Agent, MaySpawn(S),
             activeWork' = activeWork + Cardinality(S \intersect Writer),
             agent' = [a \in Agent |-> IF a \in S THEN "requested" ELSE agent[a]],
             AfterTool(pending \union S)
      PROVE  RoundInv'
  <2> DEFINE T == pending \union S
  <2>1. T \in SUBSET Agent /\ pending \subseteq T
    BY <1>0
  <2>2. AfterTool(T)
    BY <1>4
  <2> HIDE DEF T
  <2>3. /\ pending' = T
        /\ phase' \in {"ToolExecuting", "LlmRequesting", "AwaitingSubAgents"}
        /\ plan' \in Seq({"bash", "spawn"})
        /\ spawning' \in BOOLEAN /\ (spawning' => phase' = "ToolExecuting")
        /\ armed' \in BOOLEAN /\ via' \in {"none", "event", "outcome"}
        /\ drain' = <<>> <=> via' = "none"
        /\ buffer' = buffer \/ buffer' = <<>>
        /\ \/ drain' = drain
           \/ \E D \in SUBSET DOMAIN buffer : drain' = Restrict(buffer, D)
    BY <1>1, <2>1, <2>2, AfterToolMoves
  <2>4. RoundSpawns(S)
    BY <1>1, <1>2, <1>4, <2>3 DEF RoundSpawns, T
  <2>5. QueueMoves
    BY <1>2, <2>3 DEF QueueMoves
  <2>6. /\ activeWork' \in Nat
        /\ agent' \in [Agent -> Live \union {"fresh", "done", "gone"}]
    <3>1. Cardinality(S \intersect Writer) \in Nat
      BY FiniteAgents
    <3>2. activeWork \in Nat /\ agent \in [Agent -> Live \union {"fresh", "done", "gone"}]
      BY <1>0 DEF Sorts
    <3> QED
      BY <1>4, <3>1, <3>2 DEF Live
  <2>7. Sorts'
    BY <1>0, <1>1, <1>2, <2>3, <2>6 DEF Sorts, Waiting
  <2> QED
    BY <2>4, <2>5, <2>7, Together DEF RoundMoves
<1> QED
  BY <1>3, <1>4, ZenonT(60) DEF RunSpawn, ToolComplete, agents

\* UserCancel.
LEMMA CancelStep ==
  ASSUME RoundInv, HandleCancel
  PROVE  RoundInv'
<1>0. Sorts /\ pending \in SUBSET Agent
  BY Before
<1>1. /\ UNCHANGED <<plan, pending, collected, drain, via, spawning, buffer, activeWork>>
      /\ UNCHANGED <<agent, mailbox, timer, own, reports, late, presumed, taken>>
      /\ inbox # <<>> /\ inbox' = Tail(inbox) /\ ~spawning
      /\ \/ phase = "LlmRequesting" /\ phase' = "Idle" /\ UNCHANGED <<armed, cause, cancelQ>>
         \/ /\ phase = "ToolExecuting" /\ phase' = "CancellingTool" /\ armed' = TRUE
            /\ cancelQ' = cancelQ \/ cancelQ' = Append(cancelQ, pending)
            /\ UNCHANGED cause
         \/ /\ phase = "AwaitingSubAgents" /\ phase' = "CancellingSubAgents" /\ armed' = TRUE
            /\ cause' = "UserRequested"
            /\ cancelQ' = Append(cancelQ, pending)
         \/ UNCHANGED <<phase, armed, cause, cancelQ>>
  BY DEF HandleCancel, chain, agents, history, Free
<1>2. RoundStill
  BY <1>1 DEF RoundStill
<1>3. QueueMoves
  BY <1>1 DEF QueueMoves
<1>4. cancelQ' \in Seq(SUBSET Agent)
  <2>1. cancelQ \in Seq(SUBSET Agent)
    BY <1>0 DEF Sorts
  <2>2. Append(cancelQ, pending) \in Seq(SUBSET Agent)
    BY <1>0, <2>1
  <2> QED
    BY <1>1, <2>1, <2>2
<1>5. Sorts'
  BY <1>0, <1>1, <1>4, ZenonT(60) DEF Sorts, Waiting
<1> QED
  BY <1>2, <1>3, <1>5, Together DEF RoundMoves

\* The one-writer counter stays a number, and changes for Work agents only.
LEMMA ReleasedFacts ==
  ASSUME NEW a, activeWork \in Nat
  PROVE  Released(a) \in Nat /\ (a \notin Writer => Released(a) = activeWork)
BY DEF Released

\* A result from the channel.
LEMMA ResultStep ==
  ASSUME RoundInv, HandleResult
  PROVE  RoundInv'
<1> DEFINE r == Head(inbox)
<1>0. Sorts /\ inbox \in Seq(Honest \union {CancelEvent})
  BY Before
<1>1. r \in Honest
  <2>1. inbox # <<>> /\ r.type = "result"
    BY DEF HandleResult
  <2>2. r \in Honest \union {CancelEvent}
    BY <1>0, <2>1
  <2> HIDE DEF r
  <2> QED
    BY <2>1, <2>2 DEF CancelEvent
<1>2. /\ UNCHANGED <<plan, drain, via, spawning, cancelQ>>
      /\ UNCHANGED <<agent, mailbox, timer, own, late, presumed>>
      /\ inbox # <<>> /\ inbox' = Tail(inbox) /\ ~spawning
      /\ taken' = taken \/ taken' = taken \union {r.agent}
      /\ \/ /\ buffer' = Append(buffer, r)
            /\ UNCHANGED <<phase, pending, collected, cause, reports, armed, activeWork>>
         \/ /\ Accepted(r) /\ Collect(r)
            /\ activeWork' = Released(r.agent)
            /\ UNCHANGED buffer
         \/ UNCHANGED <<phase, pending, collected, cause, reports, armed, activeWork, buffer>>
  BY DEF HandleResult, chain, agents, Free
<1> HIDE DEF r
<1>3. QueueMoves
  BY <1>1, <1>2 DEF QueueMoves
<1>4. taken' \subseteq Agent
  BY <1>0, <1>1, <1>2 DEF Sorts, Honest, Results
<1>5. CASE UNCHANGED <<phase, pending, collected, cause, reports, armed, activeWork>>
  <2>1. RoundStill
    BY <1>2, <1>5 DEF RoundStill
  <2>2. Sorts'
    BY <1>0, <1>2, <1>4, <1>5 DEF Sorts
  <2> QED
    BY <1>3, <2>1, <2>2, Together DEF RoundMoves
<1>6. CASE Accepted(r) /\ Collect(r) /\ activeWork' = Released(r.agent)
  <2>1. activeWork' \in Nat /\ (r.agent \notin Writer => activeWork' = activeWork)
    BY <1>0, <1>6, ReleasedFacts DEF Sorts
  <2>2. /\ RoundMoves
        /\ phase' \in {"Idle", "LlmRequesting"} \union Waiting
        /\ phase' \notin Waiting => collected' = NoCollected
        /\ cause' \in {"UserRequested", "Timeout"} /\ armed' \in BOOLEAN
    BY <1>1, <1>2, <1>6, <2>1, CollectMoves
  <2>3. Sorts'
    BY <1>0, <1>2, <1>4, <2>1, <2>2 DEF Sorts
  <2> QED
    BY <1>3, <2>2, <2>3, Together
<1> QED
  BY <1>2, <1>5, <1>6

\* A buffered result.
LEMMA DrainStep ==
  ASSUME RoundInv, DrainNext
  PROVE  RoundInv'
<1>0. Sorts /\ \A j \in DOMAIN drain : drain[j] \in Honest
  BY Before
<1>1. PICK i \in DOMAIN drain :
         \/ /\ Accepted(drain[i]) /\ Collect(drain[i])
            /\ activeWork' = IF via = "event" THEN Released(drain[i].agent) ELSE activeWork
            /\ drain' = Restrict(drain, DOMAIN drain \ {i})
         \/ /\ drain' = <<>> \/ drain' = Restrict(drain, DOMAIN drain \ {i})
            /\ UNCHANGED <<phase, pending, collected, cause, reports, armed, activeWork>>
  BY DEF DrainNext
<1>2. /\ UNCHANGED <<plan, spawning, buffer, inbox, cancelQ, taken, presumed, late>>
      /\ UNCHANGED <<agent, mailbox, timer, own>>
      /\ via' = IF drain' = <<>> THEN "none" ELSE via
  BY DEF DrainNext, agents
<1>3. drain # <<>>
  BY <1>1
<1>4. QueueMoves
  BY <1>1, <1>2 DEF QueueMoves
<1>5. via' \in {"none", "event", "outcome"} /\ (drain' = <<>> <=> via' = "none")
  BY <1>0, <1>2, <1>3 DEF Sorts
<1>6. CASE UNCHANGED <<phase, pending, collected, cause, reports, armed, activeWork>>
  <2>1. RoundStill
    BY <1>2, <1>6, ZenonT(60) DEF RoundStill
  <2>2. Sorts'
    BY <1>0, <1>2, <1>5, <1>6 DEF Sorts
  <2> QED
    BY <1>4, <2>1, <2>2, Together DEF RoundMoves
<1>7. CASE /\ Accepted(drain[i]) /\ Collect(drain[i])
           /\ activeWork' = IF via = "event" THEN Released(drain[i].agent) ELSE activeWork
  <2> DEFINE r == drain[i]
  <2>1. r \in Honest /\ Accepted(r) /\ Collect(r)
    BY <1>0, <1>7
  <2>2. activeWork' \in Nat /\ (r.agent \notin Writer => activeWork' = activeWork)
    BY <1>0, <1>7, ReleasedFacts DEF Sorts
  <2> HIDE DEF r
  <2>3. /\ RoundMoves
        /\ phase' \in {"Idle", "LlmRequesting"} \union Waiting
        /\ phase' \notin Waiting => collected' = NoCollected
        /\ cause' \in {"UserRequested", "Timeout"} /\ armed' \in BOOLEAN
    BY <1>2, <2>1, <2>2, CollectMoves
  <2>4. ~spawning
    BY <1>0, <2>1 DEF Sorts, Accepted, Waiting
  <2>5. Sorts'
    BY <1>0, <1>2, <1>5, <2>2, <2>3, <2>4 DEF Sorts
  <2> QED
    BY <1>4, <2>3, <2>5, Together
<1> QED
  BY <1>1, <1>6, <1>7

\* The completion deadline.
LEMMA ExpiryStep ==
  ASSUME RoundInv, CompletionExpires
  PROVE  RoundInv'
<1>0. Sorts /\ pending \in SUBSET Agent
  BY Before
<1>1. /\ phase = "AwaitingSubAgents" /\ phase' = "CancellingSubAgents"
      /\ cause' = "Timeout" /\ armed' = TRUE
      /\ cancelQ' = Append(cancelQ, pending) /\ late' = late \union pending
      /\ UNCHANGED <<plan, pending, collected, drain, via, spawning, buffer, activeWork, inbox>>
      /\ UNCHANGED <<agent, mailbox, timer, own, reports, presumed, taken>>
  BY DEF CompletionExpires, chain, agents
<1>2. RoundExpires
  BY <1>1 DEF RoundExpires
<1>3. QueueMoves
  BY <1>1 DEF QueueMoves
<1>4. cancelQ' \in Seq(SUBSET Agent)
  BY <1>0, <1>1 DEF Sorts
<1>5. Sorts'
  BY <1>0, <1>1, <1>4 DEF Sorts, Waiting
<1> QED
  BY <1>2, <1>3, <1>5, Together DEF RoundMoves

\* The agents' cancellation backstop.
LEMMA BackstopStep ==
  ASSUME RoundInv, AgentsBackstop
  PROVE  RoundInv'
<1> DEFINE c == [a \in Agent |-> IF a \in pending THEN Teardown("failure") ELSE collected[a]]
<1>0. Sorts /\ pending \in SUBSET Agent /\ collected \in [Agent -> Outcome \union {"none"}]
  BY Before
<1>1. /\ Free /\ phase = "CancellingSubAgents" /\ Settle(c)
      /\ activeWork' = (LET n == Cardinality(pending \intersect Writer)
                        IN IF n < activeWork THEN activeWork - n ELSE 0)
      /\ presumed' = presumed \union pending
      /\ UNCHANGED <<plan, drain, via, spawning, buffer, inbox, cancelQ, late, taken>>
      /\ UNCHANGED <<agent, mailbox, timer, own>>
  BY DEF AgentsBackstop, chain, agents
<1>2. /\ Teardown("failure") \in Outcome \ {"none", "success"}
      /\ (cause = "Timeout" => Teardown("failure") = "timedout")
  BY <1>1 DEF Teardown, Outcome
<1>3. /\ c \in [Agent -> Outcome \union {"none"}]
      /\ \A b \in Agent : c[b] # "none" <=> b \in pending \/ collected[b] # "none"
      /\ \A b \in Agent : c[b] = "success" => own[b] = "success"
      /\ \A b \in late : c[b] \in {"none", "timedout"}
  BY <1>0, <1>2, Before
<1> HIDE DEF c
<1>4. RoundSettles(c)
  BY <1>1, <1>3 DEF RoundSettles, Settle
<1>5. QueueMoves
  BY <1>1 DEF QueueMoves
<1>6. activeWork' \in Nat
  <2>1. Cardinality(pending \intersect Writer) \in Nat
    BY <1>0, FiniteAgents
  <2> QED
    BY <1>0, <1>1, <2>1 DEF Sorts
<1>7. Sorts'
  BY <1>0, <1>1, <1>6, ZenonT(60) DEF Sorts, Settle, Free, Waiting
<1> QED
  BY <1>3, <1>4, <1>5, <1>7, Together DEF RoundMoves

\* The manager.
LEMMA ManagerStep ==
  ASSUME RoundInv, ManagerCancel \/ \E a \in Agent : ManagerSpawn(a)
  PROVE  RoundInv'
<1>0. Sorts
  BY Before
<1>1. CASE ManagerCancel
  <2> DEFINE S == Head(cancelQ)
             R == {a \in S : agent[a] \in Registered}
  <2>1. /\ cancelQ # <<>> /\ cancelQ' = Tail(cancelQ)
        /\ mailbox' = [a \in Agent |-> IF a \in R THEN Append(mailbox[a], "cancel")
                                       ELSE mailbox[a]]
        /\ UNCHANGED <<phase, plan, pending, collected, cause, drain, via, spawning, buffer>>
        /\ UNCHANGED <<armed, activeWork, agent, timer, own, reports, late, presumed, taken>>
    BY <1>1 DEF ManagerCancel, round, chain, history
  <2>2. PICK q \in Bijection(1 .. Cardinality(S \ R), S \ R) :
           inbox' = inbox \o [i \in DOMAIN q |-> Result(q[i], "failure")]
    BY <1>1, ZenonT(60) DEF ManagerCancel
  <2>3. S \in SUBSET Agent /\ cancelQ' \in Seq(SUBSET Agent)
    BY <1>0, <2>1 DEF Sorts
  <2> HIDE DEF S, R
  <2>4. S \ R \in SUBSET Agent
    BY <2>3
  <2>5. {Result(a, "failure") : a \in Agent} \subseteq Honest'
    BY FailuresAreHonest
  <2>6. [i \in DOMAIN q |-> Result(q[i], "failure")] \in Seq(Honest')
    <3> DEFINE F == {Result(a, "failure") : a \in Agent}
               s == [i \in DOMAIN q |-> Result(q[i], "failure")]
    <3>1. s \in Seq(F)
      BY <2>2, <2>4, MadeUp, ZenonT(60) DEF Outcome
    <3>2. F \subseteq Honest'
      BY <2>5
    <3> HIDE DEF F, s
    <3>3. s \in Seq(Honest')
      BY <3>1, <3>2
    <3> QED
      BY <3>3 DEF s
  <2>7. QueueMoves
    BY <2>1, <2>2, <2>6, ZenonT(60) DEF QueueMoves
  <2>8. RoundStill
    BY <2>1 DEF RoundStill
  <2>9. mailbox' \in [Agent -> Seq({"task", "cancel"})]
    <3>1. \A a \in Agent : Append(mailbox[a], "cancel") \in Seq({"task", "cancel"})
      BY <1>0 DEF Sorts
    <3> QED
      BY <1>0, <2>1, <3>1 DEF Sorts
  <2>10. Sorts'
    BY <1>0, <2>1, <2>3, <2>9 DEF Sorts
  <2> QED
    BY <2>7, <2>8, <2>10, Together DEF RoundMoves
<1>2. ASSUME NEW a \in Agent, ManagerSpawn(a)  PROVE RoundInv'
  <2>1. /\ agent[a] = "requested"
        /\ UNCHANGED <<phase, plan, pending, collected, cause, drain, via, spawning, buffer>>
        /\ UNCHANGED <<armed, activeWork, cancelQ, mailbox, own>>
        /\ UNCHANGED <<reports, late, presumed, taken>>
        /\ \/ agent' = [agent EXCEPT ![a] = "registered"] /\ inbox' = inbox
           \/ /\ agent' = [agent EXCEPT ![a] = "gone"]
              /\ inbox' = Append(inbox, Result(a, "failure"))
        /\ timer' = timer \/ timer' = timer \union ({a} \intersect Timed)
    BY <1>2 DEF ManagerSpawn, round, chain, history
  <2>2. Result(a, "failure") \in Honest'
    BY DEF Honest, Results, Result, Outcome
  <2>3. QueueMoves
    BY <2>1, <2>2 DEF QueueMoves
  <2>4. RoundStill
    BY <1>0, <2>1 DEF RoundStill, Sorts
  <2>5. agent' \in [Agent -> Live \union {"fresh", "done", "gone"}] /\ timer' \subseteq Agent
    BY <1>0, <2>1, ZenonT(60) DEF Sorts, Live
  <2>6. Sorts'
    BY <1>0, <2>1, <2>5 DEF Sorts
  <2> QED
    BY <2>3, <2>4, <2>6, Together DEF RoundMoves
<1> QED
  BY <1>1, <1>2

\* An agent's own step.
LEMMA AgentsStep ==
  ASSUME RoundInv, NEW a \in Agent, AgentStep(a)
  PROVE  RoundInv'
<1>0. /\ Sorts
      /\ \A b \in Agent : own[b] # "none" => agent[b] \in {"done", "gone"}
  BY Before DEF RoundInv, AgentLife
<1>1. /\ UNCHANGED <<phase, plan, pending, collected, cause, drain, via, spawning, buffer>>
      /\ UNCHANGED <<armed, activeWork, cancelQ, reports, late, presumed, taken>>
  BY DEF AgentStep, AgentStarts, AgentEvent, AgentWorks, AgentTimeout, AgentGone, parent
<1>2. /\ \/ mailbox' = mailbox
         \/ \E m \in {"task", "cancel"} : mailbox' = [mailbox EXCEPT ![a] = Append(@, m)]
         \/ mailbox[a] # <<>> /\ mailbox' = [mailbox EXCEPT ![a] = Tail(@)]
         \/ mailbox' = [mailbox EXCEPT ![a] = <<>>]
      /\ timer' = timer \/ timer' = timer \ {a}
  BY DEF AgentStep, AgentStarts, AgentEvent, AgentWorks, AgentTimeout, AgentGone
<1>3. \/ UNCHANGED <<agent, own, inbox>>
      \/ /\ agent[a] \notin {"fresh", "done", "gone"} /\ UNCHANGED <<own, inbox>>
         /\ \E s \in {"idle", "llm", "tool", "cancelling"} : agent' = [agent EXCEPT ![a] = s]
      \/ /\ agent[a] \notin {"fresh", "done", "gone"}
         /\ \E o \in {"success", "failure"} : AgentEnds(a, o)
      \/ /\ agent[a] = "done" /\ agent' = [agent EXCEPT ![a] = "gone"]
         /\ UNCHANGED <<own, inbox>>
  BY DEF AgentStep, AgentStarts, AgentEvent, AgentWorks, AgentTimeout, AgentGone
<1>4. mailbox' \in [Agent -> Seq({"task", "cancel"})] /\ timer' \subseteq Agent
  <2>1. mailbox[a] \in Seq({"task", "cancel"}) /\ mailbox \in [Agent -> Seq({"task", "cancel"})]
    BY <1>0 DEF Sorts
  <2>2. \A m \in {"task", "cancel"} : Append(mailbox[a], m) \in Seq({"task", "cancel"})
    BY <2>1
  <2>3. mailbox[a] # <<>> => Tail(mailbox[a]) \in Seq({"task", "cancel"})
    BY <2>1
  <2>4. <<>> \in Seq({"task", "cancel"})
    OBVIOUS
  <2> QED
    BY <1>0, <1>2, <2>1, <2>2, <2>3, <2>4, ZenonT(60) DEF Sorts
<1>5. CASE UNCHANGED <<own, inbox>>
  <2>1. QueueMoves
    BY <1>1, <1>5 DEF QueueMoves
  <2>2. /\ \A b \in Agent \ {a} : agent'[b] = agent[b]
        /\ agent[a] # "fresh" => agent'[a] # "fresh"
        /\ agent[a] = "fresh" => agent'[a] = "fresh"
        /\ agent[a] \in {"done", "gone"} => agent'[a] \in {"done", "gone"}
        /\ agent' \in [Agent -> Live \union {"fresh", "done", "gone"}]
    BY <1>0, <1>3, <1>5, ZenonT(60) DEF Sorts, Live, AgentEnds
  <2>3. RoundStill
    BY <1>1, <1>5, <2>2 DEF RoundStill
  <2>4. Sorts'
    BY <1>0, <1>1, <1>4, <1>5, <2>2 DEF Sorts
  <2> QED
    BY <2>1, <2>3, <2>4, Together DEF RoundMoves
<1>6. ASSUME agent[a] \notin {"fresh", "done", "gone"},
             NEW o \in {"success", "failure"}, AgentEnds(a, o)
      PROVE  RoundInv'
  <2>1. own[a] = "none" /\ own \in [Agent -> Outcome \union {"none"}]
        /\ agent \in [Agent -> Live \union {"fresh", "done", "gone"}]
    BY <1>0, <1>6 DEF Sorts
  <2>2. /\ own' = [own EXCEPT ![a] = o] /\ agent' = [agent EXCEPT ![a] = "done"]
        /\ inbox' = Append(inbox, Result(a, o))
    BY <1>6 DEF AgentEnds
  <2>3. Result(a, o) \in Honest'
    BY <2>1, <2>2 DEF Honest, Results, Result, Outcome
  <2>4. QueueMoves
    BY <1>1, <2>2, <2>3 DEF QueueMoves
  <2>5. /\ own' \in [Agent -> Outcome \union {"none"}]
        /\ agent' \in [Agent -> Live \union {"fresh", "done", "gone"}]
    BY <2>1, <2>2 DEF Outcome
  <2>6. RoundStill
    BY <1>1, <1>6, <2>1, <2>2 DEF RoundStill
  <2>7. Sorts'
    BY <1>0, <1>1, <1>4, <2>5 DEF Sorts
  <2> QED
    BY <2>4, <2>6, <2>7, Together DEF RoundMoves
<1> QED
  BY <1>3, <1>5, <1>6

-----------------------------------------------------------------------------
(* The results.                                                             *)

\* The invariant holds initially.
LEMMA InitInv == Init => RoundInv
<1> SUFFICES ASSUME Init  PROVE RoundInv
  OBVIOUS
<1>1. TypeOK
  <2>1. /\ collected \in [Agent -> Outcome \union {"none"}]
        /\ own \in [Agent -> Outcome \union {"none"}]
        /\ agent \in [Agent -> Live \union {"fresh", "done", "gone"}]
    BY DEF Init, NoCollected
  <2>2. /\ plan \in Seq({"bash", "spawn"}) /\ buffer \in Seq(Results)
        /\ inbox \in Seq(Results \union {CancelEvent}) /\ cancelQ \in Seq(SUBSET Agent)
    BY DEF Init
  <2>3. /\ mailbox \in [Agent -> Seq({"task", "cancel"})]
        /\ reports \in [Agent -> Seq(Outcome)]
    BY DEF Init
  <2>4. /\ phase \in {"Idle", "LlmRequesting", "ToolExecuting", "CancellingTool"} \union Waiting
        /\ collected = NoCollected /\ cause \in {"UserRequested", "Timeout"}
        /\ IsDrain(drain, Results) /\ (drain = <<>> <=> via = "none")
        /\ via \in {"none", "event", "outcome"} /\ ~spawning /\ ~armed
        /\ spawning \in BOOLEAN /\ armed \in BOOLEAN /\ activeWork \in Nat
        /\ pending = {} /\ timer = {} /\ late = {} /\ presumed = {} /\ taken = {}
    BY NoDrain, ZenonT(90) DEF Init
  <2> QED
    BY <2>1, <2>2, <2>3, <2>4 DEF TypeOK
<1>2. AgentLife /\ LateAgents /\ ReportedExactlyOnce
  BY DEF Init, AgentLife, LateAgents, ReportedExactlyOnce, NoCollected
<1>3. HonestResults
  BY NoDrain DEF Init, HonestResults, NoCollected
<1>4. SuccessIsReal /\ DeadlineIsHard
  <2>1. Range(<<>>) = {}
    BY DEF Range
  <2> QED
    BY <2>1 DEF Init, SuccessIsReal, DeadlineIsHard
<1>5. OneWriterPerRound
  BY FS_EmptySet DEF Init, OneWriterPerRound
<1> QED
  BY <1>1, <1>2, <1>3, <1>4, <1>5 DEF RoundInv

\* Every step keeps the invariant.
LEMMA NextInv == RoundInv /\ [Next]_vars => RoundInv'
<1> SUFFICES ASSUME RoundInv, [Next]_vars  PROVE RoundInv'
  OBVIOUS
<1>1. CASE UserSend \/ LlmText \/ LlmTools \/ UserCancels
  BY <1>1, TurnStep
<1>2. CASE RunSpawn \/ ToolComplete
  BY <1>2, ToolStep
<1>3. CASE ToolAborted
  BY <1>3, ToolSettlesStep DEF ToolAborted
<1>4. CASE HandleCancel
  BY <1>4, CancelStep
<1>5. CASE HandleResult
  BY <1>5, ResultStep
<1>6. CASE DrainNext
  BY <1>6, DrainStep
<1>7. CASE CompletionExpires
  BY <1>7, ExpiryStep
<1>8. CASE ToolBackstop
  BY <1>8, ToolSettlesStep DEF ToolBackstop
<1>9. CASE AgentsBackstop
  BY <1>9, BackstopStep
<1>10. CASE ManagerCancel \/ \E a \in Agent : ManagerSpawn(a)
  BY <1>10, ManagerStep
<1>11. CASE \E a \in Agent : AgentStep(a)
  BY <1>11, AgentsStep
<1>12. CASE UNCHANGED vars
  <2>1. RoundStill /\ QueueMoves
    BY <1>12 DEF vars, RoundStill, QueueMoves
  <2>2. Sorts'
    BY <1>12, Before DEF vars, Sorts
  <2> QED
    BY <2>1, <2>2, Together DEF RoundMoves
<1> QED
  BY <1>1, <1>2, <1>3, <1>4, <1>5, <1>6, <1>7, <1>8, <1>9, <1>10, <1>11, <1>12
     DEF Next, ParentLoop

\* The invariant holds always.
LEMMA AlwaysInv == Spec => []RoundInv
BY InitInv, NextInv, PTL DEF Spec

\* Types.
THEOREM TypeCorrect == Spec => []TypeOK
<1>1. RoundInv => TypeOK
  BY DEF RoundInv
<1> QED
  BY <1>1, AlwaysInv, PTL

\* Every agent is accounted for exactly once: of real, synthetic, early, late and
\* duplicate results one is persisted (handle_sub_agent_result and its buffers).
THEOREM AccountedOnce == Spec => []ReportedExactlyOnce
<1>1. RoundInv => ReportedExactlyOnce
  BY DEF RoundInv
<1> QED
  BY <1>1, AlwaysInv, PTL

\* No success is made up: neither the manager nor a deadline turns an agent that did
\* not succeed into one that did.
THEOREM SuccessIsTheAgents == Spec => []SuccessIsReal
<1>1. RoundInv => SuccessIsReal
  BY DEF RoundInv
<1> QED
  BY <1>1, AlwaysInv, PTL

\* An agent that misses the completion deadline is recorded as timed out.
THEOREM DeadlineHolds == Spec => []DeadlineIsHard
<1>1. RoundInv => DeadlineIsHard
  BY DEF RoundInv
<1> QED
  BY <1>1, AlwaysInv, PTL

\* A round never waits for two Work agents (the check in spawn_agents).
THEOREM OneWriter == Spec => []OneWriterPerRound
<1>1. RoundInv => OneWriterPerRound
  BY DEF RoundInv
<1> QED
  BY <1>1, AlwaysInv, PTL

=============================================================================
