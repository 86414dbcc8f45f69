-------------------------- MODULE DirectTurnProofs --------------------------
(***************************************************************************)
(* Proofs about DirectTurn, for every number of messages, attempts, rounds *)
(* and disturbances.  The lemmas on what an assignment does to the records *)
(* of the executor and of a turn come first; then one lemma for each       *)
(* conjunct of the inductive invariant TurnInv.                            *)
(***************************************************************************)
EXTENDS DirectTurn, TLAPS

USE SMTT(60), ZenonT(60)

\* What the sets of keys, attempts and events contain.
LEMMA Sorts ==
    /\ NoKey \notin Key
    /\ {NoEvent, CancelEvent, WakeEvent} \subseteq Event
    /\ \A k \in Key, a \in Attempt : [t |-> "turn", k |-> k, a |-> a] \in Event
    /\ \A e \in Event : e.t = "turn" => e.k \in Key /\ e.a \in Attempt
    /\ 0 \in 0..MaxAttempt /\ Attempt \subseteq 0..MaxAttempt
  BY BoundsAssumption DEF NoKey, Key, NoEvent, CancelEvent, WakeEvent, Event, Attempt

\* The owner is the one accepted turn, if there is one.
LEMMA OwnerFacts ==
    ASSUME OneOwner
    PROVE  /\ Owner \in Key \cup {NoKey}
           /\ Owner # NoKey => Owner \in Key /\ Accepted(Owner)
           /\ \A k \in Key : Accepted(k) => Owner = k
<1>1. CASE \E k \in Key : Accepted(k)
  <2>1. Owner \in Key /\ Accepted(Owner)
    BY <1>1 DEF Owner
  <2> QED
    BY <2>1, Sorts DEF OneOwner
<1>2. CASE ~\E k \in Key : Accepted(k)
  BY <1>2 DEF Owner
<1> QED
  BY <1>1, <1>2

\* One more trouble is still a count.
LEMMA TroubleType ==
    ASSUME TypeOK, NEW kinds \in SUBSET {"restart", "fault"}, Trouble(kinds)
    PROVE  count' \in CountRec
<1>1. count.trouble + 1 \in 0..MaxTrouble /\ count.kinds \cup kinds \in SUBSET {"restart", "fault"}
  BY BoundsAssumption DEF TypeOK, Trouble, CountRec
<1>2. count' = [count EXCEPT !.trouble = count.trouble + 1, !.kinds = count.kinds \cup kinds]
  BY DEF Trouble
<1> QED
  BY <1>1, <1>2, ZenonT(60) DEF TypeOK, CountRec

\* A turn put in the place of another.
LEMMA PutTurn ==
    ASSUME TypeOK, NEW k \in Key, NEW t \in TurnRec, turn' = [turn EXCEPT ![k] = t]
    PROVE  /\ turn' \in [Key -> TurnRec] /\ turn'[k] = t
           /\ \A j \in Key \ {k} : turn'[j] = turn[j]
  BY DEF TypeOK

\* Ending a turn releases its attempt and keeps its message (terminate).
LEMMA EndTurn ==
    ASSUME TypeOK, NEW k \in Key, NEW o \in Terminal,
           turn' = [turn EXCEPT ![k] = Terminated(@, o)]
    PROVE  /\ turn' \in [Key -> TurnRec]
           /\ turn'[k].life = o /\ turn'[k].effect # "executing"
           /\ turn'[k].lease = FALSE /\ turn'[k].mat = turn[k].mat
           /\ \A j \in Key \ {k} : turn'[j] = turn[j]
<1> DEFINE t == Terminated(turn[k], o)
<1>1. /\ t \in TurnRec /\ t.life = o /\ t.effect # "executing"
      /\ t.lease = FALSE /\ t.mat = turn[k].mat
  BY Sorts, ZenonT(90) DEF TypeOK, TurnRec, Terminated
<1>2. turn' = [turn EXCEPT ![k] = t]
  OBVIOUS
<1> QED
  BY <1>1, <1>2, PutTurn, ZenonT(60)

\* Claiming and releasing a turn change its attempt only.
LEMMA PutAttempt ==
    ASSUME TypeOK, NEW k \in Key, NEW f \in {"eligible", "executing"}, NEW a \in 0..MaxAttempt,
           NEW b \in BOOLEAN,
           turn' = [turn EXCEPT ![k].effect = f, ![k].att = a, ![k].lease = b]
    PROVE  /\ turn' \in [Key -> TurnRec]
           /\ turn'[k].life = turn[k].life /\ turn'[k].mat = turn[k].mat
           /\ turn'[k].effect = f /\ turn'[k].lease = b
           /\ \A j \in Key \ {k} : turn'[j] = turn[j]
<1> DEFINE t == [turn[k] EXCEPT !.effect = f, !.att = a, !.lease = b]
<1>1. /\ t \in TurnRec /\ t.life = turn[k].life /\ t.mat = turn[k].mat
      /\ t.effect = f /\ t.lease = b
  BY ZenonT(60) DEF TypeOK, TurnRec
<1>2. turn' = [turn EXCEPT ![k] = t]
  BY ZenonT(60) DEF TypeOK, TurnRec
<1> QED
  BY <1>1, <1>2, PutTurn, ZenonT(60)

\* The materialization's transaction takes the attempt's receipt.
LEMMA PutMessage ==
    ASSUME TypeOK, NEW k \in Key, Materialized(k)
    PROVE  /\ turn' \in [Key -> TurnRec]
           /\ turn'[k].life = turn[k].life /\ turn'[k].mat = TRUE
           /\ turn'[k].effect = "receipted" /\ turn'[k].lease = FALSE
           /\ \A j \in Key \ {k} : turn'[j] = turn[j]
<1> DEFINE t == [turn[k] EXCEPT !.mat = TRUE, !.effect = "receipted", !.att = 0, !.lease = FALSE]
<1>1. /\ t \in TurnRec /\ t.life = turn[k].life /\ t.mat = TRUE
      /\ t.effect = "receipted" /\ t.lease = FALSE
  BY Sorts, ZenonT(90) DEF TypeOK, TurnRec
<1>2. turn' = [turn EXCEPT ![k] = t]
  BY ZenonT(60) DEF TypeOK, TurnRec, Materialized
<1> QED
  BY <1>1, <1>2, PutTurn, ZenonT(60)

\* A resting executor.
LEMMA RestingFacts ==
    ASSUME NEW p \in Phase, NEW k \in Key \cup {NoKey}
    PROVE  /\ Resting(p, k) \in ExRec
           /\ Resting(p, k).phase = p /\ Resting(p, k).active = k
           /\ Resting(p, k).req = FALSE /\ Resting(p, k).pc = "ready"
  BY Sorts DEF Resting, ExRec, Phase

\* A resumed executor, which makes a request when it resumes in LlmRequesting.
LEMMA ResumedFacts ==
    ASSUME NEW p \in Phase, NEW k \in Key \cup {NoKey}, NEW b \in BOOLEAN
    PROVE  LET x == [Resting(p, k) EXCEPT !.req = b] IN
           x \in ExRec /\ x.phase = p /\ x.active = k /\ x.req = b /\ x.pc = "ready"
  BY Sorts, ZenonT(60) DEF Resting, ExRec, Phase

\* An executor on its way to rest.
LEMMA ToRestFacts ==
    ASSUME NEW x \in ExRec, NEW p \in {"idle", "error"}
    PROVE  /\ ToRest(x, p) \in ExRec
           /\ ToRest(x, p).phase = p /\ ToRest(x, p).prev = x.phase
           /\ ToRest(x, p).active = x.active /\ ToRest(x, p).req = FALSE
           /\ ToRest(x, p).pc = "settle"
           /\ x.active # NoKey => ToRest(x, p).pend \in Terminal /\ EarlyWatch(x, p) = watch
           /\ x.active = NoKey => EarlyWatch(x, p) = p
<1>1. /\ Classified(x, p) \in Terminal \cup {"none"}
      /\ x.active # NoKey => Classified(x, p) \in Terminal
  BY DEF Classified, Terminal, ExRec
<1>2. ToRest(x, p) = [x EXCEPT !.phase = p, !.prev = x.phase, !.pend = Classified(x, p),
                               !.req = FALSE, !.pc = "settle"]
  BY DEF ToRest
<1>3. "none" \notin Terminal
  BY DEF Terminal
<1> QED
  BY <1>1, <1>2, <1>3, ZenonT(60) DEF ExRec, Phase, EarlyWatch

\* An aborted materialization.
LEMMA AbortFacts ==
    ASSUME TypeOK, AbortMaterialization
    PROVE  /\ ex' \in ExRec /\ watch' \in Phase /\ watch' = ex.prev
           /\ ex'.phase = ex.prev /\ ex'.active = ex.active /\ ex'.req = ex.req
           /\ ex'.pc = "ready"
  BY Sorts, ZenonT(60) DEF TypeOK, AbortMaterialization, ExRec, Phase

\* A settlement that was refused or failed.
LEMMA RestoreFacts ==
    ASSUME TypeOK, SettleRestores
    PROVE  /\ ex' \in ExRec /\ watch' \in Phase /\ watch' = ex.prev
           /\ ex'.phase = ex.prev /\ ex'.active = ex.active /\ ex'.req = ex.req
           /\ ex'.pc = "ready"
  BY ZenonT(60) DEF TypeOK, SettleRestores, ExRec, Phase

\* A settlement that was committed.
LEMMA SettledFacts ==
    ASSUME TypeOK, Settled
    PROVE  /\ ex' \in ExRec /\ watch' \in Phase /\ watch' = ex.phase
           /\ ex'.phase = ex.phase /\ ex'.active = NoKey /\ ex'.req = FALSE
           /\ ex'.pc = "ready"
<1>1. ex.phase \in Phase
  BY DEF TypeOK, ExRec
<1>2. NoKey \in Key \cup {NoKey}
  OBVIOUS
<1> QED
  BY <1>1, <1>2, RestingFacts, ZenonT(60) DEF Settled

-----------------------------------------------------------------------------
(* What a step does to the turns. *)

\* The ways in which one turn changes: accepted, attempted, materialized, ended.
TurnMoves(k) ==
    /\ turn' \in [Key -> TurnRec]
    /\ \A j \in Key \ {k} : turn'[j] = turn[j]
    /\ turn'[k].lease => turn'[k].effect = "executing"
    /\ \/ /\ snd[k] = "checked" /\ snd'[k] = "done" /\ Owner = NoKey
          /\ turn'[k].life = "accepted" /\ ~turn'[k].mat
       \/ /\ Accepted(k) /\ ~turn[k].mat
          /\ turn'[k].life = "accepted" /\ ~turn'[k].mat /\ snd' = snd
       \/ /\ Accepted(k) /\ ~turn[k].mat
          /\ turn'[k].life = "accepted" /\ turn'[k].mat /\ turn'[k].effect # "executing"
          /\ ex.pc = "materialize" /\ ex'.pc = "ready" /\ ex.ev.k = k /\ snd' = snd
       \/ /\ Accepted(k)
          /\ turn'[k].life \in Terminal /\ turn'[k].effect # "executing" /\ snd' = snd

\* A step leaves the turns alone or moves one of them.
LEMMA TurnChanges ==
    ASSUME TurnInv, Next
    PROVE  turn' = turn \/ \E k \in Key : TurnMoves(k)
<1> USE DEF TurnInv
<1>1. ASSUME NEW k \in Key, Accept(k)
      PROVE  turn' = turn \/ TurnMoves(k)
  <2> DEFINE t == [Absent EXCEPT !.life = "accepted", !.effect = "eligible"]
  <2>1. t \in TurnRec /\ t.life = "accepted" /\ t.mat = FALSE /\ t.lease = FALSE
    BY Sorts, ZenonT(60) DEF Absent, TurnRec
  <2>2. CASE Owner = NoKey
    <3>1. turn' = [turn EXCEPT ![k] = t] /\ snd'[k] = "done" /\ snd[k] = "checked"
      BY <1>1, <2>2 DEF Accept, TypeOK
    <3> QED
      BY <2>1, <2>2, <3>1, PutTurn, ZenonT(90) DEF TurnMoves
  <2>3. CASE Owner # NoKey
    BY <1>1, <2>3 DEF Accept
  <2> QED
    BY <2>2, <2>3
<1>2. ASSUME NEW k \in Key, Claim(k)
      PROVE  TurnMoves(k)
  <2>1. PICK a \in Attempt :
            turn' = [turn EXCEPT ![k].effect = "executing", ![k].att = a, ![k].lease = TRUE]
    BY <1>2, ZenonT(60) DEF Claim
  <2> QED
    BY <1>2, <2>1, PutAttempt, Sorts, ZenonT(60) DEF Claim, TurnMoves, Accepted
<1>3. ASSUME NEW k \in Key, LeaseExpires(k)
      PROVE  TurnMoves(k)
  <2> DEFINE t == [turn[k] EXCEPT !.lease = FALSE]
  <2>1. /\ t \in TurnRec /\ t.life = turn[k].life /\ t.mat = turn[k].mat
        /\ t.effect = turn[k].effect /\ t.lease = FALSE
    BY ZenonT(60) DEF TypeOK, TurnRec
  <2>2. turn' = [turn EXCEPT ![k] = t]
    BY <1>3 DEF LeaseExpires
  <2>3. Accepted(k) /\ ~turn[k].mat /\ snd' = snd
    BY <1>3 DEF LeaseExpires, TurnFits
  <2> QED
    BY <2>1, <2>2, <2>3, PutTurn, ZenonT(60) DEF TurnMoves, Accepted
<1>4. ASSUME Dispatch
      PROVE  turn' = turn \/ \E k \in Key : TurnMoves(k)
  <2>1. CASE turn' = turn
    BY <2>1
  <2>2. CASE /\ HasAuthority(wk.k, wk.a)
             /\ turn' = [turn EXCEPT ![wk.k].effect = "eligible", ![wk.k].att = 0,
                                     ![wk.k].lease = FALSE]
    <3>1. wk.k \in Key /\ Accepted(wk.k) /\ ~turn[wk.k].mat /\ snd' = snd
      BY <1>4, <2>2 DEF Dispatch, TurnFits, HasAuthority
    <3> QED
      BY <2>2, <3>1, PutAttempt, Sorts, ZenonT(90) DEF TurnMoves, Accepted
  <2> QED
    BY <1>4, <2>1, <2>2 DEF Dispatch
<1>5. ASSUME NEW k \in Key, k = ex.ev.k, MaterializeApplies(k, ex.ev.a), Materialized(k),
             ex.pc = "materialize", ex'.pc = "ready", snd' = snd
      PROVE  TurnMoves(k)
  BY <1>5, PutMessage, ZenonT(60) DEF TurnMoves, MaterializeApplies, Accepted
<1>6. ex.pc = "materialize" => ex.ev.k \in Key
  BY Sorts DEF ExecutorFits, TypeOK, ExRec
<1>7. ASSUME Materialize
      PROVE  turn' = turn \/ \E k \in Key : TurnMoves(k)
  <2>1. CASE /\ MaterializeApplies(ex.ev.k, ex.ev.a) /\ Materialized(ex.ev.k)
             /\ ex' = [ex EXCEPT !.active = ex.ev.k, !.req = TRUE, !.prev = "idle",
                                 !.pc = "ready", !.ev = NoEvent]
    <3>1. ex'.pc = "ready" /\ ex.pc = "materialize" /\ snd' = snd
      BY <1>7, <2>1 DEF Materialize, TypeOK, ExRec
    <3> QED
      BY <1>5, <1>6, <2>1, <3>1
  <2> QED
    BY <1>7, <2>1 DEF Materialize
<1>8. ASSUME MaterializeFails
      PROVE  turn' = turn \/ \E k \in Key : TurnMoves(k)
  <2>1. ex.pc = "materialize" /\ ex'.pc = "ready" /\ snd' = snd
    BY <1>8, AbortFacts DEF MaterializeFails
  <2> QED
    BY <1>5, <1>6, <1>8, <2>1 DEF MaterializeFails
<1>9. ASSUME NEW k \in Key, Accepted(k), NEW o \in Terminal, snd' = snd,
             turn' = [turn EXCEPT ![k] = Terminated(@, o)]
      PROVE  TurnMoves(k)
  BY <1>9, EndTurn, ZenonT(60) DEF TurnMoves
<1>10. ASSUME Settle
       PROVE  turn' = turn \/ \E k \in Key : TurnMoves(k)
  <2>1. ex.active # NoKey => ex.active \in Key /\ ex.pend \in Terminal
    BY <1>10 DEF Settle, ExecutorFits, TypeOK, ExRec
  <2> QED
    BY <1>9, <1>10, <2>1 DEF Settle
<1>11. ASSUME CancelTurn
       PROVE  turn' = turn \/ \E k \in Key : TurnMoves(k)
  <2>1. "cancelled" \in Terminal
    BY DEF Terminal
  <2> QED
    BY <1>9, <1>11, <2>1, OwnerFacts DEF CancelTurn
<1>12. ASSUME StartRuntime
       PROVE  turn' = turn \/ \E k \in Key : TurnMoves(k)
  <2>1. "completed" \in Terminal
    BY DEF Terminal
  <2> DEFINE p == IF tail = "cont" THEN "llm" ELSE "idle"
             ended == Owner # NoKey /\ turn[Owner].mat /\ p = "idle"
  <2>2. turn' = IF ended THEN [turn EXCEPT ![Owner] = Terminated(@, "completed")] ELSE turn
    BY <1>12 DEF StartRuntime
  <2>3. snd' = snd
    BY <1>12 DEF StartRuntime
  <2> QED
    BY <1>9, <2>1, <2>2, <2>3, OwnerFacts
<1>13. ASSUME NEW k \in Key, SendCheck(k)
       PROVE  turn' = turn
  BY <1>13 DEF SendCheck
<1>14. ASSUME TakeTurn \/ Preflight \/ TakeCancel \/ TakeWake \/ ToolsDone
               \/ ToolsCancelled \/ Answered \/ ToolsRequested
       PROVE  turn' = turn
  BY <1>14 DEF TakeTurn, Preflight, TakeCancel, TakeWake, ToolsDone, ToolsCancelled, Answered,
               ToolsRequested
<1>15. ASSUME WorkerPreflight \/ PreflightFails \/ SettleFails \/ CancelRequested
               \/ CancelFollow \/ CancelSend \/ DeliverWake \/ Restart
       PROVE  turn' = turn
  BY <1>15, ZenonT(60) DEF WorkerPreflight, PreflightFails, SettleFails, CancelRequested, CancelFollow,
               CancelSend, DeliverWake, WakeCheck, WakeInsert, WakeAdopt, Restart
<1> QED
  BY <1>1, <1>2, <1>3, <1>4, <1>7, <1>8, <1>10, <1>11, <1>12, <1>13, <1>14, <1>15
     DEF Next, Work, Execute, Cancel

\* A message in the transcript was there before, or its turn is being materialized.
LEMMA DeliveredBefore ==
    ASSUME TurnInv, Next, NEW k \in Key, Accepted(k)', turn'[k].mat
    PROVE  /\ Accepted(k)
           /\ turn[k].mat \/ (ex.pc = "materialize" /\ ex'.pc = "ready" /\ ex.ev.k = k)
<1>1. "accepted" \notin Terminal
  BY DEF Terminal
<1>2. CASE turn' = turn
  BY <1>2 DEF Accepted
<1>3. ASSUME NEW j \in Key, TurnMoves(j), turn'[k] = turn[k]
      PROVE  Accepted(k) /\ turn[k].mat
  BY <1>3 DEF Accepted
<1>4. ASSUME TurnMoves(k)
      PROVE  Accepted(k) /\ ex.pc = "materialize" /\ ex'.pc = "ready" /\ ex.ev.k = k
  BY <1>1, <1>4 DEF TurnMoves, Accepted
<1> QED
  BY <1>2, <1>3, <1>4, TurnChanges DEF TurnMoves

\* There is never a second owner.
LEMMA OneOwnerStep ==
    ASSUME TurnInv, Next
    PROVE  OneOwner'
<1> USE DEF TurnInv
<1>1. CASE turn' = turn
  BY <1>1 DEF OneOwner, Accepted
<1>2. ASSUME NEW k \in Key, TurnMoves(k)
      PROVE  OneOwner'
  <2>1. CASE Accepted(k)
    BY <1>2, <2>1 DEF OneOwner, Accepted, TurnMoves
  <2>2. CASE Owner = NoKey
    <3>1. \A j \in Key : ~Accepted(j)
      BY <2>2, OwnerFacts, Sorts
    <3> QED
      BY <1>2, <3>1 DEF OneOwner, Accepted, TurnMoves
  <2> QED
    BY <1>2, <2>1, <2>2 DEF TurnMoves
<1> QED
  BY <1>1, <1>2, TurnChanges

\* A turn and its attempt, and the request that brings it, stay together.
LEMMA TurnFitsStep ==
    ASSUME TurnInv, Next
    PROVE  TurnFits'
<1> USE DEF TurnInv
<1>1. (wk.pc # "scan" => wk.k \in Key /\ wk.a \in Attempt)'
  <2>1. ASSUME NEW k \in Key, Claim(k)
        PROVE  (wk.pc # "scan" => wk.k \in Key /\ wk.a \in Attempt)'
    BY <2>1 DEF Claim
  <2>2. ASSUME WorkerPreflight
        PROVE  (wk.pc # "scan" => wk.k \in Key /\ wk.a \in Attempt)'
    BY <2>2, ZenonT(60) DEF WorkerPreflight, NoWork, TurnFits, TypeOK, WorkRec
  <2>3. ASSUME Dispatch \/ Restart
        PROVE  (wk.pc # "scan" => wk.k \in Key /\ wk.a \in Attempt)'
    BY <2>3 DEF Dispatch, Restart, NoWork
  <2>4. ASSUME wk' = wk
        PROVE  (wk.pc # "scan" => wk.k \in Key /\ wk.a \in Attempt)'
    BY <2>4 DEF TurnFits
  <2>5. ASSUME NEW k \in Key, SendCheck(k) \/ Accept(k) \/ LeaseExpires(k)
        PROVE  wk' = wk
    BY <2>5 DEF SendCheck, Accept, LeaseExpires
  <2>6. ASSUME Execute \/ ToolsRequested
        PROVE  wk' = wk
    BY ZenonT(60), <2>6 DEF Execute, TakeTurn, Preflight, Materialize, TakeCancel, TakeWake, ToolsDone,
                ToolsCancelled, Answered, Settle, ToolsRequested
  <2>7. ASSUME \/ PreflightFails \/ MaterializeFails \/ SettleFails \/ CancelRequested \/ Cancel
               \/ DeliverWake \/ StartRuntime
        PROVE  wk' = wk
    BY <2>7 DEF PreflightFails, MaterializeFails, SettleFails, CancelRequested, Cancel,
                CancelTurn, CancelFollow, CancelSend, DeliverWake, WakeCheck, WakeInsert,
                WakeAdopt, StartRuntime
  <2> QED
    BY <2>1, <2>2, <2>3, <2>4, <2>5, <2>6, <2>7 DEF Next, Work
<1>2. ASSUME NEW k \in Key
      PROVE  snd'[k] # "done" => snd[k] # "done"
  <2>1. ASSUME NEW j \in Key, SendCheck(j) \/ Accept(j)
        PROVE  snd'[k] # "done" => snd[k] # "done"
    BY <2>1 DEF SendCheck, Accept, TypeOK
  <2>2. ASSUME Restart
        PROVE  snd'[k] # "done" => snd[k] # "done"
    BY <2>2 DEF Restart
  <2>3. ASSUME NEW j \in Key, LeaseExpires(j)
        PROVE  snd' = snd
    BY <2>3 DEF LeaseExpires
  <2>4. ASSUME Work \/ Execute \/ ToolsRequested
        PROVE  snd' = snd
    BY <2>4, ZenonT(60) DEF Work, WorkerPreflight, Dispatch, Claim, Execute, TakeTurn, Preflight, Materialize,
                TakeCancel, TakeWake, ToolsDone, ToolsCancelled, Answered, Settle, ToolsRequested
  <2>5. ASSUME \/ PreflightFails \/ MaterializeFails \/ SettleFails \/ CancelRequested \/ Cancel
               \/ DeliverWake \/ StartRuntime
        PROVE  snd' = snd
    BY <2>5 DEF PreflightFails, MaterializeFails, SettleFails, CancelRequested, Cancel,
                CancelTurn, CancelFollow, CancelSend, DeliverWake, WakeCheck, WakeInsert,
                WakeAdopt, StartRuntime
  <2> QED
    BY <2>1, <2>2, <2>3, <2>4, <2>5 DEF Next
<1>3. CASE turn' = turn
  BY <1>1, <1>2, <1>3 DEF TurnFits, Accepted
<1>4. ASSUME NEW k \in Key, TurnMoves(k)
      PROVE  TurnFits'
  <2>1. ASSUME NEW j \in Key \ {k}
        PROVE  /\ snd'[j] # "done" => turn'[j].life = "absent"
               /\ turn'[j].effect = "executing" => turn'[j].life = "accepted" /\ ~turn'[j].mat
               /\ turn'[j].lease => turn'[j].effect = "executing"
    BY <1>2, <1>4, <2>1 DEF TurnFits, TurnMoves, Accepted
  <2>2. /\ snd'[k] = "done"
        /\ turn'[k].effect = "executing" => turn'[k].life = "accepted" /\ ~turn'[k].mat
        /\ turn'[k].lease => turn'[k].effect = "executing"
    BY <1>4, Sorts DEF TurnFits, TurnMoves, Accepted
  <2> QED
    BY <1>1, <2>1, <2>2 DEF TurnFits, Accepted
<1> QED
  BY <1>3, <1>4, TurnChanges

\* A turn that has ended does not change.
LEMMA EndedStep ==
    ASSUME TurnInv, Next, NEW k \in Key, turn[k].life \in Terminal
    PROVE  turn'[k] = turn[k]
<1> USE DEF TurnInv
<1>1. ASSUME NEW j \in Key, TurnMoves(j)
      PROVE  turn'[k] = turn[k]
  <2>1. snd[k] = "done" /\ ~Accepted(k)
    BY DEF TurnFits, Accepted, Terminal
  <2> QED
    BY <1>1, <2>1 DEF TurnMoves
<1> QED
  BY <1>1, TurnChanges

-----------------------------------------------------------------------------
(* What a step does to the executor. *)

\* Every step keeps the types.
LEMMA TypeStep ==
    ASSUME TurnInv, Next
    PROVE  TypeOK'
<1> USE DEF TurnInv
<1>0. turn' \in [Key -> TurnRec]
  BY TurnChanges DEF TurnMoves, TypeOK
<1>1. ASSUME NEW k \in Key, SendCheck(k)
      PROVE  TypeOK'
  BY <1>0, <1>1 DEF SendCheck, TypeOK
<1>2. ASSUME NEW k \in Key, Accept(k)
      PROVE  TypeOK'
  BY <1>0, <1>2 DEF Accept, TypeOK
<1>3. ASSUME NEW k \in Key, LeaseExpires(k)
      PROVE  TypeOK'
  <2>1. count' \in CountRec
    BY <1>3, TroubleType DEF LeaseExpires, TypeOK
  <2> QED
    BY <1>0, <1>3, <2>1 DEF LeaseExpires, TypeOK
<1>4. ASSUME NEW k \in Key, Claim(k)
      PROVE  TypeOK'
  <2>1. wk' \in WorkRec
    BY <1>4, Sorts DEF Claim, WorkRec
  <2> QED
    BY <1>0, <1>4, <2>1 DEF Claim, TypeOK
<1>5. ASSUME WorkerPreflight
      PROVE  TypeOK'
  <2>1. wk' \in WorkRec
    BY <1>5, Sorts, ZenonT(60) DEF WorkerPreflight, NoWork, WorkRec, TypeOK
  <2> QED
    BY <1>0, <1>5, <2>1, ZenonT(60) DEF WorkerPreflight, TypeOK
<1>6. ASSUME Dispatch
      PROVE  TypeOK'
  <2>1. wk' \in WorkRec
    BY <1>6, Sorts DEF Dispatch, NoWork, WorkRec
  <2> DEFINE e == [t |-> "turn", k |-> wk.k, a |-> wk.a]
  <2>2. e \in Event
    BY <1>6, Sorts DEF Dispatch, TurnFits
  <2>3. chan' = chan \/ chan' = Append(chan, e)
    BY <1>6 DEF Dispatch
  <2>4. chan' \in Seq(Event)
    <3> HIDE DEF e
    <3> QED
      BY <2>2, <2>3 DEF TypeOK
  <2> QED
    BY <1>0, <1>6, <2>1, <2>4 DEF Dispatch, TypeOK
<1>7. ASSUME TakeTurn
      PROVE  TypeOK'
  <2>1. chan' \in Seq(Event) /\ Head(chan) \in Event
    BY <1>7 DEF TakeTurn, TypeOK
  <2>2. ex' \in ExRec /\ watch' \in Phase
    BY <1>7, <2>1, ZenonT(90) DEF TakeTurn, TypeOK, ExRec, Phase
  <2> QED
    BY <1>0, <1>7, <2>1, <2>2 DEF TakeTurn, TypeOK
<1>8. ASSUME Preflight
      PROVE  TypeOK'
  <2>1. ex' \in ExRec /\ watch' \in Phase
    <3>1. CASE AbortMaterialization
      BY <3>1, AbortFacts
    <3>2. CASE ex' = [ex EXCEPT !.pc = "materialize"] /\ watch' = watch
      BY <3>2 DEF TypeOK, ExRec
    <3> QED
      BY <1>8, <3>1, <3>2 DEF Preflight
  <2> QED
    BY <1>0, <1>8, <2>1 DEF Preflight, TypeOK
<1>9. ASSUME Materialize
      PROVE  TypeOK'
  <2>1. ex.ev.k \in Key
    BY <1>9, Sorts DEF Materialize, ExecutorFits, TypeOK, ExRec
  <2>2. ex' \in ExRec /\ watch' \in Phase
    <3>1. CASE AbortMaterialization
      BY <3>1, AbortFacts
    <3>2. CASE /\ ex' = [ex EXCEPT !.active = ex.ev.k, !.req = TRUE, !.prev = "idle",
                                   !.pc = "ready", !.ev = NoEvent]
               /\ watch' = watch
      BY <2>1, <3>2, Sorts, ZenonT(60) DEF TypeOK, ExRec, Phase
    <3> QED
      BY <1>9, <3>1, <3>2 DEF Materialize
  <2>3. row' \in {"idle", "llm", "tool", "error"} /\ tail' \in {"rest", "cont", "wake"}
        /\ heard' \in BOOLEAN
    BY <1>9, ZenonT(60) DEF Materialize, Materialized, Requested, TypeOK
  <2> QED
    BY <1>0, <1>9, <2>2, <2>3 DEF Materialize, TypeOK
<1>10. ASSUME TakeCancel
       PROVE  TypeOK'
  <2> DEFINE x == [ex EXCEPT !.cancelling = @ \/ ex.active # NoKey]
  <2>1. x \in ExRec
    BY ZenonT(60) DEF TypeOK, ExRec
  <2>2. ToRest(x, "idle") \in ExRec /\ EarlyWatch(x, "idle") \in Phase
    BY <2>1, ToRestFacts, ZenonT(60) DEF TypeOK, Phase
  <2>3. [x EXCEPT !.phase = "cancelling"] \in ExRec
    BY <2>1, ZenonT(60) DEF ExRec, Phase
  <2>4. ex' \in ExRec /\ watch' \in Phase /\ row' \in {"idle", "llm", "tool", "error"}
    BY <1>10, <2>2, <2>3 DEF TakeCancel, TypeOK, Phase
  <2>5. chan' \in Seq(Event)
    BY <1>10 DEF TakeCancel, TypeOK
  <2> QED
    BY <1>0, <1>10, <2>4, <2>5 DEF TakeCancel, TypeOK
<1>11. ASSUME TakeWake
       PROVE  TypeOK'
  <2>1. ex' \in ExRec /\ watch' \in Phase
    BY <1>11, ZenonT(60) DEF TakeWake, TypeOK, ExRec, Phase
  <2>2. chan' \in Seq(Event)
    BY <1>11 DEF TakeWake, TypeOK
  <2>3. heard' \in BOOLEAN
    BY <1>11, ZenonT(60) DEF TakeWake, Requested, TypeOK
  <2> QED
    BY <1>0, <1>11, <2>1, <2>2, <2>3 DEF TakeWake, TypeOK
<1>12. ASSUME ToolsDone
       PROVE  TypeOK'
  <2>1. ex' \in ExRec /\ watch' \in Phase
    BY <1>12 DEF ToolsDone, TypeOK, ExRec, Phase
  <2> QED
    BY <1>0, <1>12, <2>1 DEF ToolsDone, Requested, TypeOK
<1>13. ASSUME ToolsCancelled
       PROVE  TypeOK'
  <2>1. ex' \in ExRec /\ watch' \in Phase
    BY <1>13, ToRestFacts, ZenonT(60) DEF ToolsCancelled, TypeOK, Phase
  <2> QED
    BY <1>0, <1>13, <2>1 DEF ToolsCancelled, TypeOK
<1>14. ASSUME Answered
       PROVE  TypeOK'
  <2>1. ex' \in ExRec /\ watch' \in Phase
    <3>1. CASE ex' = ToRest(ex, "idle") /\ watch' = EarlyWatch(ex, "idle")
      BY <3>1, ToRestFacts, ZenonT(60) DEF TypeOK, Phase
    <3>2. CASE ex' = ToRest(ex, "error") /\ watch' = EarlyWatch(ex, "error")
      BY <3>2, ToRestFacts, ZenonT(60) DEF TypeOK, Phase
    <3> QED
      BY <1>14, <3>1, <3>2 DEF Answered
  <2> QED
    BY <1>0, <1>14, <2>1 DEF Answered, TypeOK
<1>15. ASSUME Settle
       PROVE  TypeOK'
  <2>1. ex' \in ExRec /\ watch' \in Phase
    <3>1. CASE Settled
      BY <3>1, SettledFacts
    <3>2. CASE SettleRestores
      BY <3>2, RestoreFacts
    <3>3. CASE ex' = [ex EXCEPT !.prev = "idle", !.pc = "ready"] /\ watch' = ex.phase
      BY <3>3, ZenonT(60) DEF TypeOK, ExRec, Phase
    <3> QED
      BY <1>15, <3>1, <3>2, <3>3 DEF Settle
  <2>2. row' \in {"idle", "llm", "tool", "error"}
    BY <1>15 DEF Settle, ExecutorFits, TypeOK
  <2> QED
    BY <1>0, <1>15, <2>1, <2>2 DEF Settle, TypeOK
<1>16. ASSUME ToolsRequested
       PROVE  TypeOK'
  <2>1. ex' \in ExRec /\ watch' \in Phase
    BY <1>16 DEF ToolsRequested, TypeOK, ExRec, Phase
  <2>2. count.round + 1 \in 0..MaxRound
    BY <1>16, BoundsAssumption DEF ToolsRequested, TypeOK, CountRec
  <2>3. count' \in CountRec
    BY <1>16, <2>2 DEF ToolsRequested, TypeOK, CountRec
  <2> QED
    BY <1>0, <1>16, <2>1, <2>3 DEF ToolsRequested, TypeOK
<1>17. ASSUME PreflightFails
       PROVE  TypeOK'
  <2>1. ex' \in ExRec
    BY <1>17, Sorts, ZenonT(60) DEF PreflightFails, TypeOK, ExRec
  <2>2. count' \in CountRec
    BY <1>17, TroubleType DEF PreflightFails
  <2> QED
    BY <1>0, <1>17, <2>1, <2>2 DEF PreflightFails, TypeOK
<1>18. ASSUME MaterializeFails
       PROVE  TypeOK'
  <2>1. ex' \in ExRec /\ watch' \in Phase
    BY <1>18, AbortFacts DEF MaterializeFails
  <2>2. count' \in CountRec
    BY <1>18, TroubleType DEF MaterializeFails
  <2>3. row' \in {"idle", "llm", "tool", "error"} /\ tail' \in {"rest", "cont", "wake"}
    BY ZenonT(60), <1>18 DEF MaterializeFails, Materialized, TypeOK
  <2> QED
    BY <1>0, <1>18, <2>1, <2>2, <2>3 DEF MaterializeFails, TypeOK
<1>19. ASSUME SettleFails
       PROVE  TypeOK'
  <2>1. ex' \in ExRec /\ watch' \in Phase
    BY <1>19, RestoreFacts DEF SettleFails
  <2>2. count' \in CountRec
    BY <1>19, TroubleType DEF SettleFails
  <2> QED
    BY <1>0, <1>19, <2>1, <2>2 DEF SettleFails, TypeOK
<1>20. ASSUME CancelRequested
       PROVE  TypeOK'
  <2>1. count' \in CountRec
    BY <1>20, TroubleType DEF CancelRequested
  <2> QED
    BY <1>0, <1>20, <2>1 DEF CancelRequested, TypeOK
<1>21. ASSUME Cancel
       PROVE  TypeOK'
  <2>1. chan' \in Seq(Event)
    <3>1. chan' = chan \/ chan' = Append(chan, CancelEvent)
      BY <1>21 DEF Cancel, CancelTurn, CancelFollow, CancelSend
    <3> QED
      BY <3>1, Sorts DEF TypeOK
  <2> QED
    BY <1>0, <1>21, <2>1 DEF Cancel, CancelTurn, CancelFollow, CancelSend, TypeOK
<1>22. ASSUME DeliverWake
       PROVE  TypeOK'
  <2>1. chan' \in Seq(Event)
    <3>1. chan' = chan \/ chan' = Append(chan, WakeEvent)
      BY <1>22 DEF DeliverWake, WakeCheck, WakeInsert, WakeAdopt
    <3> QED
      BY <3>1, Sorts DEF TypeOK
  <2> QED
    BY <1>0, <1>22, <2>1 DEF DeliverWake, WakeCheck, WakeInsert, WakeAdopt, TypeOK, Inserted
<1>23. ASSUME StartRuntime
       PROVE  TypeOK'
  <2> DEFINE p == IF tail = "cont" THEN "llm" ELSE "idle"
             ended == Owner # NoKey /\ turn[Owner].mat /\ p = "idle"
             k == IF ended THEN NoKey ELSE Owner
  <2>1. p \in Phase /\ k \in Key \cup {NoKey} /\ (p = "llm") \in BOOLEAN
    BY OwnerFacts DEF Phase
  <2>2. ex' = [Resting(p, k) EXCEPT !.req = (p = "llm")] /\ watch' = p
    BY <1>23 DEF StartRuntime
  <2>3. ex' \in ExRec /\ watch' \in Phase
    BY <2>1, <2>2, ResumedFacts, ZenonT(60)
  <2>4. row' \in {"idle", "llm", "tool", "error"} /\ tail' \in {"rest", "cont", "wake"}
        /\ heard' \in BOOLEAN
    BY <1>23, ZenonT(60) DEF StartRuntime, Requested, TypeOK
  <2> QED
    BY <1>0, <1>23, <2>3, <2>4 DEF StartRuntime, TypeOK
<1>24. ASSUME Restart
       PROVE  TypeOK'
  <2>1. "idle" \in Phase /\ NoKey \in Key \cup {NoKey}
    BY DEF Phase
  <2>2. ex' \in ExRec /\ watch' \in Phase
    BY <1>24, <2>1, RestingFacts, ZenonT(60) DEF Restart
  <2>3. wk' \in WorkRec
    BY <1>24, Sorts DEF Restart, NoWork, WorkRec
  <2>4. count' \in CountRec
    BY <1>24, TroubleType DEF Restart
  <2>5. /\ row' \in {"idle", "llm", "tool", "error"} /\ tail' \in {"rest", "cont", "wake"}
        /\ wake' \in {"pending", "checked", "starting"} \cup Inserted
    BY <1>24 DEF Restart, TypeOK, Inserted
  <2>6. chan' \in Seq(Event) /\ snd' \in [Key -> {"new", "checked", "done"}]
    BY <1>24 DEF Restart, TypeOK
  <2> QED
    BY <1>0, <1>24, <2>2, <2>3, <2>4, <2>5, <2>6, ZenonT(60) DEF Restart, TypeOK
<1> QED
  BY <1>1, <1>2, <1>3, <1>4, <1>5, <1>6, <1>7, <1>8, <1>9, <1>10, <1>11, <1>12, <1>13, <1>14,
     <1>15, <1>16, <1>17, <1>18, <1>19, <1>20, <1>21, <1>22, <1>23, <1>24
     DEF Next, Work, Execute

\* The steps that leave the executor alone.
Aside ==
    \/ \E k \in Key : SendCheck(k) \/ Accept(k) \/ LeaseExpires(k)
    \/ Work \/ CancelRequested \/ Cancel \/ DeliverWake

\* They do so, and only a loaded executor is sent an event.
LEMMA AsideFacts ==
    ASSUME Aside
    PROVE  ex' = ex /\ watch' = watch /\ rt' = rt /\ (chan' = chan \/ rt)
<1>1. ASSUME NEW k \in Key, SendCheck(k) \/ Accept(k) \/ LeaseExpires(k) \/ Claim(k)
      PROVE  ex' = ex /\ watch' = watch /\ rt' = rt /\ chan' = chan
  BY <1>1, ZenonT(60) DEF SendCheck, Accept, LeaseExpires, Claim
<1>2. ASSUME WorkerPreflight \/ Dispatch \/ CancelRequested
      PROVE  ex' = ex /\ watch' = watch /\ rt' = rt /\ (chan' = chan \/ rt)
  BY <1>2, ZenonT(60) DEF WorkerPreflight, Dispatch, CancelRequested
<1>3. ASSUME Cancel \/ DeliverWake
      PROVE  ex' = ex /\ watch' = watch /\ rt' = rt /\ (chan' = chan \/ rt)
  BY <1>3 DEF Cancel, CancelTurn, CancelFollow, CancelSend, DeliverWake, WakeCheck, WakeInsert,
              WakeAdopt
<1> QED
  BY <1>1, <1>2, <1>3 DEF Aside, Work

\* An executor that has something to do is loaded.
LEMMA Loaded ==
    ASSUME TurnInv, ex.pc # "ready" \/ ex.phase # "idle" \/ chan # <<>>
    PROVE  rt
<1>1. "idle" \in Phase /\ NoKey \in Key \cup {NoKey}
  BY DEF Phase
<1>2. ~rt => ex = Resting("idle", NoKey) /\ chan = <<>>
  BY DEF TurnInv, ExecutorFits
<1>3. Resting("idle", NoKey).pc = "ready" /\ Resting("idle", NoKey).phase = "idle"
  BY <1>1, RestingFacts, ZenonT(60)
<1> QED
  BY <1>2, <1>3

\* The executor's position keeps saying what it says.
LEMMA ExecutorStep ==
    ASSUME TurnInv, Next
    PROVE  ExecutorFits'
<1> USE DEF TurnInv
<1>1. CASE Aside
  BY <1>1, AsideFacts DEF ExecutorFits
<1>2. CASE TakeTurn
  <2>1. rt /\ rt' = rt
    BY <1>2, Loaded DEF TakeTurn
  <2>2. CASE ex.phase \in {"idle", "error"}
    <3>1. /\ ex'.pc = "preflight" /\ ex'.phase = "llm" /\ ex'.prev = ex.phase
          /\ ex'.ev.t = "turn" /\ ex'.req = ex.req /\ watch' = "llm"
      BY <1>2, <2>2, ZenonT(60) DEF TakeTurn, TypeOK, ExRec, Busy
    <3>2. ex.req = FALSE
      BY <2>2 DEF ExecutorFits, Busy, TypeOK, ExRec
    <3> QED
      BY <2>1, <2>2, <3>1, <3>2 DEF ExecutorFits
  <2>3. CASE ex.phase \notin {"idle", "error"}
    BY <1>2, <2>1, <2>3 DEF TakeTurn, ExecutorFits
  <2> QED
    BY <2>2, <2>3
<1>3. ASSUME AbortMaterialization, ex.pc \in {"preflight", "materialize"}, rt' = rt
      PROVE  ExecutorFits'
  <2>1. rt /\ ex.req = FALSE
    BY <1>3, Loaded DEF ExecutorFits, TypeOK, ExRec
  <2> QED
    BY <1>3, <2>1, AbortFacts DEF ExecutorFits
<1>4. CASE Preflight
  <2>1. CASE ex' = [ex EXCEPT !.pc = "materialize"] /\ watch' = watch
    <3>1. rt /\ rt' = rt
      BY <1>4, Loaded DEF Preflight
    <3>2. /\ ex'.pc = "materialize" /\ ex'.phase = ex.phase /\ ex'.prev = ex.prev
          /\ ex'.ev = ex.ev /\ ex'.req = ex.req
      BY <2>1 DEF TypeOK, ExRec
    <3>3. ex.pc = "preflight"
      BY <1>4 DEF Preflight
    <3> QED
      BY <2>1, <3>1, <3>2, <3>3 DEF ExecutorFits
  <2> QED
    BY <1>3, <1>4, <2>1 DEF Preflight
<1>5. CASE Materialize
  <2>1. CASE ex' = [ex EXCEPT !.active = ex.ev.k, !.req = TRUE, !.prev = "idle", !.pc = "ready",
                              !.ev = NoEvent] /\ watch' = watch
    <3>1. rt /\ rt' = rt
      BY <1>5, Loaded DEF Materialize
    <3>2. ex'.pc = "ready" /\ ex'.phase = ex.phase /\ ex'.req = TRUE
      BY <2>1 DEF TypeOK, ExRec
    <3>3. ex.pc = "materialize"
      BY <1>5 DEF Materialize
    <3> QED
      BY <2>1, <3>1, <3>2, <3>3 DEF ExecutorFits, Busy
  <2> QED
    BY <1>3, <1>5, <2>1 DEF Materialize
<1>6. ASSUME NEW x \in ExRec, NEW p \in {"idle", "error"}, x.phase = ex.phase, x.phase \in Busy,
             watch = ex.phase, ex' = ToRest(x, p), watch' = EarlyWatch(x, p), rt' = rt
      PROVE  ExecutorFits'
  <2>1. rt
    BY <1>6, Loaded DEF Busy
  <2>2. /\ ex'.phase = p /\ ex'.prev = ex.phase /\ ex'.active = x.active /\ ex'.req = FALSE
        /\ ex'.pc = "settle"
        /\ x.active # NoKey => ex'.pend \in Terminal /\ watch' = ex.phase
        /\ x.active = NoKey => watch' = p
    BY <1>6, ToRestFacts, ZenonT(60)
  <2> QED
    BY <1>6, <2>1, <2>2 DEF ExecutorFits
<1>7. CASE TakeCancel
  <2> DEFINE x == [ex EXCEPT !.cancelling = @ \/ ex.active # NoKey]
  <2>1. x \in ExRec /\ x.phase = ex.phase /\ x.pc = ex.pc /\ x.req = ex.req
    BY ZenonT(60) DEF TypeOK, ExRec
  <2>2. rt /\ rt' = rt /\ watch = ex.phase
    BY <1>7, Loaded DEF TakeCancel, ExecutorFits
  <2>3. CASE ex.phase = "llm"
    <3>1. ex' = ToRest(x, "idle") /\ watch' = EarlyWatch(x, "idle")
      BY <1>7, <2>3 DEF TakeCancel
    <3> QED
      BY <1>6, <2>1, <2>2, <2>3, <3>1, ZenonT(60) DEF Busy
  <2>4. CASE ex.phase = "tool"
    <3>1. ex' = [x EXCEPT !.phase = "cancelling"] /\ watch' = "cancelling"
      BY <1>7, <2>4 DEF TakeCancel
    <3>2. ex'.phase = "cancelling" /\ ex'.pc = "ready" /\ ex'.req = ex.req
      BY <1>7, <2>1, <3>1 DEF ExRec, TakeCancel
    <3> QED
      BY <2>2, <3>1, <3>2 DEF ExecutorFits, Busy
  <2>5. CASE ex.phase \notin {"llm", "tool"}
    BY <1>7, <2>2, <2>5 DEF TakeCancel, ExecutorFits
  <2> QED
    BY <2>3, <2>4, <2>5
<1>8. CASE TakeWake
  <2>1. rt /\ rt' = rt
    BY <1>8, Loaded DEF TakeWake
  <2>2. CASE ex.phase = "idle"
    <3>1. ex'.phase = "llm" /\ ex'.pc = "ready" /\ watch' = "llm"
      BY <1>8, <2>2, ZenonT(60) DEF TakeWake, TypeOK, ExRec
    <3> QED
      BY <2>1, <3>1 DEF ExecutorFits, Busy
  <2>3. CASE ex.phase # "idle"
    BY <1>8, <2>1, <2>3 DEF TakeWake, ExecutorFits
  <2> QED
    BY <2>2, <2>3
<1>9. CASE ToolsRequested \/ ToolsDone
  <2>1. rt /\ rt' = rt
    BY <1>9, Loaded DEF ToolsRequested, ToolsDone
  <2>2. ex'.phase \in {"llm", "tool"} /\ ex'.pc = "ready" /\ watch' = ex'.phase
    BY <1>9 DEF ToolsRequested, ToolsDone, TypeOK, ExRec
  <2> QED
    BY <2>1, <2>2 DEF ExecutorFits, Busy
<1>10. CASE ToolsCancelled
  <2>1. ex \in ExRec /\ watch = ex.phase /\ ex.phase \in Busy
    BY <1>10 DEF ToolsCancelled, ExecutorFits, TypeOK, Busy
  <2> QED
    BY <1>6, <1>10, <2>1 DEF ToolsCancelled
<1>11. CASE Answered
  <2>1. ex \in ExRec /\ watch = ex.phase /\ ex.phase \in Busy
    BY <1>11 DEF Answered, ExecutorFits, TypeOK, Busy
  <2> QED
    BY <1>6, <1>11, <2>1 DEF Answered
<1>12. ASSUME SettleRestores, ex.pc = "settle", rt' = rt
       PROVE  ExecutorFits'
  <2>1. rt /\ ex.req = FALSE
    BY <1>12, Loaded DEF ExecutorFits, TypeOK, ExRec
  <2> QED
    BY <1>12, <2>1, RestoreFacts DEF ExecutorFits
<1>13. CASE Settle
  <2>1. rt /\ rt' = rt /\ ex.pc = "settle" /\ ex.req = FALSE
    BY <1>13, Loaded DEF Settle, ExecutorFits, TypeOK, ExRec
  <2>2. CASE Settled
    BY <2>1, <2>2, SettledFacts, ZenonT(60) DEF ExecutorFits
  <2>3. CASE ex' = [ex EXCEPT !.prev = "idle", !.pc = "ready"] /\ watch' = ex.phase
    <3>1. ex'.pc = "ready" /\ ex'.phase = ex.phase /\ ex'.req = FALSE
      BY <2>1, <2>3 DEF TypeOK, ExRec
    <3> QED
      BY <2>1, <2>3, <3>1 DEF ExecutorFits
  <2> QED
    BY <1>12, <1>13, <2>1, <2>2, <2>3 DEF Settle
<1>14. CASE PreflightFails
  <2>1. rt /\ rt' = rt /\ ex.pc = "preflight" /\ watch' = watch
    BY <1>14, Loaded DEF PreflightFails
  <2>2. ex'.pc = "ready" /\ ex'.phase = ex.phase /\ ex'.req = ex.req
    BY <1>14 DEF PreflightFails, TypeOK, ExRec
  <2> QED
    BY <2>1, <2>2 DEF ExecutorFits
<1>15. CASE MaterializeFails
  BY <1>3, <1>15 DEF MaterializeFails
<1>16. CASE SettleFails
  BY <1>12, <1>16 DEF SettleFails
<1>17. CASE StartRuntime
  <2> DEFINE p == IF tail = "cont" THEN "llm" ELSE "idle"
             ended == Owner # NoKey /\ turn[Owner].mat /\ p = "idle"
             k == IF ended THEN NoKey ELSE Owner
             b == p = "llm"
  <2>1. p \in Phase /\ k \in Key \cup {NoKey} /\ b \in BOOLEAN
    BY OwnerFacts DEF Phase
  <2>2. ex' = [Resting(p, k) EXCEPT !.req = b] /\ watch' = p /\ rt' = TRUE
    BY <1>17 DEF StartRuntime
  <2>3. ex'.phase = p /\ ex'.req = b /\ ex'.pc = "ready"
    <3> HIDE DEF p, k, b
    <3> QED
      BY <2>1, <2>2, ResumedFacts
  <2> QED
    BY <2>2, <2>3, ZenonT(60) DEF ExecutorFits, Busy
<1>18. CASE Restart
  <2>1. "idle" \in Phase /\ NoKey \in Key \cup {NoKey}
    BY DEF Phase
  <2> QED
    BY <1>18, <2>1, RestingFacts, ZenonT(90) DEF Restart, ExecutorFits
<1> QED
  BY <1>1, <1>2, <1>4, <1>5, <1>7, <1>8, <1>9, <1>10, <1>11, <1>13, <1>14, <1>15, <1>16, <1>17,
     <1>18 DEF Next, Execute, Aside

\* Failing calls are remembered.
LEMMA FaultsStay ==
    ASSUME TurnInv, Next, Faultless'
    PROVE  Faultless /\ ~PreflightFails /\ ~MaterializeFails /\ ~SettleFails
<1> USE DEF TurnInv
<1>1. ASSUME NEW kinds, Trouble(kinds)
      PROVE  count'.kinds = count.kinds \cup kinds
  BY <1>1 DEF Trouble, TypeOK, CountRec
<1>2. ~PreflightFails /\ ~MaterializeFails /\ ~SettleFails
  BY <1>1 DEF PreflightFails, MaterializeFails, SettleFails, Faultless
<1>3. ASSUME ToolsRequested
      PROVE  count'.kinds = count.kinds
  BY <1>3 DEF ToolsRequested, TypeOK, CountRec
<1>4. ASSUME CancelRequested \/ Restart \/ \E k \in Key : LeaseExpires(k)
      PROVE  count' = count \/ \E kinds : Trouble(kinds)
  BY <1>4 DEF CancelRequested, Restart, LeaseExpires
<1>5. ASSUME Work \/ \E k \in Key : SendCheck(k) \/ Accept(k)
      PROVE  count' = count
  BY <1>5, ZenonT(60) DEF Work, WorkerPreflight, Dispatch, Claim, SendCheck, Accept
<1>6. ASSUME Execute
      PROVE  count' = count
  BY <1>6 DEF Execute, TakeTurn, Preflight, Materialize, TakeCancel, TakeWake, ToolsDone,
              ToolsCancelled, Answered, Settle
<1>7. ASSUME Cancel \/ DeliverWake \/ StartRuntime
      PROVE  count' = count
  BY <1>7 DEF Cancel, CancelTurn, CancelFollow, CancelSend, DeliverWake, WakeCheck, WakeInsert,
              WakeAdopt, StartRuntime
<1>8. count.kinds \subseteq count'.kinds
  <2>1. CASE \E kinds : Trouble(kinds)
    BY <1>1, <2>1
  <2> QED
    BY <1>2, <1>3, <1>4, <1>5, <1>6, <1>7, <2>1 DEF Next
<1> QED
  BY <1>2, <1>8 DEF Faultless

\* A delivered turn that owns the conversation stays worked on.
LEMMA OwnerStep ==
    ASSUME TurnInv, Next
    PROVE  OwnerIsWorked'
<1> USE DEF TurnInv
<1> SUFFICES ASSUME Faultless', NEW k \in Key, Accepted(k)', turn'[k].mat, rt'
             PROVE  ex'.active = k /\ (ex'.req \/ ex'.phase = "cancelling" \/ ex'.pc = "settle")
  BY DEF OwnerIsWorked
<1> DEFINE Worked == ex.active = k /\ (ex.req \/ ex.phase = "cancelling" \/ ex.pc = "settle")
<1>1. Faultless /\ ~PreflightFails /\ ~MaterializeFails /\ ~SettleFails
  BY FaultsStay
<1>2. Accepted(k) /\ (turn[k].mat \/ (ex.pc = "materialize" /\ ex'.pc = "ready" /\ ex.ev.k = k))
  BY DeliveredBefore
<1>3. rt /\ turn[k].mat => Worked
  BY <1>1, <1>2 DEF OwnerIsWorked
<1>4. rt /\ turn[k].mat =>
        \/ ex.pc \notin {"preflight", "materialize"} /\ ex.phase \notin {"idle", "error"}
        \/ ex.pc = "settle"
  BY <1>3 DEF ExecutorFits, Busy
<1>5. CASE Aside
  <2>1. ex' = ex /\ rt
    BY <1>5, AsideFacts, ZenonT(60)
  <2> QED
    BY <1>2, <1>3, <2>1
<1>6. CASE TakeTurn
  <2>1. rt /\ ex.pc = "ready"
    BY <1>6, Loaded DEF TakeTurn
  <2>2. ex' = ex
    BY <1>2, <1>4, <1>6, <2>1 DEF TakeTurn
  <2> QED
    BY <1>2, <1>3, <2>1, <2>2
<1>7. CASE Preflight
  <2>1. rt /\ ex.pc = "preflight"
    BY <1>7, Loaded DEF Preflight
  <2> QED
    BY <1>2, <1>4, <2>1
<1>8. CASE Materialize
  <2>1. rt /\ ex.pc = "materialize"
    BY <1>8, Loaded DEF Materialize
  <2>2. ~turn[k].mat /\ ex.ev.k = k
    BY <1>2, <1>4, <2>1
  <2>3. ex' = [ex EXCEPT !.active = k, !.req = TRUE, !.prev = "idle", !.pc = "ready", !.ev = NoEvent]
    BY <1>8, <2>2 DEF Materialize
  <2> QED
    BY <2>3 DEF TypeOK, ExRec
<1>9. CASE TakeCancel
  <2> DEFINE x == [ex EXCEPT !.cancelling = @ \/ ex.active # NoKey]
  <2>1. rt /\ ex.pc = "ready" /\ turn[k].mat
    BY <1>2, <1>9, Loaded DEF TakeCancel
  <2>2. x \in ExRec /\ x.active = k
    BY <1>3, <2>1, ZenonT(60) DEF TypeOK, ExRec
  <2>3. CASE ex' = ToRest(x, "idle")
    <3> HIDE DEF x
    <3> QED
      BY <2>2, <2>3, ToRestFacts, ZenonT(60)
  <2>4. CASE ex' = [x EXCEPT !.phase = "cancelling"]
    <3> HIDE DEF x
    <3> QED
      BY <2>2, <2>4 DEF ExRec
  <2>5. CASE ex' = ex
    BY <1>3, <2>1, <2>5
  <2> QED
    BY <1>9, <2>3, <2>4, <2>5 DEF TakeCancel
<1>10. CASE TakeWake
  <2>1. rt /\ ex.pc = "ready" /\ turn[k].mat
    BY <1>2, <1>10, Loaded DEF TakeWake
  <2>2. ex' = ex
    BY <1>4, <1>10, <2>1 DEF TakeWake
  <2> QED
    BY <1>3, <2>1, <2>2
<1>11. CASE ToolsRequested \/ ToolsDone
  <2>1. rt /\ ex.pc = "ready" /\ ex.req /\ turn[k].mat
    BY <1>2, <1>11, Loaded, ZenonT(60) DEF ToolsRequested, ToolsDone
  <2>2. ex'.active = ex.active /\ ex'.req = ex.req
    BY <1>11, ZenonT(60) DEF ToolsRequested, ToolsDone, TypeOK, ExRec
  <2> QED
    BY <1>3, <2>1, <2>2
<1>12. CASE ToolsCancelled \/ Answered
  <2>1. rt /\ ex.pc = "ready" /\ turn[k].mat
    BY <1>2, <1>12, Loaded, ZenonT(60) DEF ToolsCancelled, Answered
  <2>2. ex' = ToRest(ex, "idle") \/ ex' = ToRest(ex, "error")
    BY <1>12, ZenonT(60) DEF ToolsCancelled, Answered
  <2>3. ex'.active = ex.active /\ ex'.pc = "settle"
    <3>1. CASE ex' = ToRest(ex, "idle")
      BY <3>1, ToRestFacts, ZenonT(60) DEF TypeOK
    <3>2. CASE ex' = ToRest(ex, "error")
      BY <3>2, ToRestFacts, ZenonT(60) DEF TypeOK
    <3> QED
      BY <2>2, <3>1, <3>2
  <2> QED
    BY <1>3, <2>1, <2>3
<1>13. CASE Settle
  <2>1. rt /\ ex.pc = "settle" /\ turn[k].mat
    BY <1>2, <1>13, Loaded DEF Settle
  <2>2. ex.active = k /\ k # NoKey /\ ex.pend \in Terminal
    BY <1>3, <2>1, Sorts DEF ExecutorFits
  <2>3. turn' = [turn EXCEPT ![k] = Terminated(@, ex.pend)]
    BY <1>2, <1>13, <2>2 DEF Settle, Accepted, Terminal
  <2>4. turn'[k].life = ex.pend
    BY <2>2, <2>3, EndTurn, ZenonT(60)
  <2> QED
    BY <2>2, <2>4 DEF Accepted, Terminal
<1>14. CASE StartRuntime
  <2> DEFINE p == IF tail = "cont" THEN "llm" ELSE "idle"
             ended == k # NoKey /\ turn[k].mat /\ p = "idle"
  <2>1. "idle" \in Phase /\ "llm" \in Phase /\ NoKey \in Key \cup {NoKey} /\ k \in Key \cup {NoKey}
    BY DEF Phase
  <2>2. ex = Resting("idle", NoKey)
    BY <1>14 DEF StartRuntime, ExecutorFits
  <2>3. turn[k].mat /\ Owner = k /\ k # NoKey
    BY <1>2, <2>1, <2>2, RestingFacts, OwnerFacts, Sorts, ZenonT(60)
  <2>4. CASE p = "idle"
    <3>1. turn' = [turn EXCEPT ![k] = Terminated(@, "completed")]
      BY <1>14, <2>3, <2>4 DEF StartRuntime
    <3>2. "completed" \in Terminal
      BY DEF Terminal
    <3>3. turn'[k].life = "completed"
      BY <3>1, <3>2, EndTurn, ZenonT(60)
    <3> QED
      BY <3>3 DEF Accepted
  <2>5. CASE p = "llm"
    <3>1. ex' = [Resting("llm", k) EXCEPT !.req = TRUE]
      BY <1>14, <2>3, <2>5, ZenonT(60) DEF StartRuntime
    <3> QED
      BY <2>1, <3>1, ResumedFacts, ZenonT(90)
  <2> QED
    BY <2>4, <2>5
<1>15. CASE Restart
  BY <1>15 DEF Restart
<1> QED
  BY <1>1, <1>5, <1>6, <1>7, <1>8, <1>9, <1>10, <1>11, <1>12, <1>13, <1>14, <1>15
     DEF Next, Execute, Aside

-----------------------------------------------------------------------------
(* The theorems. *)

\* The invariant holds at first.
LEMMA InitInv == Init => TurnInv
<1> SUFFICES ASSUME Init
             PROVE  TurnInv
  OBVIOUS
<1>1. "idle" \in Phase /\ NoKey \in Key \cup {NoKey}
  BY DEF Phase
<1>2. ex \in ExRec /\ ex.phase = "idle" /\ ex.req = FALSE /\ ex.pc = "ready"
  BY <1>1, RestingFacts, ZenonT(60) DEF Init
<1>3. Absent \in TurnRec /\ Absent.life = "absent" /\ Absent.effect = "none" /\ Absent.lease = FALSE
  BY Sorts DEF Absent, TurnRec
<1>4. NoWork \in WorkRec /\ NoWork.pc = "scan"
  BY Sorts DEF NoWork, WorkRec
<1>5. count \in CountRec
  BY BoundsAssumption DEF Init, CountRec
<1>6. TypeOK
  <2>1. turn \in [Key -> TurnRec] /\ snd \in [Key -> {"new", "checked", "done"}]
    BY <1>3 DEF Init
  <2>2. chan \in Seq(Event)
    BY DEF Init
  <2>3. watch \in Phase /\ wk \in WorkRec
    BY <1>1, <1>4 DEF Init
  <2> QED
    BY <1>2, <1>5, <2>1, <2>2, <2>3, ZenonT(60) DEF Init, TypeOK
<1>7. OneOwner /\ OwnerIsWorked
  BY <1>3 DEF Init, OneOwner, OwnerIsWorked, Accepted
<1>8. ExecutorFits
  BY <1>2 DEF Init, ExecutorFits
<1>9. TurnFits
  BY <1>3, <1>4 DEF Init, TurnFits
<1> QED
  BY <1>6, <1>7, <1>8, <1>9 DEF TurnInv

\* Every step keeps the invariant.
LEMMA NextInv == TurnInv /\ [Next]_vars => TurnInv'
<1> SUFFICES ASSUME TurnInv, [Next]_vars
             PROVE  TurnInv'
  OBVIOUS
<1>1. CASE Next
  BY <1>1, TypeStep, OneOwnerStep, ExecutorStep, TurnFitsStep, OwnerStep DEF TurnInv
<1>2. CASE UNCHANGED vars
  <2>1. TypeOK' /\ OneOwner' /\ TurnFits'
    BY <1>2 DEF vars, TurnInv, TypeOK, OneOwner, TurnFits, Accepted
  <2>2. ExecutorFits' /\ OwnerIsWorked'
    BY <1>2 DEF vars, TurnInv, ExecutorFits, OwnerIsWorked, Faultless, Accepted
  <2> QED
    BY <2>1, <2>2 DEF TurnInv
<1> QED
  BY <1>1, <1>2

\* The invariant holds always.
LEMMA AlwaysInv == Spec => []TurnInv
  BY InitInv, NextInv, PTL DEF Spec

\* The types and the uniqueness of the owner.
THEOREM TypeCorrect == Spec => [](TypeOK /\ OneOwner)
<1>1. TurnInv => TypeOK /\ OneOwner
  BY DEF TurnInv
<1> QED
  BY <1>1, AlwaysInv, PTL

\* A delivered turn that owns the conversation is the executor's, and is being worked on,
\* cancelled or settled, through every order of claims, cancellations, wakes and restarts.
THEOREM OwnersAreWorked == Spec => []OwnerIsWorked
<1>1. TurnInv => OwnerIsWorked
  BY DEF TurnInv
<1> QED
  BY <1>1, AlwaysInv, PTL

\* No resting state is published while a delivered turn still owns the conversation
\* (persist_state_effect publishes after the transaction).
THEOREM RestAfterRelease == Spec => []RestIsReleased
<1>1. TurnInv => RestIsReleased
  <2> SUFFICES ASSUME TurnInv, Faultless, NEW k \in Key, Accepted(k), turn[k].mat, rt
               PROVE  watch \in Busy
    BY DEF RestIsReleased
  <2>1. ex.active = k /\ (ex.req \/ ex.phase = "cancelling" \/ ex.pc = "settle") /\ k # NoKey
    BY Sorts DEF TurnInv, OwnerIsWorked
  <2> QED
    BY <2>1 DEF TurnInv, ExecutorFits, Busy
<1> QED
  BY <1>1, AlwaysInv, PTL

\* A turn that has ended never changes again (terminate's replay answers).
THEOREM EndIsFinal == Spec => NothingAfterTheEnd
<1>1. TurnInv /\ [Next]_vars => [\A k \in Key : turn[k].life \in Terminal => turn'[k] = turn[k]]_vars
  BY EndedStep DEF vars
<1> QED
  BY <1>1, AlwaysInv, PTL DEF Spec, NothingAfterTheEnd

=============================================================================
