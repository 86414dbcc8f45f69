-------------------------- MODULE BashScopeProofs ---------------------------
(***************************************************************************)
(* Proofs about BashScope, for every number of conversations, run calls    *)
(* and wait or kill calls.  There is one lemma for each conjunct of the    *)
(* inductive invariant ScopeInv, with one step for each action that can    *)
(* disturb the conjunct.                                                   *)
(***************************************************************************)
EXTENDS BashScope, TLAPS

USE SMTT(60), ZenonT(60)

\* A step of a lifecycle request, or the end of a sub-agent.
RequestStep(c) == Begin(c) \/ CleanupStep(c) \/ CutShort(c) \/ SubAgentEnds(c)

\* A run call touches neither the owners nor the answers of the handles, and no
\* wait or kill call (reserve_spawn, commit_spawn).
LEMMA RunFrame ==
    ASSUME NEW r \in Run, RunStep(r)
    PROVE  UNCHANGED <<owns, closed, gen, attempt, recorded, exit, call, cleanups, faults>>
<1>1. CASE \E c \in Conv : Reserve(r, c)
  BY <1>1 DEF Reserve, admission, handles, processes, bounds
<1>2. CASE Spawn(r)
  BY <1>2 DEF Spawn, admission, handles, processes, bounds
<1>3. CASE SpawnFails(r)
  BY <1>3 DEF SpawnFails, admission, handles, processes, bounds
<1>4. CASE Commit(r)
  BY <1>4 DEF Commit, admission, handles, processes, bounds
<1>5. CASE SpawnDropped(r)
  BY <1>5 DEF SpawnDropped, admission, handles, processes, bounds
<1> QED
  BY <1>1, <1>2, <1>3, <1>4, <1>5 DEF RunStep

\* A process and its waiter touch no admission, table or request (run_waiter).
LEMMA ProcessFrame ==
    ASSUME NEW r \in Run, ProcessStep(r)
    PROVE  UNCHANGED <<owns, closed, gen, pending, table, index, run, attempt, call, op,
                       cleanups, faults>>
<1>1. CASE Exits(r)
  BY <1>1 DEF Exits, admission, handles, processes, bounds
<1>2. CASE Reap(r)
  BY <1>2 DEF Reap, admission, handles, processes, bounds
<1>3. CASE Demote(r)
  BY <1>3 DEF Demote, admission, handles, processes, bounds
<1>4. CASE PublishExit(r)
  BY <1>4 DEF PublishExit, admission, handles, processes, bounds
<1>5. CASE WaiterPanics(r)
  BY <1>5 DEF WaiterPanics, admission, handles, processes, bounds
<1> QED
  BY <1>1, <1>2, <1>3, <1>4, <1>5 DEF ProcessStep

\* A wait or kill call touches no admission, table or request (run_wait, run_kill).
LEMMA CallFrame ==
    ASSUME NEW x \in Call, CallStep(x)
    PROVE  UNCHANGED <<owns, closed, gen, pending, table, index, run, state, recorded,
                       waiter, exit, op, cleanups, faults>>
<1>1. CASE \E c \in Conv, h \in Run, kind \in {"wait", "kill"} : Lookup(x, c, h, kind)
  BY <1>1 DEF Lookup, admission, handles, processes, bounds
<1>2. CASE Signal(x)
  BY <1>2 DEF Signal, admission, handles, processes, bounds
<1>3. CASE Observe(x)
  BY <1>3 DEF Observe, admission, handles, processes, bounds
<1>4. CASE CallWakes(x)
  BY <1>4 DEF CallWakes, admission, handles, processes, bounds
<1>5. CASE CallTimesOut(x)
  BY <1>5 DEF CallTimesOut, admission, handles, processes, bounds
<1>6. CASE CallCancelled(x)
  BY <1>6 DEF CallCancelled, admission, handles, processes, bounds
<1> QED
  BY <1>1, <1>2, <1>3, <1>4, <1>5, <1>6 DEF CallStep

\* A lifecycle request touches no reservation, run call or waiter
\* (run_resource_cleanup_cascade).
LEMMA CleanupFrame ==
    ASSUME NEW c \in Conv, RequestStep(c)
    PROVE  UNCHANGED <<pending, run, state, attempt, recorded, waiter, exit, call>>
<1>1. CASE Begin(c)
  BY <1>1 DEF Begin, admission, handles, processes, bounds
<1>2. CASE RemovePrivate(c)
  BY <1>2 DEF RemovePrivate, admission, handles, processes, bounds
<1>3. CASE BeginTeardown(c)
  BY <1>3 DEF BeginTeardown, admission, handles, processes, bounds
<1>4. CASE Fence(c)
  BY <1>4 DEF Fence, admission, handles, processes, bounds
<1>5. CASE Drain(c)
  BY <1>5 DEF Drain, admission, handles, processes, bounds
<1>6. CASE Unindex(c)
  BY <1>6 DEF Unindex, admission, handles, processes, bounds
<1>7. CASE KillRemoved(c)
  BY <1>7 DEF KillRemoved, admission, handles, processes, bounds
<1>8. CASE Cleaned(c)
  BY <1>8 DEF Cleaned, admission, handles, processes, bounds
<1>9. CASE Mutate(c)
  BY <1>9 DEF Mutate, admission, handles, processes, bounds
<1>10. CASE MutateFails(c)
  BY <1>10 DEF MutateFails, admission, handles, processes, bounds
<1>11. CASE Reopen(c)
  BY <1>11 DEF Reopen, admission, handles, processes, bounds
<1>12. CASE CutShort(c)
  BY <1>12 DEF CutShort, admission, handles, processes, bounds
<1>13. CASE SubAgentEnds(c)
  BY <1>13 DEF SubAgentEnds, admission, handles, processes, bounds
<1> QED
  BY <1>1, <1>2, <1>3, <1>4, <1>5, <1>6, <1>7, <1>8, <1>9, <1>10, <1>11, <1>12,
         <1>13 DEF RequestStep, CleanupStep

\* Every step keeps a teardown with the last owner, if there is one
\* (scope_still_owned_after_delete).
LEMMA DecisionHoldsStep ==
    ASSUME ScopeInv, Next
    PROVE  DecisionHolds'
<1> USE DEF ScopeInv
<1>0. /\ owns \subseteq Conv /\ op \in [Conv -> OpRec]
      /\ gen \in Nat /\ faults \in Nat /\ closed \in BOOLEAN
  BY DEF TypeOK
<1>1. ASSUME NEW r \in Run, SpawnFails(r)
      PROVE  DecisionHolds'
  BY <1>1, <1>0 DEF SpawnFails, admission, Settle, DecisionHolds, OpRec, NoOp
<1>2. ASSUME NEW r \in Run, Commit(r)
      PROVE  DecisionHolds'
  BY <1>2, <1>0 DEF Commit, admission, Settle, DecisionHolds, OpRec, NoOp
<1>3. ASSUME NEW r \in Run, SpawnDropped(r)
      PROVE  DecisionHolds'
  BY <1>3, <1>0 DEF SpawnDropped, admission, Settle, DecisionHolds, OpRec, NoOp
<1>4. ASSUME NEW c \in Conv, Begin(c)
      PROVE  DecisionHolds'
  BY <1>4, <1>0 DEF Begin, admission, Step, StillOwned, DecisionHolds, OpRec, NoOp
<1>5. ASSUME NEW c \in Conv, RemovePrivate(c)
      PROVE  DecisionHolds'
  BY <1>5, <1>0 DEF RemovePrivate, admission, DecisionHolds, OpRec, NoOp
<1>6. ASSUME NEW c \in Conv, BeginTeardown(c)
      PROVE  DecisionHolds'
  BY <1>6, <1>0 DEF BeginTeardown, admission, DecisionHolds, OpRec, NoOp
<1>7. ASSUME NEW c \in Conv, Fence(c)
      PROVE  DecisionHolds'
  BY <1>7, <1>0 DEF Fence, admission, Step, DecisionHolds, OpRec, NoOp
<1>8. ASSUME NEW c \in Conv, Drain(c)
      PROVE  DecisionHolds'
  BY <1>8, <1>0 DEF Drain, admission, DecisionHolds, OpRec, NoOp
<1>9. ASSUME NEW c \in Conv, Unindex(c)
      PROVE  DecisionHolds'
  BY <1>9, <1>0 DEF Unindex, admission, Step, DecisionHolds, OpRec, NoOp
<1>10. ASSUME NEW c \in Conv, KillRemoved(c)
      PROVE  DecisionHolds'
  BY <1>10, <1>0 DEF KillRemoved, admission, DecisionHolds, OpRec, NoOp
<1>11. ASSUME NEW c \in Conv, Cleaned(c)
      PROVE  DecisionHolds'
  BY <1>11, <1>0 DEF Cleaned, admission, Step, DecisionHolds, OpRec, NoOp
<1>12. ASSUME NEW c \in Conv, Mutate(c)
      PROVE  DecisionHolds'
  BY <1>12, <1>0 DEF Mutate, admission, DecisionHolds, OpRec, NoOp
<1>13. ASSUME NEW c \in Conv, MutateFails(c)
      PROVE  DecisionHolds'
  BY <1>13, <1>0 DEF MutateFails, admission, Step, DecisionHolds, OpRec, NoOp
<1>14. ASSUME NEW c \in Conv, Reopen(c)
      PROVE  DecisionHolds'
  BY <1>14, <1>0 DEF Reopen, admission, DecisionHolds, OpRec, NoOp
<1>15. ASSUME NEW c \in Conv, CutShort(c)
      PROVE  DecisionHolds'
  BY <1>15, <1>0 DEF CutShort, admission, DecisionHolds, OpRec, NoOp
<1>16. ASSUME NEW c \in Conv, SubAgentEnds(c)
      PROVE  DecisionHolds'
  BY <1>16, <1>0 DEF SubAgentEnds, admission, DecisionHolds, OpRec, NoOp
<1>17. ASSUME UNCHANGED <<owns, closed, gen, op>>
      PROVE  DecisionHolds'
  BY <1>17 DEF DecisionHolds
<1>18. ASSUME NEW r \in Run, RunStep(r)
      PROVE  DecisionHolds'
  BY <1>18, <1>1, <1>2, <1>3, <1>17 DEF RunStep, Reserve, Spawn, admission,
         handles, processes, bounds
<1>19. ASSUME NEW r \in Run, ProcessStep(r)
      PROVE  DecisionHolds'
  BY <1>19, <1>17, ProcessFrame
<1>20. ASSUME NEW x \in Call, CallStep(x)
      PROVE  DecisionHolds'
  BY <1>20, <1>17, CallFrame
<1>21. ASSUME NEW c \in Conv, RequestStep(c)
      PROVE  DecisionHolds'
  BY <1>21, <1>4, <1>5, <1>6, <1>7, <1>8, <1>9, <1>10, <1>11, <1>12, <1>13, <1>14,
         <1>15, <1>16 DEF RequestStep, CleanupStep
<1> QED
  BY <1>18, <1>19, <1>20, <1>21 DEF Next, RequestStep

\* Every step leaves the closed admission of an owned scope with the request
\* that closed it (reopen_spawn_admission).
LEMMA ClosedOnlyWhileCleaningStep ==
    ASSUME ScopeInv, Next
    PROVE  ClosedOnlyWhileCleaning'
<1> USE DEF ScopeInv
<1>0. /\ owns \subseteq Conv /\ op \in [Conv -> OpRec]
      /\ gen \in Nat /\ faults \in Nat /\ closed \in BOOLEAN
  BY DEF TypeOK
<1>1. ASSUME NEW r \in Run, SpawnFails(r)
      PROVE  ClosedOnlyWhileCleaning'
  BY <1>1, <1>0 DEF SpawnFails, admission, bounds, Settle, ClosedOnlyWhileCleaning,
         DecisionHolds, OpRec, NoOp
<1>2. ASSUME NEW r \in Run, Commit(r)
      PROVE  ClosedOnlyWhileCleaning'
  BY <1>2, <1>0 DEF Commit, admission, bounds, Settle, ClosedOnlyWhileCleaning,
         DecisionHolds, OpRec, NoOp
<1>3. ASSUME NEW r \in Run, SpawnDropped(r)
      PROVE  ClosedOnlyWhileCleaning'
  BY <1>3, <1>0 DEF SpawnDropped, admission, bounds, Settle, ClosedOnlyWhileCleaning,
         DecisionHolds, OpRec, NoOp
<1>4. ASSUME NEW c \in Conv, Begin(c)
      PROVE  ClosedOnlyWhileCleaning'
  BY <1>4, <1>0 DEF Begin, admission, bounds, Step, StillOwned,
         ClosedOnlyWhileCleaning, DecisionHolds, OpRec, NoOp
<1>5. ASSUME NEW c \in Conv, RemovePrivate(c)
      PROVE  ClosedOnlyWhileCleaning'
  BY <1>5, <1>0 DEF RemovePrivate, admission, bounds, ClosedOnlyWhileCleaning,
         DecisionHolds, OpRec, NoOp
<1>6. ASSUME NEW c \in Conv, BeginTeardown(c)
      PROVE  ClosedOnlyWhileCleaning'
  BY <1>6, <1>0 DEF BeginTeardown, admission, bounds, ClosedOnlyWhileCleaning,
         DecisionHolds, OpRec, NoOp
<1>7. ASSUME NEW c \in Conv, Fence(c)
      PROVE  ClosedOnlyWhileCleaning'
  BY <1>7, <1>0 DEF Fence, admission, bounds, Step, ClosedOnlyWhileCleaning,
         DecisionHolds, OpRec, NoOp
<1>8. ASSUME NEW c \in Conv, Drain(c)
      PROVE  ClosedOnlyWhileCleaning'
  BY <1>8, <1>0 DEF Drain, admission, bounds, ClosedOnlyWhileCleaning, DecisionHolds,
         OpRec, NoOp
<1>9. ASSUME NEW c \in Conv, Unindex(c)
      PROVE  ClosedOnlyWhileCleaning'
  BY <1>9, <1>0 DEF Unindex, admission, bounds, Step, ClosedOnlyWhileCleaning,
         DecisionHolds, OpRec, NoOp
<1>10. ASSUME NEW c \in Conv, KillRemoved(c)
      PROVE  ClosedOnlyWhileCleaning'
  BY <1>10, <1>0 DEF KillRemoved, admission, bounds, ClosedOnlyWhileCleaning,
         DecisionHolds, OpRec, NoOp
<1>11. ASSUME NEW c \in Conv, Cleaned(c)
      PROVE  ClosedOnlyWhileCleaning'
  BY <1>11, <1>0 DEF Cleaned, admission, bounds, Step, ClosedOnlyWhileCleaning,
         DecisionHolds, OpRec, NoOp
<1>12. ASSUME NEW c \in Conv, Mutate(c)
      PROVE  ClosedOnlyWhileCleaning'
  BY <1>12, <1>0 DEF Mutate, admission, bounds, ClosedOnlyWhileCleaning, DecisionHolds,
         OpRec, NoOp
<1>13. ASSUME NEW c \in Conv, MutateFails(c)
      PROVE  ClosedOnlyWhileCleaning'
  BY <1>13, <1>0 DEF MutateFails, admission, bounds, Step, ClosedOnlyWhileCleaning,
         DecisionHolds, OpRec, NoOp
<1>14. ASSUME NEW c \in Conv, Reopen(c)
      PROVE  ClosedOnlyWhileCleaning'
  <2> SUFFICES ASSUME faults' = 0, closed', owns' # {}
               PROVE  \E d \in Conv : op'[d].pc # "idle" /\ op'[d].gen = gen'
    BY DEF ClosedOnlyWhileCleaning
  <2>1. faults = 0 /\ closed /\ owns' = owns /\ gen' = gen
    BY <1>14, <1>0 DEF Reopen, bounds
  <2>2. PICK d \in Conv : op[d].pc # "idle" /\ op[d].gen = gen
    BY <2>1 DEF ClosedOnlyWhileCleaning
  <2>3. gen > 0 /\ owns = {d}
    BY <2>1, <2>2 DEF DecisionHolds
  <2>4. d # c
    BY ZenonT(60), <1>14, <2>1, <2>2, <2>3, <1>0 DEF Reopen
  <2>5. op'[d] = op[d]
    BY <1>14, <2>4, <1>0 DEF Reopen
  <2> QED
    BY <2>1, <2>2, <2>5
<1>15. ASSUME NEW c \in Conv, CutShort(c)
      PROVE  ClosedOnlyWhileCleaning'
  BY <1>15, <1>0 DEF CutShort, admission, bounds, ClosedOnlyWhileCleaning,
         DecisionHolds, OpRec, NoOp
<1>16. ASSUME NEW c \in Conv, SubAgentEnds(c)
      PROVE  ClosedOnlyWhileCleaning'
  BY <1>16, <1>0 DEF SubAgentEnds, admission, bounds, ClosedOnlyWhileCleaning,
         DecisionHolds, OpRec, NoOp
<1>17. ASSUME UNCHANGED <<faults, owns, closed, gen, op>>
      PROVE  ClosedOnlyWhileCleaning'
  BY <1>17 DEF ClosedOnlyWhileCleaning
<1>18. ASSUME NEW r \in Run, RunStep(r)
      PROVE  ClosedOnlyWhileCleaning'
  BY <1>18, <1>1, <1>2, <1>3, <1>17 DEF RunStep, Reserve, Spawn, admission,
         handles, processes, bounds
<1>19. ASSUME NEW r \in Run, ProcessStep(r)
      PROVE  ClosedOnlyWhileCleaning'
  BY <1>19, <1>17, ProcessFrame
<1>20. ASSUME NEW x \in Call, CallStep(x)
      PROVE  ClosedOnlyWhileCleaning'
  BY <1>20, <1>17, CallFrame
<1>21. ASSUME NEW c \in Conv, RequestStep(c)
      PROVE  ClosedOnlyWhileCleaning'
  BY <1>21, <1>4, <1>5, <1>6, <1>7, <1>8, <1>9, <1>10, <1>11, <1>12, <1>13, <1>14,
         <1>15, <1>16 DEF RequestStep, CleanupStep
<1> QED
  BY <1>18, <1>19, <1>20, <1>21 DEF Next, RequestStep

\* A step takes from the table only handles that are private to a conversation, or
\* handles of a scope whose owners are all being cleaned up.
HandlesKept ==
    \A r \in table \ table' : MadeRestricted(r) \/ \A c \in owns : op[c].pc # "idle"

\* No step takes a shared handle from a conversation that still owns the scope
\* (drain_private_for_creator, drain_all).
LEMMA HandlesKeptStep ==
    ASSUME ScopeInv, Next
    PROVE  HandlesKept
<1>1. ASSUME NEW c \in Conv, RemovePrivate(c)
      PROVE  HandlesKept
  BY ZenonT(60), <1>1 DEF RemovePrivate, MadeRestricted, HandlesKept
<1>2. ASSUME NEW c \in Conv, Drain(c)
      PROVE  HandlesKept
  BY <1>2 DEF Drain, ScopeInv, DecisionHolds, HandlesKept
<1>3. ASSUME table \subseteq table'
      PROVE  HandlesKept
  BY <1>3 DEF HandlesKept
<1>4. ASSUME NEW r \in Run, RunStep(r)
      PROVE  table \subseteq table'
  BY <1>4 DEF RunStep, Reserve, Spawn, SpawnFails, Commit, SpawnDropped, handles
<1>5. ASSUME NEW r \in Run, ProcessStep(r)
      PROVE  table \subseteq table'
  BY <1>5, ProcessFrame
<1>6. ASSUME NEW x \in Call, CallStep(x)
      PROVE  table \subseteq table'
  BY <1>6, CallFrame
<1>7. ASSUME NEW c \in Conv, RequestStep(c)
      PROVE  HandlesKept
  BY <1>1, <1>2, <1>3, <1>7 DEF RequestStep, CleanupStep, Begin, BeginTeardown, Fence,
         Unindex, KillRemoved, Cleaned, Mutate, MutateFails, Reopen, CutShort,
         SubAgentEnds, handles
<1> QED
  BY ZenonT(60), <1>3, <1>4, <1>5, <1>6, <1>7 DEF Next, RequestStep

\* Settling a reservation keeps the types of what it changes
\* (SpawnReservation::settle).
LEMMA SettleTypes ==
    ASSUME TypeOK, NEW r \in Run, Settle(r)
    PROVE  pending' \subseteq Run /\ op' \in [Conv -> OpRec]
<1>1. ASSUME NEW c \in Conv
      PROVE  (IF op[c].pc = "parked" THEN [op[c] EXCEPT !.pc = "fence"] ELSE op[c]) \in OpRec
  <2>1. op[c] \in OpRec
    BY DEF TypeOK
  <2> QED
    BY <2>1 DEF OpRec
<1> QED
  BY <1>1 DEF Settle, TypeOK

\* Every step keeps the types.
LEMMA TypeOKStep ==
    ASSUME ScopeInv, Next
    PROVE  TypeOK'
<1> USE DEF ScopeInv
<1>1. ASSUME NEW r \in Run, NEW c \in Conv, Reserve(r, c)
      PROVE  TypeOK'
  BY <1>1 DEF Reserve, admission, handles, processes, bounds, NoRun, TypeOK, RunRec
<1>2. ASSUME NEW r \in Run, Spawn(r)
      PROVE  TypeOK'
  BY <1>2 DEF Spawn, admission, handles, processes, bounds, Goto, TypeOK, RunRec
<1>3. ASSUME NEW r \in Run, SpawnFails(r)
      PROVE  TypeOK'
  BY <1>3, SettleTypes DEF SpawnFails, admission, handles, processes, bounds, Goto, TypeOK, RunRec
<1>4. ASSUME NEW r \in Run, Commit(r)
      PROVE  TypeOK'
  BY <1>4, SettleTypes DEF Commit, admission, handles, processes, bounds, Goto, TypeOK, RunRec
<1>5. ASSUME NEW r \in Run, SpawnDropped(r)
      PROVE  TypeOK'
  BY <1>5, SettleTypes DEF SpawnDropped, admission, handles, processes, bounds, Goto, TypeOK, RunRec
<1>6. ASSUME NEW r \in Run, Exits(r)
      PROVE  TypeOK'
  BY <1>6 DEF Exits, admission, handles, processes, bounds, TypeOK
<1>7. ASSUME NEW r \in Run, Reap(r)
      PROVE  TypeOK'
  BY <1>7 DEF Reap, admission, handles, processes, bounds, TypeOK
<1>8. ASSUME NEW r \in Run, Demote(r)
      PROVE  TypeOK'
  BY <1>8 DEF Demote, admission, handles, processes, bounds, TypeOK
<1>9. ASSUME NEW r \in Run, PublishExit(r)
      PROVE  TypeOK'
  BY <1>9 DEF PublishExit, admission, handles, processes, bounds, TypeOK
<1>10. ASSUME NEW r \in Run, WaiterPanics(r)
      PROVE  TypeOK'
  BY <1>10 DEF WaiterPanics, admission, handles, processes, bounds, TypeOK
<1>11. ASSUME NEW x \in Call, NEW c \in Conv, NEW h \in Run,
             NEW kind \in {"wait", "kill"}, Lookup(x, c, h, kind)
      PROVE  TypeOK'
  BY ZenonT(60), <1>11 DEF Lookup, admission, handles, processes, bounds, Put, NoCall, DoneCall,
         TypeOK, CallRec
<1>12. ASSUME NEW x \in Call, Signal(x)
      PROVE  TypeOK'
  BY <1>12 DEF Signal, admission, handles, processes, bounds, Put, TypeOK, CallRec
<1>13. ASSUME NEW x \in Call, Observe(x)
      PROVE  TypeOK'
  BY <1>13 DEF Observe, admission, handles, processes, bounds, Put, TypeOK, CallRec
<1>14. ASSUME NEW x \in Call, CallWakes(x)
      PROVE  TypeOK'
  BY ZenonT(60), <1>14 DEF CallWakes, admission, handles, processes, bounds, Put, DoneCall, NoCall,
         Observing, TypeOK, CallRec
<1>15. ASSUME NEW x \in Call, CallTimesOut(x)
      PROVE  TypeOK'
  <2>1. call[x].h \in Run
    BY ZenonT(60), <1>15 DEF CallTimesOut, Observing, CallsHaveHandles
  <2>2. attempt' \subseteq Run
    BY <1>15, <2>1 DEF CallTimesOut, MarkKillPending, TypeOK
  <2>3. call' \in [Call -> CallRec]
    BY ZenonT(60), <1>15 DEF CallTimesOut, Put, DoneCall, NoCall, TypeOK, CallRec
  <2> QED
    BY <1>15, <2>2, <2>3 DEF CallTimesOut, admission, handles, bounds, TypeOK
<1>16. ASSUME NEW x \in Call, CallCancelled(x)
      PROVE  TypeOK'
  BY ZenonT(60), <1>16 DEF CallCancelled, admission, handles, processes, bounds, Put, DoneCall,
         NoCall, Observing, TypeOK, CallRec
<1>17. ASSUME NEW c \in Conv, Begin(c)
      PROVE  TypeOK'
  BY <1>17 DEF Begin, admission, handles, processes, bounds, Step, TypeOK, OpRec, NoOp
<1>18. ASSUME NEW c \in Conv, RemovePrivate(c)
      PROVE  TypeOK'
  BY <1>18 DEF RemovePrivate, admission, handles, processes, bounds, TypeOK, OpRec, NoOp
<1>19. ASSUME NEW c \in Conv, BeginTeardown(c)
      PROVE  TypeOK'
  BY <1>19 DEF BeginTeardown, admission, handles, processes, bounds, TypeOK, OpRec, NoOp
<1>20. ASSUME NEW c \in Conv, Fence(c)
      PROVE  TypeOK'
  BY <1>20 DEF Fence, admission, handles, processes, bounds, Step, TypeOK, OpRec, NoOp
<1>21. ASSUME NEW c \in Conv, Drain(c)
      PROVE  TypeOK'
  BY <1>21 DEF Drain, admission, handles, processes, bounds, TypeOK, OpRec, NoOp
<1>22. ASSUME NEW c \in Conv, Unindex(c)
      PROVE  TypeOK'
  BY <1>22 DEF Unindex, admission, handles, processes, bounds, Step, TypeOK, OpRec, NoOp
<1>23. ASSUME NEW c \in Conv, KillRemoved(c)
      PROVE  TypeOK'
  BY <1>23 DEF KillRemoved, admission, handles, processes, bounds, TypeOK, OpRec, NoOp
<1>24. ASSUME NEW c \in Conv, Cleaned(c)
      PROVE  TypeOK'
  BY <1>24 DEF Cleaned, admission, handles, processes, bounds, Step, TypeOK, OpRec, NoOp
<1>25. ASSUME NEW c \in Conv, Mutate(c)
      PROVE  TypeOK'
  BY <1>25 DEF Mutate, admission, handles, processes, bounds, NoOp, TypeOK, OpRec
<1>26. ASSUME NEW c \in Conv, MutateFails(c)
      PROVE  TypeOK'
  <2>1. op' \in [Conv -> OpRec]
    BY <1>26 DEF MutateFails, Step, TypeOK, OpRec
  <2> QED
    BY <1>26, <2>1 DEF MutateFails, admission, handles, processes, bounds, TypeOK
<1>27. ASSUME NEW c \in Conv, Reopen(c)
      PROVE  TypeOK'
  BY <1>27 DEF Reopen, admission, handles, processes, bounds, NoOp, TypeOK, OpRec
<1>28. ASSUME NEW c \in Conv, CutShort(c)
      PROVE  TypeOK'
  BY <1>28 DEF CutShort, admission, handles, processes, bounds, NoOp, TypeOK, OpRec
<1>29. ASSUME NEW c \in Conv, SubAgentEnds(c)
      PROVE  TypeOK'
  BY <1>29 DEF SubAgentEnds, admission, handles, processes, bounds, TypeOK
<1>30. ASSUME NEW r \in Run, RunStep(r)
      PROVE  TypeOK'
  BY <1>30, <1>1, <1>2, <1>3, <1>4, <1>5 DEF RunStep
<1>31. ASSUME NEW r \in Run, ProcessStep(r)
      PROVE  TypeOK'
  BY <1>31, <1>6, <1>7, <1>8, <1>9, <1>10 DEF ProcessStep
<1>32. ASSUME NEW x \in Call, CallStep(x)
      PROVE  TypeOK'
  BY <1>32, <1>11, <1>12, <1>13, <1>14, <1>15, <1>16 DEF CallStep
<1>33. ASSUME NEW c \in Conv, RequestStep(c)
      PROVE  TypeOK'
  BY <1>33, <1>17, <1>18, <1>19, <1>20, <1>21, <1>22, <1>23, <1>24, <1>25, <1>26,
         <1>27, <1>28, <1>29 DEF RequestStep, CleanupStep
<1> QED
  BY <1>30, <1>31, <1>32, <1>33 DEF Next, RequestStep

\* Every step keeps each running process with a call about to commit it, in the
\* table, or with the cleanup that took it (commit_spawn, drain_owner).
LEMMA RunningIsHeldStep ==
    ASSUME ScopeInv, Next
    PROVE  RunningIsHeld'
<1> USE DEF ScopeInv
<1>1. ASSUME NEW r \in Run, NEW c \in Conv, Reserve(r, c)
      PROVE  RunningIsHeld'
  <2>0. run \in [Run -> RunRec]
    BY ZenonT(60) DEF TypeOK
  <2>1. /\ run[r].pc = "idle"
        /\ \A s \in Run \ {r} : run'[s] = run[s]
    BY <1>1, <2>0 DEF Reserve, NoRun
  <2> QED
    BY <1>1, <2>1 DEF Reserve, handles, processes, bounds, RunningIsHeld, HandleLife, TypeOK
<1>2. ASSUME NEW r \in Run, Spawn(r)
      PROVE  RunningIsHeld'
  BY <1>2 DEF Spawn, admission, handles, processes, bounds, Goto, RunningIsHeld,
         HandleLife, TypeOK, RunRec
<1>3. ASSUME NEW r \in Run, SpawnFails(r)
      PROVE  RunningIsHeld'
  BY <1>3 DEF SpawnFails, admission, handles, processes, bounds, Goto, Settle,
         RunningIsHeld, HandleLife, TypeOK, OpRec, NoOp, RunRec
<1>4. ASSUME NEW r \in Run, Commit(r)
      PROVE  RunningIsHeld'
  BY <1>4 DEF Commit, admission, handles, processes, bounds, Goto, Settle,
         RunningIsHeld, HandleLife, TypeOK, OpRec, NoOp, RunRec
<1>5. ASSUME NEW r \in Run, SpawnDropped(r)
      PROVE  RunningIsHeld'
  BY <1>5 DEF SpawnDropped, admission, handles, processes, bounds, Goto, Settle,
         RunningIsHeld, HandleLife, TypeOK, OpRec, NoOp, RunRec
<1>6. ASSUME NEW r \in Run, Exits(r)
      PROVE  RunningIsHeld'
  BY <1>6 DEF Exits, admission, handles, processes, bounds, RunningIsHeld, HandleLife,
         TypeOK
<1>7. ASSUME NEW r \in Run, Demote(r)
      PROVE  RunningIsHeld'
  BY <1>7 DEF Demote, admission, handles, processes, bounds, RunningIsHeld, HandleLife,
         TypeOK
<1>8. ASSUME NEW x \in Call, Signal(x)
      PROVE  RunningIsHeld'
  BY <1>8 DEF Signal, admission, handles, processes, bounds, Put, RunningIsHeld,
         HandleLife, TypeOK
<1>9. ASSUME NEW c \in Conv, Begin(c)
      PROVE  RunningIsHeld'
  BY <1>9 DEF Begin, admission, handles, processes, bounds, Step, RunningIsHeld,
         HandleLife, TypeOK, OpRec, NoOp
<1>10. ASSUME NEW c \in Conv, RemovePrivate(c)
      PROVE  RunningIsHeld'
  BY <1>10 DEF RemovePrivate, admission, handles, processes, bounds, RunningIsHeld,
         HandleLife, TypeOK, OpRec, NoOp
<1>11. ASSUME NEW c \in Conv, BeginTeardown(c)
      PROVE  RunningIsHeld'
  BY <1>11 DEF BeginTeardown, admission, handles, processes, bounds, RunningIsHeld,
         HandleLife, TypeOK, OpRec, NoOp
<1>12. ASSUME NEW c \in Conv, Fence(c)
      PROVE  RunningIsHeld'
  BY <1>12 DEF Fence, admission, handles, processes, bounds, Step, RunningIsHeld,
         HandleLife, TypeOK, OpRec, NoOp
<1>13. ASSUME NEW c \in Conv, Drain(c)
      PROVE  RunningIsHeld'
  BY <1>13 DEF Drain, admission, handles, processes, bounds, RunningIsHeld, HandleLife,
         TypeOK, OpRec, NoOp
<1>14. ASSUME NEW c \in Conv, Unindex(c)
      PROVE  RunningIsHeld'
  BY <1>14 DEF Unindex, admission, handles, processes, bounds, Step, RunningIsHeld,
         HandleLife, TypeOK, OpRec, NoOp
<1>15. ASSUME NEW c \in Conv, KillRemoved(c)
      PROVE  RunningIsHeld'
  BY <1>15 DEF KillRemoved, admission, handles, processes, bounds, RunningIsHeld,
         HandleLife, TypeOK, OpRec, NoOp
<1>16. ASSUME NEW c \in Conv, Cleaned(c)
      PROVE  RunningIsHeld'
  BY <1>16 DEF Cleaned, admission, handles, processes, bounds, Step, RunningIsHeld,
         HandleLife, TypeOK, OpRec, NoOp
<1>17. ASSUME NEW c \in Conv, Mutate(c)
      PROVE  RunningIsHeld'
  BY <1>17 DEF Mutate, admission, handles, processes, bounds, NoOp, RunningIsHeld,
         HandleLife, TypeOK, OpRec
<1>18. ASSUME NEW c \in Conv, MutateFails(c)
      PROVE  RunningIsHeld'
  BY <1>18 DEF MutateFails, admission, handles, processes, bounds, Step, RunningIsHeld,
         HandleLife, TypeOK, OpRec, NoOp
<1>19. ASSUME NEW c \in Conv, Reopen(c)
      PROVE  RunningIsHeld'
  BY <1>19 DEF Reopen, admission, handles, processes, bounds, NoOp, RunningIsHeld,
         HandleLife, TypeOK, OpRec
<1>20. ASSUME NEW c \in Conv, CutShort(c)
      PROVE  RunningIsHeld'
  BY <1>20 DEF CutShort, admission, handles, processes, bounds, NoOp, RunningIsHeld,
         HandleLife, TypeOK, OpRec
<1>21. ASSUME UNCHANGED <<faults, proc, run, state, table, op>>
      PROVE  RunningIsHeld'
  BY <1>21 DEF RunningIsHeld
<1>22. ASSUME NEW r \in Run, RunStep(r)
      PROVE  RunningIsHeld'
  BY <1>22, <1>1, <1>2, <1>3, <1>4, <1>5 DEF RunStep
<1>23. ASSUME NEW r \in Run, ProcessStep(r)
      PROVE  RunningIsHeld'
  BY <1>23, <1>6, <1>7, <1>21 DEF ProcessStep, Reap, PublishExit, WaiterPanics,
         admission, handles, processes, bounds
<1>24. ASSUME NEW x \in Call, CallStep(x)
      PROVE  RunningIsHeld'
  BY ZenonT(60), <1>24, <1>8, <1>21 DEF CallStep, Lookup, Observe, CallWakes, CallTimesOut,
         CallCancelled, admission, handles, processes, bounds
<1>25. ASSUME NEW c \in Conv, RequestStep(c)
      PROVE  RunningIsHeld'
  BY <1>25, <1>9, <1>10, <1>11, <1>12, <1>13, <1>14, <1>15, <1>16, <1>17, <1>18,
         <1>19, <1>20, <1>21 DEF RequestStep, CleanupStep, SubAgentEnds, admission,
         handles, processes, bounds
<1> QED
  BY <1>22, <1>23, <1>24, <1>25 DEF Next, RequestStep

\* Every step keeps the reservations in line with the run calls
\* (reserve_spawn, SpawnReservation::settle).
LEMMA ReservationsCountedStep ==
    ASSUME ScopeInv, Next
    PROVE  ReservationsCounted'
<1> USE DEF ScopeInv
<1>1. ASSUME NEW r \in Run, NEW c \in Conv, Reserve(r, c)
      PROVE  ReservationsCounted'
  BY <1>1 DEF Reserve, admission, handles, processes, bounds, NoRun,
         ReservationsCounted, TypeOK, RunRec
<1>2. ASSUME NEW r \in Run, Spawn(r)
      PROVE  ReservationsCounted'
  BY <1>2 DEF Spawn, admission, handles, processes, bounds, Goto, ReservationsCounted,
         TypeOK, RunRec, NoRun
<1>3. ASSUME NEW r \in Run, SpawnFails(r)
      PROVE  ReservationsCounted'
  BY <1>3 DEF SpawnFails, admission, handles, processes, bounds, Goto, Settle,
         ReservationsCounted, TypeOK, RunRec, NoRun
<1>4. ASSUME NEW r \in Run, Commit(r)
      PROVE  ReservationsCounted'
  BY <1>4 DEF Commit, admission, handles, processes, bounds, Goto, Settle,
         ReservationsCounted, TypeOK, RunRec, NoRun
<1>5. ASSUME NEW r \in Run, SpawnDropped(r)
      PROVE  ReservationsCounted'
  BY <1>5 DEF SpawnDropped, admission, handles, processes, bounds, Goto, Settle,
         ReservationsCounted, TypeOK, RunRec, NoRun
<1>6. ASSUME UNCHANGED <<run, pending>>
      PROVE  ReservationsCounted'
  BY <1>6 DEF ReservationsCounted
<1>7. ASSUME NEW r \in Run, RunStep(r)
      PROVE  ReservationsCounted'
  BY <1>7, <1>1, <1>2, <1>3, <1>4, <1>5 DEF RunStep
<1>8. ASSUME NEW r \in Run, ProcessStep(r)
      PROVE  ReservationsCounted'
  BY <1>8, <1>6, ProcessFrame
<1>9. ASSUME NEW x \in Call, CallStep(x)
      PROVE  ReservationsCounted'
  BY <1>9, <1>6, CallFrame
<1>10. ASSUME NEW c \in Conv, RequestStep(c)
      PROVE  ReservationsCounted'
  BY <1>10, <1>6, CleanupFrame
<1> QED
  BY <1>7, <1>8, <1>9, <1>10 DEF Next, RequestStep

\* Every step leaves a teardown waiting for what a closed table still holds
\* (begin_teardown).
LEMMA ClosedIsDrainedStep ==
    ASSUME ScopeInv, Next
    PROVE  ClosedIsDrained'
<1> USE DEF ScopeInv
<1>1. ASSUME NEW r \in Run, NEW c \in Conv, Reserve(r, c)
      PROVE  ClosedIsDrained'
  BY <1>1 DEF Reserve, admission, handles, processes, bounds, NoRun, ClosedIsDrained,
         TypeOK, ReservationsCounted, RunRec, Admits
<1>2. ASSUME NEW r \in Run, SpawnFails(r)
      PROVE  ClosedIsDrained'
  BY <1>2 DEF SpawnFails, admission, handles, processes, bounds, Goto, Settle,
         ClosedIsDrained, TypeOK, ReservationsCounted, OpRec, NoOp, RunRec
<1>3. ASSUME NEW r \in Run, Commit(r)
      PROVE  ClosedIsDrained'
  BY <1>3 DEF Commit, admission, handles, processes, bounds, Goto, Settle,
         ClosedIsDrained, TypeOK, ReservationsCounted, OpRec, NoOp, RunRec
<1>4. ASSUME NEW r \in Run, SpawnDropped(r)
      PROVE  ClosedIsDrained'
  BY <1>4 DEF SpawnDropped, admission, handles, processes, bounds, Goto, Settle,
         ClosedIsDrained, TypeOK, ReservationsCounted, OpRec, NoOp, RunRec
<1>5. ASSUME NEW c \in Conv, Begin(c)
      PROVE  ClosedIsDrained'
  BY <1>5 DEF Begin, admission, handles, processes, bounds, Step, ClosedIsDrained,
         TypeOK, ReservationsCounted, OpRec, NoOp
<1>6. ASSUME NEW c \in Conv, RemovePrivate(c)
      PROVE  ClosedIsDrained'
  BY <1>6 DEF RemovePrivate, admission, handles, processes, bounds, ClosedIsDrained,
         TypeOK, ReservationsCounted, OpRec, NoOp
<1>7. ASSUME NEW c \in Conv, BeginTeardown(c)
      PROVE  ClosedIsDrained'
  BY <1>7 DEF BeginTeardown, admission, handles, processes, bounds, ClosedIsDrained,
         TypeOK, ReservationsCounted, OpRec, NoOp
<1>8. ASSUME NEW c \in Conv, Fence(c)
      PROVE  ClosedIsDrained'
  BY <1>8 DEF Fence, admission, handles, processes, bounds, Step, ClosedIsDrained,
         TypeOK, ReservationsCounted, OpRec, NoOp
<1>9. ASSUME NEW c \in Conv, Drain(c)
      PROVE  ClosedIsDrained'
  BY <1>9 DEF Drain, admission, handles, processes, bounds, ClosedIsDrained, TypeOK,
         ReservationsCounted, OpRec, NoOp
<1>10. ASSUME NEW c \in Conv, Unindex(c)
      PROVE  ClosedIsDrained'
  BY <1>10 DEF Unindex, admission, handles, processes, bounds, Step, ClosedIsDrained,
         TypeOK, ReservationsCounted, OpRec, NoOp
<1>11. ASSUME NEW c \in Conv, KillRemoved(c)
      PROVE  ClosedIsDrained'
  BY <1>11 DEF KillRemoved, admission, handles, processes, bounds, ClosedIsDrained,
         TypeOK, ReservationsCounted, OpRec, NoOp
<1>12. ASSUME NEW c \in Conv, Cleaned(c)
      PROVE  ClosedIsDrained'
  BY <1>12 DEF Cleaned, admission, handles, processes, bounds, Step, ClosedIsDrained,
         TypeOK, ReservationsCounted, OpRec, NoOp
<1>13. ASSUME NEW c \in Conv, Mutate(c)
      PROVE  ClosedIsDrained'
  BY <1>13 DEF Mutate, admission, handles, processes, bounds, NoOp, ClosedIsDrained,
         TypeOK, ReservationsCounted, OpRec
<1>14. ASSUME NEW c \in Conv, MutateFails(c)
      PROVE  ClosedIsDrained'
  BY <1>14 DEF MutateFails, admission, handles, processes, bounds, Step,
         ClosedIsDrained, TypeOK, ReservationsCounted, OpRec, NoOp
<1>15. ASSUME NEW c \in Conv, Reopen(c)
      PROVE  ClosedIsDrained'
  BY ZenonT(60), <1>15 DEF Reopen, admission, handles, processes, bounds, NoOp, ClosedIsDrained,
         TypeOK, ReservationsCounted, OpRec
<1>16. ASSUME NEW c \in Conv, CutShort(c)
      PROVE  ClosedIsDrained'
  BY <1>16 DEF CutShort, admission, handles, processes, bounds, NoOp, ClosedIsDrained,
         TypeOK, ReservationsCounted, OpRec
<1>17. ASSUME UNCHANGED <<faults, closed, pending, table, op>>
      PROVE  ClosedIsDrained'
  BY <1>17 DEF ClosedIsDrained
<1>18. ASSUME NEW r \in Run, RunStep(r)
      PROVE  ClosedIsDrained'
  BY <1>18, <1>1, <1>2, <1>3, <1>4, <1>17 DEF RunStep, Spawn, admission, handles,
         processes, bounds
<1>19. ASSUME NEW r \in Run, ProcessStep(r)
      PROVE  ClosedIsDrained'
  BY <1>19, <1>17, ProcessFrame
<1>20. ASSUME NEW x \in Call, CallStep(x)
      PROVE  ClosedIsDrained'
  BY <1>20, <1>17, CallFrame
<1>21. ASSUME NEW c \in Conv, RequestStep(c)
      PROVE  ClosedIsDrained'
  BY <1>21, <1>5, <1>6, <1>7, <1>8, <1>9, <1>10, <1>11, <1>12, <1>13, <1>14, <1>15,
         <1>16, <1>17 DEF RequestStep, CleanupStep, SubAgentEnds, admission,
         handles, processes, bounds
<1> QED
  BY <1>18, <1>19, <1>20, <1>21 DEF Next, RequestStep

\* Every step keeps the states of a handle and its waiter in line (run_waiter).
LEMMA HandleLifeStep ==
    ASSUME ScopeInv, Next
    PROVE  HandleLife'
<1> USE DEF ScopeInv
<1>1. ASSUME NEW r \in Run, NEW c \in Conv, Reserve(r, c)
      PROVE  HandleLife'
  <2>0. run \in [Run -> RunRec]
    BY ZenonT(60) DEF TypeOK
  <2>1. /\ run[r].pc = "idle"
        /\ \A s \in Run \ {r} : run'[s] = run[s]
    BY <1>1, <2>0 DEF Reserve, NoRun
  <2> QED
    BY <1>1, <2>1 DEF Reserve, handles, processes, bounds, HandleLife, TypeOK
<1>2. ASSUME NEW r \in Run, Spawn(r)
      PROVE  HandleLife'
  BY <1>2 DEF Spawn, admission, handles, processes, bounds, Goto, HandleLife, TypeOK,
         RunRec, NoRun
<1>3. ASSUME NEW r \in Run, SpawnFails(r)
      PROVE  HandleLife'
  BY <1>3 DEF SpawnFails, admission, handles, processes, bounds, Goto, Settle,
         HandleLife, TypeOK, RunRec, NoRun
<1>4. ASSUME NEW r \in Run, Commit(r)
      PROVE  HandleLife'
  BY <1>4 DEF Commit, admission, handles, processes, bounds, Goto, Settle, HandleLife,
         TypeOK, RunRec, NoRun
<1>5. ASSUME NEW r \in Run, SpawnDropped(r)
      PROVE  HandleLife'
  BY <1>5 DEF SpawnDropped, admission, handles, processes, bounds, Goto, Settle,
         HandleLife, TypeOK, RunRec, NoRun
<1>6. ASSUME NEW r \in Run, Exits(r)
      PROVE  HandleLife'
  BY <1>6 DEF Exits, admission, handles, processes, bounds, HandleLife, TypeOK
<1>7. ASSUME NEW r \in Run, Reap(r)
      PROVE  HandleLife'
  BY <1>7 DEF Reap, admission, handles, processes, bounds, HandleLife, TypeOK
<1>8. ASSUME NEW r \in Run, Demote(r)
      PROVE  HandleLife'
  BY <1>8 DEF Demote, admission, handles, processes, bounds, HandleLife, TypeOK
<1>9. ASSUME NEW r \in Run, PublishExit(r)
      PROVE  HandleLife'
  BY <1>9 DEF PublishExit, admission, handles, processes, bounds, HandleLife, TypeOK
<1>10. ASSUME NEW r \in Run, WaiterPanics(r)
      PROVE  HandleLife'
  BY <1>10 DEF WaiterPanics, admission, handles, processes, bounds, HandleLife, TypeOK
<1>11. ASSUME NEW x \in Call, Signal(x)
      PROVE  HandleLife'
  BY <1>11 DEF Signal, admission, handles, processes, bounds, Put, HandleLife, TypeOK
<1>12. ASSUME NEW x \in Call, CallTimesOut(x)
      PROVE  HandleLife'
  BY <1>12 DEF CallTimesOut, admission, handles, processes, bounds, Put, DoneCall,
         NoCall, Observing, MarkKillPending, HandleLife, TypeOK, CallsHaveHandles,
         CallRec
<1>13. ASSUME NEW c \in Conv, KillRemoved(c)
      PROVE  HandleLife'
  BY <1>13 DEF KillRemoved, admission, handles, processes, bounds, HandleLife, TypeOK
<1>14. ASSUME UNCHANGED <<run, state, waiter, proc, recorded, attempt>>
      PROVE  HandleLife'
  BY <1>14 DEF HandleLife
<1>15. ASSUME NEW r \in Run, RunStep(r)
      PROVE  HandleLife'
  BY <1>15, <1>1, <1>2, <1>3, <1>4, <1>5 DEF RunStep
<1>16. ASSUME NEW r \in Run, ProcessStep(r)
      PROVE  HandleLife'
  BY <1>16, <1>6, <1>7, <1>8, <1>9, <1>10 DEF ProcessStep
<1>17. ASSUME NEW x \in Call, CallStep(x)
      PROVE  HandleLife'
  BY ZenonT(60), <1>17, <1>11, <1>12, <1>14 DEF CallStep, Lookup, Observe, CallWakes,
         CallCancelled, admission, handles, processes, bounds
<1>18. ASSUME NEW c \in Conv, RequestStep(c)
      PROVE  HandleLife'
  BY ZenonT(60), <1>18, <1>13, <1>14 DEF RequestStep, CleanupStep, Begin, RemovePrivate,
         BeginTeardown, Fence, Drain, Unindex, Cleaned, Mutate, MutateFails,
         Reopen, CutShort, SubAgentEnds, admission, handles, processes, bounds
<1> QED
  BY <1>15, <1>16, <1>17, <1>18 DEF Next, RequestStep

\* Every step of a call keeps the handle it looked up (lookup_handle).
LEMMA CallsHaveHandlesStep ==
    ASSUME ScopeInv, Next
    PROVE  CallsHaveHandles'
<1> USE DEF ScopeInv
<1>1. ASSUME NEW x \in Call, NEW c \in Conv, NEW h \in Run,
             NEW kind \in {"wait", "kill"}, Lookup(x, c, h, kind)
      PROVE  CallsHaveHandles'
  BY <1>1 DEF Lookup, admission, handles, processes, bounds, Put, NoCall, DoneCall,
         CallsHaveHandles, TypeOK, CallRec
<1>2. ASSUME NEW x \in Call, Signal(x)
      PROVE  CallsHaveHandles'
  BY <1>2 DEF Signal, admission, handles, processes, bounds, Put, CallsHaveHandles,
         TypeOK, CallRec
<1>3. ASSUME NEW x \in Call, Observe(x)
      PROVE  CallsHaveHandles'
  BY <1>3 DEF Observe, admission, handles, processes, bounds, Put, CallsHaveHandles,
         TypeOK, CallRec
<1>4. ASSUME NEW x \in Call, CallWakes(x)
      PROVE  CallsHaveHandles'
  BY <1>4 DEF CallWakes, admission, handles, processes, bounds, Put, DoneCall, NoCall,
         Observing, CallsHaveHandles, TypeOK, CallRec
<1>5. ASSUME NEW x \in Call, CallTimesOut(x)
      PROVE  CallsHaveHandles'
  BY <1>5 DEF CallTimesOut, admission, handles, processes, bounds, Put, DoneCall,
         NoCall, Observing, MarkKillPending, CallsHaveHandles, TypeOK, CallRec
<1>6. ASSUME NEW x \in Call, CallCancelled(x)
      PROVE  CallsHaveHandles'
  BY <1>6 DEF CallCancelled, admission, handles, processes, bounds, Put, DoneCall,
         NoCall, Observing, CallsHaveHandles, TypeOK, CallRec
<1>7. ASSUME UNCHANGED <<call>>
      PROVE  CallsHaveHandles'
  BY <1>7 DEF CallsHaveHandles
<1>8. ASSUME NEW r \in Run, RunStep(r)
      PROVE  CallsHaveHandles'
  BY <1>8, <1>7, RunFrame
<1>9. ASSUME NEW r \in Run, ProcessStep(r)
      PROVE  CallsHaveHandles'
  BY <1>9, <1>7, ProcessFrame
<1>10. ASSUME NEW x \in Call, CallStep(x)
      PROVE  CallsHaveHandles'
  BY <1>10, <1>1, <1>2, <1>3, <1>4, <1>5, <1>6 DEF CallStep
<1>11. ASSUME NEW c \in Conv, RequestStep(c)
      PROVE  CallsHaveHandles'
  BY <1>11, <1>7, CleanupFrame
<1> QED
  BY <1>8, <1>9, <1>10, <1>11 DEF Next, RequestStep

\* Every step keeps tombstones and kill attempts in line
\* (mark_kill_pending_kernel, transition_to_terminal).
LEMMA TombstoneKeepsKillStep ==
    ASSUME ScopeInv, Next
    PROVE  TombstoneKeepsKill'
<1> USE DEF ScopeInv
<1>1. ASSUME NEW r \in Run, Commit(r)
      PROVE  TombstoneKeepsKill'
  BY <1>1 DEF Commit, admission, handles, processes, bounds, Goto, Settle,
         TombstoneKeepsKill, HandleLife, TypeOK, CallsHaveHandles
<1>2. ASSUME NEW r \in Run, Demote(r)
      PROVE  TombstoneKeepsKill'
  BY <1>2 DEF Demote, admission, handles, processes, bounds, TombstoneKeepsKill,
         HandleLife, TypeOK, CallsHaveHandles
<1>3. ASSUME NEW x \in Call, CallTimesOut(x)
      PROVE  TombstoneKeepsKill'
  BY <1>3 DEF CallTimesOut, admission, handles, processes, bounds, Put, DoneCall,
         NoCall, Observing, MarkKillPending, TombstoneKeepsKill, HandleLife, TypeOK,
         CallsHaveHandles
<1>4. ASSUME UNCHANGED <<state, attempt, recorded>>
      PROVE  TombstoneKeepsKill'
  BY <1>4 DEF TombstoneKeepsKill
<1>5. ASSUME NEW r \in Run, RunStep(r)
      PROVE  TombstoneKeepsKill'
  BY <1>5, <1>1, <1>4 DEF RunStep, Reserve, Spawn, SpawnFails, SpawnDropped,
         admission, handles, processes, bounds
<1>6. ASSUME NEW r \in Run, ProcessStep(r)
      PROVE  TombstoneKeepsKill'
  BY <1>6, <1>2, <1>4 DEF ProcessStep, Exits, Reap, PublishExit, WaiterPanics,
         admission, handles, processes, bounds
<1>7. ASSUME NEW x \in Call, CallStep(x)
      PROVE  TombstoneKeepsKill'
  BY ZenonT(60), <1>7, <1>3, <1>4 DEF CallStep, Lookup, Signal, Observe, CallWakes,
         CallCancelled, admission, handles, processes, bounds
<1>8. ASSUME NEW c \in Conv, RequestStep(c)
      PROVE  TombstoneKeepsKill'
  BY <1>8, <1>4, CleanupFrame
<1> QED
  BY <1>5, <1>6, <1>7, <1>8 DEF Next, RequestStep

\* ScopeInv is inductive.
LEMMA ScopeInvInductive == Spec => []ScopeInv
<1>1. Init => ScopeInv
  <2> SUFFICES ASSUME Init
               PROVE  ScopeInv
    OBVIOUS
  <2>1. NoRun \in RunRec /\ NoCall \in CallRec /\ NoOp \in OpRec
    BY ZenonT(60) DEF NoRun, NoCall, NoOp, RunRec, CallRec, OpRec
  <2>2. TypeOK
    BY ZenonT(60), <2>1 DEF Init, TypeOK
  <2>3. RunningIsHeld /\ ClosedIsDrained /\ HandleLife /\ TombstoneKeepsKill
    BY ZenonT(60) DEF Init, RunningIsHeld, ClosedIsDrained, HandleLife, TombstoneKeepsKill, NoRun
  <2>4. ReservationsCounted /\ CallsHaveHandles
    BY DEF Init, ReservationsCounted, CallsHaveHandles, NoRun, NoCall
  <2>5. DecisionHolds /\ ClosedOnlyWhileCleaning
    BY DEF Init, DecisionHolds, ClosedOnlyWhileCleaning, NoOp
  <2> QED
    BY <2>2, <2>3, <2>4, <2>5 DEF ScopeInv
<1>2. ScopeInv /\ [Next]_vars => ScopeInv'
  <2> SUFFICES ASSUME ScopeInv, [Next]_vars
               PROVE  ScopeInv'
    OBVIOUS
  <2>1. CASE Next
    BY <2>1, TypeOKStep, RunningIsHeldStep, ReservationsCountedStep, ClosedIsDrainedStep,
       HandleLifeStep, CallsHaveHandlesStep, TombstoneKeepsKillStep, DecisionHoldsStep,
       ClosedOnlyWhileCleaningStep DEF ScopeInv
  <2>2. CASE UNCHANGED vars
    BY ZenonT(60), <2>2 DEF vars, ScopeInv, TypeOK, RunningIsHeld, ReservationsCounted,
           ClosedIsDrained, HandleLife, CallsHaveHandles, TombstoneKeepsKill, DecisionHolds,
           ClosedOnlyWhileCleaning
  <2> QED
    BY <2>1, <2>2
<1> QED
  BY <1>1, <1>2, PTL DEF Spec

\* No process escapes a teardown (teardown_bash_owner), however many
\* conversations share the scope and however many run calls are under way.
THEOREM TeardownIsComplete == Spec => []NothingEscapesTeardown
<1>1. ScopeInv => NothingEscapesTeardown
  BY ZenonT(60) DEF ScopeInv, RunningIsHeld, ReservationsCounted, ClosedIsDrained,
         NothingEscapesTeardown
<1> QED
  BY <1>1, ScopeInvInductive, PTL

\* A kill that times out while the process ends is in the tombstone or was not
\* recorded (mark_kill_pending_kernel), for every number of kill calls.
THEOREM KillsAreRecorded == Spec => []TombstoneKeepsKill
<1>1. ScopeInv => TombstoneKeepsKill
  BY DEF ScopeInv
<1> QED
  BY <1>1, ScopeInvInductive, PTL

\* A request whose row write fails gives admission back
\* (reopen_bash_after_failed_lifecycle_mutation): no scope that is still owned
\* stays closed, however many requests overlap.
THEOREM FailedCleanupReopens == Spec => []ClosedOnlyWhileCleaning
<1>1. ScopeInv => ClosedOnlyWhileCleaning
  BY DEF ScopeInv
<1> QED
  BY <1>1, ScopeInvInductive, PTL

\* Cleanup of one conversation never takes a shared handle from another owner
\* (scope_still_owned_after_delete), for every set of conversations.
THEOREM OwnersKeepHandles == Spec => LiveOwnerKeepsHandles
<1>1. ScopeInv /\ [Next]_vars => [HandlesKept]_vars
  BY HandlesKeptStep
<1>2. [][HandlesKept]_vars => LiveOwnerKeepsHandles
  BY PTL DEF HandlesKept, LiveOwnerKeepsHandles
<1> QED
  BY <1>1, <1>2, ScopeInvInductive, PTL DEF Spec

-----------------------------------------------------------------------------
(* The table and the index by id. *)

\* The cleanup of c has taken r out of the table and not yet out of the index.
Removing(c, r) == op[c].pc = "unindex" /\ r \in op[c].todo

\* Every handle is in the index while it is in the table, and is never put back
\* once a cleanup has taken it.
HandleBooks ==
    /\ table \subseteq index
    /\ \A r \in index : run[r].pc = "done"
    /\ \A c \in Conv, r \in Run : Removing(c, r) => r \notin table /\ run[r].pc = "done"
    /\ faults = 0 => \A r \in index \ table : \E c \in Conv : Removing(c, r)

\* What every step does to the books that neither adds nor removes a handle.
BooksLeftAlone ==
    /\ UNCHANGED <<table, index, faults>>
    /\ \A r \in Run : run[r].pc = "done" => run'[r].pc = "done"
    /\ \A c \in Conv, r \in Run : Removing(c, r)' <=> Removing(c, r)

\* Run calls leave the books alone until they commit.
LEMMA RunLeavesBooks ==
    ASSUME ScopeInv, NEW r \in Run, RunStep(r), ~Commit(r)
    PROVE  BooksLeftAlone
<1> USE DEF ScopeInv
<1>1. ASSUME NEW c \in Conv, Reserve(r, c)
      PROVE  BooksLeftAlone
  BY <1>1 DEF Reserve, handles, bounds, NoRun, TypeOK, RunRec, BooksLeftAlone, Removing
<1>2. CASE Spawn(r)
  BY <1>2 DEF Spawn, handles, bounds, Goto, TypeOK, RunRec, BooksLeftAlone, Removing
<1>3. CASE SpawnFails(r)
  BY <1>3 DEF SpawnFails, handles, bounds, Goto, Settle, TypeOK, RunRec, OpRec,
         BooksLeftAlone, Removing
<1>4. CASE SpawnDropped(r)
  BY <1>4 DEF SpawnDropped, handles, bounds, Goto, Settle, TypeOK, RunRec, OpRec,
         BooksLeftAlone, Removing
<1> QED
  BY <1>1, <1>2, <1>3, <1>4 DEF RunStep

\* So do the steps of a cleanup other than taking handles from the table, taking
\* them from the index, and being cut short.
LEMMA CleanupLeavesBooks ==
    ASSUME ScopeInv, NEW c \in Conv, RequestStep(c), ~RemovePrivate(c), ~Drain(c),
           ~Unindex(c), ~CutShort(c)
    PROVE  BooksLeftAlone
<1> USE DEF ScopeInv
<1>1. UNCHANGED run
  BY CleanupFrame
<1>2. CASE Begin(c)
  BY <1>1, <1>2 DEF Begin, handles, Step, NoOp, TypeOK, OpRec, BooksLeftAlone, Removing
<1>3. CASE BeginTeardown(c)
  BY <1>1, <1>3 DEF BeginTeardown, handles, bounds, TypeOK, OpRec, BooksLeftAlone, Removing
<1>4. CASE Fence(c)
  BY <1>1, <1>4 DEF Fence, handles, bounds, Step, TypeOK, OpRec, BooksLeftAlone, Removing
<1>5. CASE KillRemoved(c)
  BY <1>1, <1>5 DEF KillRemoved, handles, bounds, TypeOK, OpRec, BooksLeftAlone, Removing
<1>6. CASE Cleaned(c)
  BY <1>1, <1>6 DEF Cleaned, handles, bounds, Step, TypeOK, OpRec, BooksLeftAlone, Removing
<1>7. CASE Mutate(c)
  BY <1>1, <1>7 DEF Mutate, handles, bounds, NoOp, TypeOK, OpRec, BooksLeftAlone, Removing
<1>8. CASE MutateFails(c)
  BY <1>1, <1>8 DEF MutateFails, handles, bounds, Step, TypeOK, OpRec, BooksLeftAlone,
         Removing
<1>9. CASE Reopen(c)
  BY <1>1, <1>9 DEF Reopen, handles, bounds, NoOp, TypeOK, OpRec, BooksLeftAlone, Removing
<1>10. CASE SubAgentEnds(c)
  BY <1>1, <1>10 DEF SubAgentEnds, handles, BooksLeftAlone, Removing
<1> QED
  BY <1>2, <1>3, <1>4, <1>5, <1>6, <1>7, <1>8, <1>9, <1>10 DEF RequestStep, CleanupStep

\* A cleanup that takes handles from the table and remembers them keeps the books
\* (remove_restricted_created_by, take_all).
LEMMA TakingKeepsBooks ==
    ASSUME ScopeInv, HandleBooks, NEW c \in Conv, NEW mine \in SUBSET table, NEW g,
           op[c].pc # "unindex", table' = table \ mine, UNCHANGED <<index, run, faults>>,
           op' = [op EXCEPT ![c] = [pc |-> "unindex", gen |-> g, todo |-> mine]]
    PROVE  HandleBooks'
<1>1. table \subseteq Run /\ index \subseteq Run /\ op \in [Conv -> OpRec]
  BY DEF ScopeInv, TypeOK
<1>2. op'[c].pc = "unindex" /\ op'[c].todo = mine
  BY <1>1
<1>3. \A d \in Conv : d # c => op'[d] = op[d]
  BY <1>1
<1>4. \A s \in Run : Removing(c, s)' <=> s \in mine
  BY ZenonT(60), <1>2 DEF Removing
<1>5. \A d \in Conv, s \in Run : d # c => (Removing(d, s)' <=> Removing(d, s))
  BY ZenonT(60), <1>3 DEF Removing
<1>6. \A s \in Run : ~Removing(c, s)
  BY ZenonT(60) DEF Removing
<1>7. (table \subseteq index /\ \A r \in index : run[r].pc = "done")'
  BY ZenonT(60) DEF HandleBooks
<1>8. ASSUME NEW d \in Conv, NEW r \in Run, Removing(d, r)'
      PROVE  r \notin table' /\ run'[r].pc = "done"
  <2>1. CASE d = c
    BY ZenonT(60), <2>1, <1>4, <1>8 DEF HandleBooks
  <2>2. CASE d # c
    BY ZenonT(60), <2>2, <1>5, <1>8 DEF HandleBooks
  <2> QED
    BY <2>1, <2>2
<1>9. ASSUME faults' = 0, NEW r \in index' \ table'
      PROVE  \E d \in Conv : Removing(d, r)'
  <2>1. r \in Run /\ r \in index /\ faults = 0
    BY ZenonT(60), <1>1, <1>9
  <2>2. CASE r \in mine
    BY ZenonT(60), <2>1, <2>2, <1>4
  <2>3. CASE r \notin mine
    <3>1. PICK d \in Conv : Removing(d, r)
      BY ZenonT(60), <2>1, <2>3, <1>9 DEF HandleBooks
    <3> QED
      BY ZenonT(60), <3>1, <2>1, <1>5, <1>6
  <2> QED
    BY <2>2, <2>3
<1> QED
  BY ZenonT(60), <1>7, <1>8, <1>9 DEF HandleBooks

\* Every step keeps the books (commit_spawn, drain_owner,
\* remove_from_global_index).
LEMMA HandleBooksStep ==
    ASSUME ScopeInv, HandleBooks, Next
    PROVE  HandleBooks'
<1>0. table \subseteq Run /\ index \subseteq Run /\ TypeOK
  BY DEF ScopeInv, TypeOK
<1>1. ASSUME BooksLeftAlone
      PROVE  HandleBooks'
  BY ZenonT(60), <1>0, <1>1 DEF BooksLeftAlone, HandleBooks
<1>2. ASSUME NEW r \in Run, Commit(r)
      PROVE  HandleBooks'
  <2>1. /\ table' = table \union {r} /\ index' = index \union {r} /\ faults' = faults
        /\ run[r].pc = "spawned" /\ run'[r].pc = "done"
        /\ \A s \in Run : run[s].pc = "done" => run'[s].pc = "done"
    BY <1>0, <1>2 DEF Commit, bounds, Goto, TypeOK, RunRec
  <2>2. \A c \in Conv, s \in Run : Removing(c, s)' <=> Removing(c, s)
    BY <1>0, <1>2 DEF Commit, Settle, TypeOK, OpRec, Removing
  <2>3. \A c \in Conv : ~Removing(c, r)
    BY <2>1 DEF HandleBooks
  <2> QED
    BY <1>0, <2>1, <2>2, <2>3 DEF HandleBooks
<1>3. ASSUME NEW c \in Conv, RemovePrivate(c)
      PROVE  HandleBooks'
  <2>1. PICK mine \in SUBSET table :
          /\ table' = table \ mine /\ UNCHANGED <<index, run, faults>>
          /\ op' = [op EXCEPT ![c] = [pc |-> "unindex", gen |-> 0, todo |-> mine]]
    BY ZenonT(60), <1>3 DEF RemovePrivate, bounds
  <2>2. op[c].pc # "unindex"
    BY <1>3 DEF RemovePrivate
  <2> QED
    BY ZenonT(60), <2>1, <2>2, TakingKeepsBooks
<1>4. ASSUME NEW c \in Conv, Drain(c)
      PROVE  HandleBooks'
  <2>1. /\ table' = table \ table /\ UNCHANGED <<index, run, faults>>
        /\ op' = [op EXCEPT ![c] = [pc |-> "unindex", gen |-> op[c].gen, todo |-> table]]
        /\ op[c].pc # "unindex"
    BY <1>4 DEF Drain, bounds
  <2> QED
    BY ZenonT(60), <2>1, TakingKeepsBooks
<1>5. ASSUME NEW c \in Conv, Unindex(c)
      PROVE  HandleBooks'
  <2>1. /\ table' = table /\ run' = run /\ faults' = faults
        /\ index' = {s \in index : ~Removing(c, s)}
    BY <1>5 DEF Unindex, bounds, Removing
  <2>2. \A d \in Conv, s \in Run : Removing(d, s)' <=> (Removing(d, s) /\ d # c)
    BY <1>0, <1>5 DEF Unindex, Step, TypeOK, OpRec, Removing
  <2> QED
    BY <1>0, <2>1, <2>2 DEF HandleBooks
<1>6. ASSUME NEW c \in Conv, CutShort(c)
      PROVE  HandleBooks'
  <2>1. /\ table' = table /\ index' = index /\ run' = run /\ faults' # 0
    BY <1>0, <1>6 DEF CutShort, handles, TypeOK
  <2>2. \A d \in Conv, s \in Run : Removing(d, s)' => Removing(d, s)
    BY <1>0, <1>6 DEF CutShort, NoOp, TypeOK, OpRec, Removing
  <2> QED
    BY ZenonT(60), <1>0, <2>1, <2>2 DEF HandleBooks
<1>7. ASSUME NEW r \in Run, RunStep(r)
      PROVE  HandleBooks'
  BY <1>1, <1>2, <1>7, RunLeavesBooks
<1>8. ASSUME NEW r \in Run, ProcessStep(r)
      PROVE  HandleBooks'
  BY <1>1, <1>8, ProcessFrame DEF BooksLeftAlone, Removing
<1>9. ASSUME NEW x \in Call, CallStep(x)
      PROVE  HandleBooks'
  BY <1>1, <1>9, CallFrame DEF BooksLeftAlone, Removing
<1>10. ASSUME NEW c \in Conv, RequestStep(c)
      PROVE  HandleBooks'
  BY <1>1, <1>3, <1>4, <1>5, <1>6, <1>10, CleanupLeavesBooks
<1> QED
  BY <1>7, <1>8, <1>9, <1>10 DEF Next, RequestStep

\* While no request is cut short, a handle that can be found by its id is in the
\* table or is being removed by a cleanup under way (commit_spawn, drain_owner,
\* remove_from_global_index), for every number of overlapping cleanups.
THEOREM BooksAgree == Spec => []NoGhostHandles
<1>1. Init => HandleBooks
  BY DEF Init, NoOp, NoRun, HandleBooks, Removing
<1>2. ScopeInv /\ HandleBooks /\ [Next]_vars => HandleBooks'
  <2>1. CASE UNCHANGED vars
    BY ZenonT(60), <2>1 DEF vars, HandleBooks, Removing
  <2> QED
    BY <2>1, HandleBooksStep
<1>3. HandleBooks => NoGhostHandles
  BY DEF HandleBooks, Removing, NoGhostHandles
<1> QED
  BY <1>1, <1>2, <1>3, ScopeInvInductive, PTL DEF Spec

=============================================================================
