-------------------------- MODULE TurnContractProofs --------------------------
(***************************************************************************)
(* One turn at a time, as a refinement: the session's loop, tasks and slot *)
(* implement OneTurnAtATime under the mapping of TurnContract, for any set *)
(* of turns and requests, in two kinds of session: those in which the      *)
(* submission loop is the only one to start turns, and those in which      *)
(* every start reserves the slot.                                          *)
(*                                                                         *)
(* With LoopInv the phase of a turn is a function of its control point and *)
(* of whether the loop is aborting it (PhaseByPoint). Every lemma on an    *)
(* action says what the action does to these two; five actions move one    *)
(* turn one phase on, and the others move none.                            *)
(*                                                                         *)
(* Reserved sessions have an invariant of their own, ReservedInv; the task *)
(* in the slot, the assertions of start_task, the terminal events and the  *)
(* phases follow from it. In sessions of either kind, which are Orderly,   *)
(* TicketInv says where an accepted item may be, and the steps of the      *)
(* session are steps of InputLedger. The last part shows that reserved     *)
(* sessions lose nothing.                                                  *)
(***************************************************************************)
EXTENDS TurnLifecycleItems, TurnContract

WaitPoint == {"unused", "queued", "rejected"}

(* The phase of a turn, from its control point and whether it is aborted.  *)
PhaseAt(p, aborting) ==
    IF p \in RunPoint /\ ~aborting THEN "working"
    ELSE IF p \in Over \/ (p \in {"done", "killed"} /\ ~aborting) THEN "over"
    ELSE IF p \in WaitPoint THEN "waiting" ELSE "ending"

(* The terminal events of a turn follow from its control point, and so     *)
(* does its phase.                                                         *)
LEMMA PhaseByPoint ==
  ASSUME LoopInv, NEW t \in Turn
  PROVE  PhaseOf(t) = PhaseAt(pc[t], Aborting(t))
<1>1. Ends(t) = IF pc[t] \in Over \/ (pc[t] \in {"done", "killed"} /\ ~Aborting(t))
                THEN 1 ELSE 0
  BY DEF LoopInv, EndsOnce
<1>2. CASE Aborting(t)
  BY <1>1, <1>2 DEF PhaseOf, PhaseAt, Running, WaitPoint, Over, RunPoint
<1>3. CASE ~Aborting(t)
  BY <1>1, <1>3 DEF PhaseOf, PhaseAt, Running, WaitPoint, Over, RunPoint
<1> QED
  BY <1>2, <1>3

(* The same of the next state.                                             *)
LEMMA PhaseByPointNext ==
  ASSUME LoopInv', NEW t \in Turn
  PROVE  PhaseOf(t)' = PhaseAt(pc'[t], Aborting(t)')
<1>1. Ends(t)' = IF pc'[t] \in Over \/ (pc'[t] \in {"done", "killed"} /\ ~Aborting(t)')
                 THEN 1 ELSE 0
  BY DEF LoopInv, EndsOnce
<1>2. CASE Aborting(t)'
  BY <1>1, <1>2 DEF PhaseOf, PhaseAt, Running, WaitPoint, Over, RunPoint
<1>3. CASE ~Aborting(t)'
  BY <1>1, <1>3 DEF PhaseOf, PhaseAt, Running, WaitPoint, Over, RunPoint
<1> QED
  BY <1>2, <1>3

(* A step that changes the phase of no turn is none of the contract.       *)
LEMMA PhasesStay ==
  ASSUME \A u \in Turn : PhaseOf(u)' = PhaseOf(u)
  PROVE  UNCHANGED [v \in Turn |-> PhaseOf(v)]
OBVIOUS

(* No phase changes if no turn changes its group of control points.        *)
LEMMA PointsStay ==
  ASSUME LoopInv, LoopInv',
         \A u \in Turn : pc'[u] = pc[u] /\ (Aborting(u)' <=> Aborting(u))
  PROVE  [OneTurn!Next]_[v \in Turn |-> PhaseOf(v)]
<1>1. \A u \in Turn : PhaseOf(u)' = PhaseAt(pc'[u], Aborting(u)')
  BY PhaseByPointNext
<1>2. \A u \in Turn : PhaseOf(u)' = PhaseOf(u)
  BY <1>1, PhaseByPoint DEF PhaseAt
<1> QED
  BY <1>2, PhasesStay

(* One turn moves, and the phases of the others stay.                      *)
LEMMA PhaseMoves ==
  ASSUME LoopInv, LoopInv', NEW t \in Turn, NEW from, NEW to,
         PhaseAt(pc[t], Aborting(t)) = from, PhaseAt(pc'[t], Aborting(t)') = to,
         \A u \in Turn \ {t} : pc'[u] = pc[u] /\ (Aborting(u)' <=> Aborting(u))
  PROVE  /\ PhaseOf(t) = from /\ PhaseOf(t)' = to
         /\ \A u \in Turn \ {t} : PhaseOf(u)' = PhaseOf(u)
<1>1. \A u \in Turn : PhaseOf(u)' = PhaseAt(pc'[u], Aborting(u)')
  BY PhaseByPointNext
<1>2. \A u \in Turn \ {t} : PhaseOf(u)' = PhaseOf(u)
  BY <1>1, PhaseByPoint DEF PhaseAt
<1> QED
  BY <1>1, <1>2, PhaseByPoint

(* One turn changes its phase, the others keep theirs.                     *)
LEMMA OneMoves ==
  ASSUME NEW t \in Turn, NEW from, NEW to, PhaseOf(t) = from, PhaseOf(t)' = to,
         \A u \in Turn \ {t} : PhaseOf(u)' = PhaseOf(u)
  PROVE  OneTurn!Move(t, from, to)
BY DEF OneTurn!Move

(* A control point moves within its phase.                                 *)
LEMMA PointMoves ==
  ASSUME LoopInv, LoopInv', NEW t \in Turn,
         PhaseAt(pc[t], Aborting(t)) = PhaseAt(pc'[t], Aborting(t)'),
         \A u \in Turn \ {t} : pc'[u] = pc[u] /\ (Aborting(u)' <=> Aborting(u))
  PROVE  [OneTurn!Next]_[v \in Turn |-> PhaseOf(v)]
<1>1. /\ PhaseOf(t)' = PhaseOf(t)
      /\ \A u \in Turn \ {t} : PhaseOf(u)' = PhaseOf(u)
  BY PhaseMoves
<1> QED
  BY <1>1, PhasesStay

-----------------------------------------------------------------------------
(* Requests: a new turn waits, and nothing else moves.                     *)
LEMMA RequestPhases ==
  ASSUME TypeInv, LoopInv, LoopInv', NEW o \in todo, Request(o)
  PROVE  [OneTurn!Next]_[v \in Turn |-> PhaseOf(v)]
<1>1. CASE Steer(o) \/ CancelSteer(o) \/ Inject(o) \/ LoopMail(o) \/ LoopStage(o)
           \/ LoopRelease(o) \/ LoopStartPendingWork(o) \/ LoopInterrupt(o)
  <2>1. \A u \in Turn : pc'[u] = pc[u] /\ (Aborting(u)' <=> Aborting(u))
    BY <1>1, Actors
    DEF Steer, CancelSteer, Inject, LoopMail, LoopStage, LoopRelease,
        LoopStartPendingWork, LoopInterrupt, Goto, Aborting, AbortPoint, TypeInv,
        PcTyped, AbortTyped, AbortType
  <2> QED
    BY <2>1, PointsStay
<1>2. CASE LoopUserInput(o) \/ LoopSpawn(o)
  <2>1. CASE UNCHANGED <<pc, abort>>
    BY <2>1, PointsStay DEF Aborting
  <2>2. CASE ~UNCHANGED <<pc, abort>>
    <3>1. /\ pc[Loop] = "idle" /\ abort'.victim = abort.victim
          /\ \E t \in Turn, p \in {"route", "abort:take"} :
               FreshTurn(t) /\ pc' = [pc EXCEPT ![t] = "queued", ![Loop] = p]
      BY <1>2, <2>2
      DEF LoopUserInput, LoopSpawn, NewTurn, TypeInv, AbortTyped, AbortType
    <3>2. PICK t \in Turn, p \in {"route", "abort:take"} :
            FreshTurn(t) /\ pc' = [pc EXCEPT ![t] = "queued", ![Loop] = p]
      BY <3>1
    <3>3. /\ pc[t] = "unused" /\ pc'[t] = "queued" /\ pc'[Loop] = p
          /\ \A u \in Turn \ {t} : pc'[u] = pc[u]
      BY <3>2, Actors DEF FreshTurn, TypeInv, PcTyped
    <3>4. \A u \in Turn : ~Aborting(u) /\ ~Aborting(u)'
      BY <3>1, <3>3 DEF Aborting, AbortPoint
    <3>5. PhaseAt(pc[t], Aborting(t)) = PhaseAt(pc'[t], Aborting(t)')
      BY <3>3, <3>4 DEF PhaseAt, WaitPoint, RunPoint, Over
    <3> QED
      BY <3>3, <3>4, <3>5, PointMoves
  <2> QED
    BY <2>1, <2>2
<1> QED
  BY <1>1, <1>2, NeverRequested DEF Request

(* The router script turns a waiting turn away, or lets it go on waiting.  *)
LEMMA LoopRoutedPhases ==
  ASSUME TypeInv, LoopInv, LoopInv', LoopRouted
  PROVE  [OneTurn!Next]_[v \in Turn |-> PhaseOf(v)]
<1>0. call[Loop].turn \in Turn
  BY DEF LoopRouted, TypeInv, LoopKnows
<1> PICK t \in Turn : t = call[Loop].turn
  BY <1>0
<1>1. pc[t] = "queued" /\ pc[Loop] = "route"
  BY DEF LoopRouted, LoopInv, NextTurnWaits
<1>2. /\ pc'[Loop] \in {"abort:take", "idle"} /\ pc'[t] \in {"queued", "rejected"}
      /\ \A u \in Turn \ {t} : pc'[u] = pc[u]
  BY <1>1, Actors DEF LoopRouted, Goto, TypeInv, PcTyped
<1>3. \A u \in Turn : ~Aborting(u) /\ ~Aborting(u)'
  BY <1>1, <1>2 DEF Aborting, AbortPoint
<1>4. PhaseAt(pc[t], Aborting(t)) = PhaseAt(pc'[t], Aborting(t)')
  BY <1>1, <1>2, <1>3 DEF PhaseAt, WaitPoint, RunPoint, Over
<1> QED
  BY <1>1, <1>2, <1>3, <1>4, PointMoves

(* abort_all_tasks stops the slot's task, if there is one.                 *)
LEMMA AbortTakePhases ==
  ASSUME TypeInv, LoopInv, LoopInv', AbortTake
  PROVE  [OneTurn!Next]_[v \in Turn |-> PhaseOf(v)]
<1>1. /\ pc[Loop] = "abort:take" /\ abort'.victim = slot.task
      /\ \A u \in Turn : pc'[u] = pc[u]
      /\ slot.task # NoTurn => pc'[Loop] = "abort:cancel"
      /\ slot.task \in Turn \cup {NoTurn}
  BY Actors
  DEF AbortTake, Goto, TypeInv, PcTyped, AbortTyped, AbortType, SlotTyped, SlotType
<1>2. \A u \in Turn : ~Aborting(u) /\ (Aborting(u)' <=> slot.task = u)
  BY <1>1, Actors DEF Aborting, AbortPoint, NoTurn
<1>3. CASE slot.task = NoTurn
  <2>1. \A u \in Turn : ~Aborting(u)'
    BY <1>2, <1>3, Actors
  <2> QED
    BY <1>1, <1>2, <2>1, PointsStay
<1>4. CASE slot.task \in Turn
  <2> PICK t \in Turn : t = slot.task
    BY <1>4
  <2>1. pc[t] \in RunPoint
    BY DEF LoopInv, SlotHoldsRunningTask, Running
  <2>2. /\ PhaseAt(pc[t], Aborting(t)) = "working"
        /\ PhaseAt(pc'[t], Aborting(t)') = "ending"
    BY <1>1, <1>2, <1>4, <2>1 DEF PhaseAt, RunPoint, Over, WaitPoint
  <2>3. OneTurn!Move(t, "working", "ending")
    BY <1>1, <1>2, <1>4, <2>2, PhaseMoves, OneMoves
  <2> QED
    BY <1>4, <2>3 DEF OneTurn!Next, OneTurn!Stop
<1> QED
  BY <1>1, <1>3, <1>4

(* Cancelling, killing and clearing it move no phase ...                   *)
LEMMA AbortsPhases ==
  ASSUME TypeInv, LoopInv, LoopInv', AbortCancel \/ AbortKill \/ AbortClear
  PROVE  [OneTurn!Next]_[v \in Turn |-> PhaseOf(v)]
<1>1. abort.victim \in Turn
  BY DEF AbortCancel, AbortKill, AbortClear, TypeInv, LoopKnows, AbortPoint
<1> PICK v \in Turn : v = abort.victim
  BY <1>1
<1>2. CASE AbortClear
  <2>1. /\ \A u \in Turn : pc'[u] = pc[u]
        /\ pc[Loop] = "abort:clear" /\ pc'[Loop] \in {"start:take", "maybe:check"}
    BY <1>2, Actors DEF AbortClear, Goto, TypeInv, PcTyped
  <2> QED
    BY <2>1, PointsStay DEF Aborting, AbortPoint
<1>3. CASE AbortCancel
  <2>1. /\ \A u \in Turn : pc'[u] = pc[u]
        /\ pc[Loop] = "abort:cancel" /\ pc'[Loop] = "abort:kill" /\ abort' = abort
    BY <1>1, <1>3, Actors
    DEF AbortCancel, LoopInv, VictimNotCancelled, TypeInv, PcTyped
  <2> QED
    BY <2>1, PointsStay DEF Aborting, AbortPoint
<1>4. CASE AbortKill
  <2>1. /\ \A u \in Turn \ {v} : pc'[u] = pc[u]
        /\ pc'[v] \in {"done", "killed"}
        /\ pc[Loop] = "abort:kill" /\ pc'[Loop] = "abort:event" /\ abort' = abort
    BY <1>1, <1>4, Actors DEF AbortKill, TypeInv, PcTyped
  <2>2. pc[v] \in RunPoint \cup {"done"}
    BY <2>1 DEF LoopInv, LoopOwnsSlot, Running
  <2>3. Aborting(v) /\ Aborting(v)' /\ \A u \in Turn \ {v} : ~Aborting(u) /\ ~Aborting(u)'
    BY <2>1 DEF Aborting, AbortPoint
  <2>4. PhaseAt(pc[v], Aborting(v)) = PhaseAt(pc'[v], Aborting(v)')
    BY <2>1, <2>2, <2>3 DEF PhaseAt, RunPoint, Over, WaitPoint
  <2> QED
    BY <1>1, <2>1, <2>3, <2>4, PointMoves
<1> QED
  BY <1>2, <1>3, <1>4

(* ... and its TurnAborted reports it over.                                *)
LEMMA AbortEventPhases ==
  ASSUME TypeInv, LoopInv, LoopInv', AbortEvent
  PROVE  [OneTurn!Next]_[v \in Turn |-> PhaseOf(v)]
<1>0. abort.victim \in Turn
  BY DEF AbortEvent, TypeInv, LoopKnows, AbortPoint
<1> PICK v \in Turn : v = abort.victim
  BY <1>0
<1>1. /\ pc[v] \in {"done", "killed"} /\ pc[Loop] = "abort:event"
      /\ pc'[Loop] = "abort:clear" /\ abort' = abort
      /\ \A u \in Turn : pc'[u] = pc[u]
  BY Actors
  DEF AbortEvent, Goto, TypeInv, PcTyped, LoopKnows, AbortPoint, LoopInv, LoopOwnsSlot
<1>2. /\ Aborting(v) /\ ~Aborting(v)'
      /\ \A u \in Turn \ {v} : ~Aborting(u) /\ ~Aborting(u)'
  BY <1>1 DEF Aborting, AbortPoint
<1>3. /\ PhaseAt(pc[v], Aborting(v)) = "ending"
      /\ PhaseAt(pc'[v], Aborting(v)') = "over"
  BY <1>1, <1>2 DEF PhaseAt, RunPoint, Over, WaitPoint
<1>4. OneTurn!Move(v, "ending", "over")
  BY <1>1, <1>2, <1>3, PhaseMoves, OneMoves
<1> QED
  BY <1>1, <1>4 DEF OneTurn!Next, OneTurn!Report

-----------------------------------------------------------------------------
(* start_task installs a waiting turn in a slot without a task: it begins, *)
(* and no other turn works.                                                *)
LEMMA StartPhases ==
  ASSUME LoopStartsAlone, TypeInv, LoopInv, LoopInv', NEW a \in Actor, StartStep(a)
  PROVE  [OneTurn!Next]_[v \in Turn |-> PhaseOf(v)]
<1>1. pc[a] \in StartPoint => a = Loop
  BY DEF LoopInv, OthersDoNotStart, StartPoint, RunPoint, Over, Actor
<1>2. CASE StartTake(a) \/ StartAttach(a)
  <2>1. /\ \A u \in Turn : pc'[u] = pc[u]
        /\ pc[Loop] \in StartPoint /\ pc'[Loop] \in StartPoint
    BY <1>1, <1>2, Actors DEF StartTake, StartAttach, Goto, TypeInv, PcTyped, StartPoint
  <2> QED
    BY <2>1, PointsStay DEF Aborting, AbortPoint, StartPoint
<1>3. CASE StartInstall(a)
  <2>a. call[Loop].turn \in Turn
    BY <1>1, <1>3 DEF StartInstall, TypeInv, StartKnows, StartPoint
  <2> PICK t \in Turn : t = call[Loop].turn
    BY <2>a
  <2>0. /\ a = Loop /\ pc[Loop] = "start:install" /\ pc[t] = "queued"
        /\ slot.task = NoTurn /\ call[Loop].ret = "idle"
    BY <1>1, <1>3
    DEF StartInstall, LoopInv, NextTurnWaits, LoopOwnsSlot, TypeInv, StartKnows, StartPoint
  <2>1. /\ pc'[Loop] = "idle" /\ pc'[t] = "begin" /\ \A u \in Turn \ {t} : pc'[u] = pc[u]
    BY <1>3, <2>0, Actors DEF StartInstall, TypeInv, PcTyped
  <2>2. \A u \in Turn : ~Aborting(u) /\ ~Aborting(u)'
    BY <2>0, <2>1 DEF Aborting, AbortPoint
  <2>3. \A u \in Turn : pc[u] \notin RunPoint
    BY <2>0, <2>2, Actors DEF LoopInv, SlotHoldsRunningTask, Running
  <2>4. \A u \in Turn : PhaseOf(u) # "working"
    BY <2>3, PhaseByPoint DEF PhaseAt
  <2>5. /\ PhaseAt(pc[t], Aborting(t)) = "waiting"
        /\ PhaseAt(pc'[t], Aborting(t)') = "working"
    BY <2>0, <2>1, <2>2 DEF PhaseAt, RunPoint, Over, WaitPoint
  <2>6. OneTurn!Move(t, "waiting", "working")
    BY <2>0, <2>1, <2>2, <2>5, PhaseMoves, OneMoves
  <2> QED
    BY <2>0, <2>4, <2>6 DEF OneTurn!Next, OneTurn!Begin
<1>4. CASE MaybeCheck(a)
  <2>1. /\ pc[a] = "maybe:check" /\ pc' = [pc EXCEPT ![a] = call[a].ret]
        /\ abort' = abort
    BY <1>4, NoTriggerMail DEF MaybeCheck, Return, Goto
  <2>2. CASE a = Loop
    <3>1. /\ \A u \in Turn : pc'[u] = pc[u]
          /\ pc'[Loop] \in {"idle", "exited"} /\ pc[Loop] = "maybe:check"
      BY <2>1, <2>2, Actors DEF LoopInv, OthersDoNotStart, TypeInv, PcTyped
    <3> QED
      BY <3>1, PointsStay DEF Aborting, AbortPoint
  <2>3. CASE a \in Turn
    <3>1. /\ \A u \in Turn \ {a} : pc'[u] = pc[u]
          /\ pc'[a] = "done" /\ pc[a] = "maybe:check" /\ pc'[Loop] = pc[Loop]
      BY <2>1, <2>3, Actors DEF LoopInv, OthersDoNotStart, TypeInv, PcTyped
    <3>2. \A u \in Turn : (Aborting(u)' <=> Aborting(u))
      BY <2>1, <3>1 DEF Aborting
    <3>3. ~Aborting(a)
      BY <2>3, <3>1
      DEF Aborting, AbortPoint, LoopInv, LoopOwnsSlot, Running, RunPoint
    <3>4. PhaseAt(pc[a], Aborting(a)) = PhaseAt(pc'[a], Aborting(a)')
      BY <2>3, <3>1, <3>2, <3>3 DEF PhaseAt, RunPoint, Over
    <3> QED
      BY <2>3, <3>1, <3>2, <3>4, PointMoves
  <2> QED
    BY <2>1, <2>2, <2>3 DEF LoopInv, OthersDoNotStart, Actor
<1> QED
  BY <1>2, <1>3, <1>4, NeverReserves DEF StartStep

-----------------------------------------------------------------------------
(* A running task works on; or it finds itself cancelled, and the loop has *)
(* stopped it already.                                                     *)
LEMMA RunPhases ==
  ASSUME TypeInv, LoopInv, LoopInv', NEW t \in Turn, RunStep(t)
  PROVE  [OneTurn!Next]_[v \in Turn |-> PhaseOf(v)]
<1>1. /\ UNCHANGED <<slot, abort>>
      /\ pc[t] \in RunPoint /\ pc'[t] \in RunPoint \cup {"done"}
      /\ pc'[Loop] = pc[Loop] /\ \A u \in Turn \ {t} : pc'[u] = pc[u]
  BY RunShape, Actors
<1>2. \A u \in Turn : (Aborting(u)' <=> Aborting(u))
  BY <1>1 DEF Aborting
<1>3. pc'[t] = "done" => Aborting(t)
  BY <1>1 DEF LoopInv, SlotHoldsRunningTask, Running, RunPoint
<1>4. PhaseAt(pc[t], Aborting(t)) = PhaseAt(pc'[t], Aborting(t)')
  BY <1>1, <1>2, <1>3 DEF PhaseAt, RunPoint, Over, WaitPoint
<1> QED
  BY <1>1, <1>2, <1>4, PointMoves

(* on_task_finished stops the turn by taking it out of the slot, reports   *)
(* it, and then moves it no more.                                          *)
LEMMA FinishPhases ==
  ASSUME LoopStartsAlone, TypeInv, LoopInv, LoopInv', NEW t \in Turn, FinishStep(t)
  PROVE  [OneTurn!Next]_[v \in Turn |-> PhaseOf(v)]
<1>1. /\ abort' = abort /\ pc'[Loop] = pc[Loop]
      /\ \A u \in Turn \ {t} : pc'[u] = pc[u]
  BY Actors
  DEF FinishStep, FinishTake, FinishRecord, FinishEvent, FinishClear, FinishIdle,
      FinishWake, Goto, TypeInv, PcTyped
<1>2. \A u \in Turn : (Aborting(u)' <=> Aborting(u))
  BY <1>1 DEF Aborting
<1>3. pc[t] \notin RunPoint \cup {"done", "killed"} => ~Aborting(t)
  BY DEF Aborting, AbortPoint, LoopInv, LoopOwnsSlot, Running
<1>4. CASE FinishTake(t)
  <2>1. pc[t] = "finish:take"
        /\ pc'[t] = IF slot.task = NoTurn THEN "done" ELSE "finish:record"
    BY <1>4, Actors DEF FinishTake, Goto, TypeInv, PcTyped
  <2>2. Aborting(t) <=> slot.task = NoTurn
    BY <2>1, Actors
    DEF LoopInv, SlotHoldsRunningTask, LoopOwnsSlot, Running, RunPoint, Aborting, AbortPoint
  <2>3. CASE slot.task = NoTurn
    <3>1. PhaseAt(pc[t], Aborting(t)) = PhaseAt(pc'[t], Aborting(t)')
      BY <1>2, <2>1, <2>2, <2>3 DEF PhaseAt, RunPoint, Over, WaitPoint
    <3> QED
      BY <1>1, <1>2, <3>1, PointMoves
  <2>4. CASE slot.task # NoTurn
    <3>1. /\ PhaseAt(pc[t], Aborting(t)) = "working"
          /\ PhaseAt(pc'[t], Aborting(t)') = "ending"
      BY <1>2, <2>1, <2>2, <2>4 DEF PhaseAt, RunPoint, Over, WaitPoint
    <3>2. OneTurn!Move(t, "working", "ending")
      BY <1>1, <1>2, <3>1, PhaseMoves, OneMoves
    <3> QED
      BY <3>2 DEF OneTurn!Next, OneTurn!Stop
  <2> QED
    BY <2>3, <2>4
<1>5. CASE FinishEvent(t)
  <2>1. pc[t] = "finish:event" /\ pc'[t] = "finish:clear"
    BY <1>5, Actors DEF FinishEvent, Goto, TypeInv, PcTyped
  <2>2. /\ PhaseAt(pc[t], Aborting(t)) = "ending"
        /\ PhaseAt(pc'[t], Aborting(t)') = "over"
    BY <2>1 DEF PhaseAt, RunPoint, Over, WaitPoint
  <2>3. OneTurn!Move(t, "ending", "over")
    BY <1>1, <1>2, <2>2, PhaseMoves, OneMoves
  <2> QED
    BY <2>3 DEF OneTurn!Next, OneTurn!Report
<1>6. CASE FinishRecord(t)
  <2>1. pc[t] = "finish:record" /\ pc'[t] = "finish:event"
    BY <1>6, Actors DEF FinishRecord, Goto, TypeInv, PcTyped
  <2>2. PhaseAt(pc[t], Aborting(t)) = PhaseAt(pc'[t], Aborting(t)')
    BY <2>1 DEF PhaseAt, RunPoint, Over, WaitPoint
  <2> QED
    BY <1>1, <1>2, <2>2, PointMoves
<1>7. CASE FinishClear(t) \/ FinishIdle(t) \/ FinishWake(t)
  <2>1. pc[t] \in Over /\ pc'[t] \in Over \cup {"done"}
    BY <1>7, Actors
    DEF FinishClear, FinishIdle, FinishWake, Goto, TypeInv, PcTyped, Over, LoopInv,
        StartsOnly
  <2>2. ~Aborting(t)
    BY <1>3, <2>1 DEF Over, RunPoint
  <2>3. PhaseAt(pc[t], Aborting(t)) = PhaseAt(pc'[t], Aborting(t)')
    BY <1>2, <2>1, <2>2 DEF PhaseAt, RunPoint, Over, WaitPoint
  <2> QED
    BY <1>1, <1>2, <2>3, PointMoves
<1> QED
  BY <1>4, <1>5, <1>6, <1>7 DEF FinishStep

-----------------------------------------------------------------------------
(* Every step of the session is a step of the contract, or none.           *)
LEMMA PhaseStep ==
  ASSUME LoopStartsAlone, TypeInv, LoopInv, LoopInv', [Next]_vars
  PROVE  [OneTurn!Next]_[v \in Turn |-> PhaseOf(v)]
<1>1. CASE UNCHANGED vars
  <2>1. \A u \in Turn : pc'[u] = pc[u] /\ (Aborting(u)' <=> Aborting(u))
    BY <1>1 DEF vars, Aborting
  <2> QED
    BY <2>1, PointsStay
<1>2. CASE \E o \in todo : Request(o)
  BY <1>2, RequestPhases
<1>3. CASE LoopStep
  BY <1>3, Actors, LoopRoutedPhases, AbortTakePhases, AbortsPhases,
     AbortEventPhases, StartPhases
  DEF LoopStep
<1>4. CASE StartStep(Ext)
  BY <1>4, Actors, StartPhases
<1>5. ASSUME NEW t \in Turn, TaskStep(t)
      PROVE  [OneTurn!Next]_[u \in Turn |-> PhaseOf(u)]
  BY <1>5, Actors, RunPhases, FinishPhases, StartPhases DEF TaskStep
<1> QED
  BY <1>1, <1>2, <1>3, <1>4, <1>5 DEF Next

(* A session starts with every turn waiting.                               *)
LEMMA PhaseInit ==
  ASSUME LoopInv, Init
  PROVE  OneTurn!Init
<1>1. \A t \in Turn : pc[t] = "unused"
  BY Actors DEF Init
<1>2. \A t \in Turn : PhaseOf(t) = "waiting"
  BY <1>1, PhaseByPoint DEF PhaseAt, WaitPoint, RunPoint, Over
<1> QED
  BY <1>2 DEF OneTurn!Init

(* The session implements OneTurnAtATime: whatever the users, the agents   *)
(* and the tasks do, in whatever order, one turn works at any time, none   *)
(* that has stopped works again, and each end is reported once, after the  *)
(* turn has stopped (start_task, abort_all_tasks, on_task_finished).       *)
THEOREM OneTurnWorks ==
  ASSUME LoopStartsAlone
  PROVE  Spec => TurnsOneAtATime
<1>1. Init => OneTurn!Init
  BY PhaseInit, SlotInit
<1>2. TypeInv /\ LoopInv /\ LoopInv' /\ [Next]_vars
        => [OneTurn!Next]_[t \in Turn |-> PhaseOf(t)]
  BY PhaseStep
<1> QED
  BY <1>1, <1>2, TypeInvariance, LoopInvariance, PTL
  DEF Spec, OneTurn!Spec, TurnsOneAtATime

-----------------------------------------------------------------------------
(***************************************************************************)
(* Reserved sessions: no request starts a turn without reserving the slot, *)
(* and none aborts one, as in a session that only the mail of other agents *)
(* and its goal drive.  Every turn is then started by somebody who has     *)
(* reserved the slot for it, so the slot is the lock:                      *)
(* maybe_start_turn_for_pending_work_with_sub_id and                       *)
(* try_start_turn_if_idle reserve it, start_task installs the task or      *)
(* clear_reserved_idle_turn gives it back, and on_task_finished gives it   *)
(* up.  ReservedInv is the invariant of these sessions: nobody aborts,     *)
(* whoever starts a turn holds the slot (StarterHoldsSlot), a task that    *)
(* runs is the one in it (TaskHoldsSlot), and its turn has ended when it   *)
(* is past its terminal event (EndsAfter).                                 *)
(***************************************************************************)
(* The requests that start a turn unreserved, or abort the one in the slot.*)
UnreservedOp == {"UserInput", "Interrupt", "Compact", "Shell", "Review", "Shutdown"}

(* A session without such requests.                                        *)
StartsReserve == \A o \in todo : o.op \notin UnreservedOp

(* Points of an actor between its reservation and the end of its start, of *)
(* one that looks for pending work, and of one that looks for a free slot. *)
Starts == StartPoint \cup TryPoint
Asks   == {"maybe:check", "maybe:reserve"}
Tries  == {"try:check", "try:reserve"}

(* A task past its terminal event, whatever it starts next.                *)
Past == {"done", "finish:clear", "finish:idle", "finish:wake"} \cup Asks \cup Tries \cup Starts

(* Nobody aborts or spawns unreserved; every actor returns where it may.   *)
ReservedControl ==
    /\ pc[Loop] \in {"idle"} \cup Asks \cup StartPoint /\ call[Loop].ret = "idle"
    /\ pc[Ext] \in {"idle"} \cup Asks \cup Tries \cup Starts /\ call[Ext].ret = "idle"
    /\ \A t \in Turn :
         /\ pc[t] \in {"unused", "queued", "rejected", "finish:record", "finish:event"}
                      \cup RunPoint \cup Past
         /\ pc[t] \in Asks \cup Tries \cup Starts => call[t].ret \in {"done", "finish:wake"}

StarterHoldsSlot ==
    /\ \A a, b \in Actor : pc[a] \in Starts /\ pc[b] \in Starts => a = b
    /\ \A a \in Actor : pc[a] \in Starts => Reserved(a) /\ pc[call[a].turn] = "queued"
    /\ \A t \in Turn : pc[t] = "queued" => ~task[t].cancelled

TaskHoldsSlot ==
    \A t \in Turn :
        /\ slot.task = t => Running(t)
        /\ Running(t) => slot.task = t /\ slot.ts = <<t, "reserve">> /\ ~task[t].cancelled
        /\ pc[t] \in FinishPoint =>
             /\ slot.task = NoTurn /\ slot.ts = <<t, "reserve">>
             /\ task[t].ts = <<t, "reserve">>

(* A turn has sent its one terminal event when it is past it.              *)
EndsAfter == \A t \in Turn : Ends(t) = IF pc[t] \in Past THEN 1 ELSE 0

(* The invariant of these sessions.                                        *)
ReservedInv ==
    StartsReserve /\ ReservedControl /\ StarterHoldsSlot /\ TaskHoldsSlot /\ EndsAfter

-----------------------------------------------------------------------------
(* One actor goes on without taking or leaving the slot, a turn's task     *)
(* without ending.                                                         *)
LEMMA ReservedFrame ==
  ASSUME TypeInv, ReservedInv, StartsReserve', ReservedControl',
         NEW a \in Actor, \A b \in Actor \ {a} : pc'[b] = pc[b],
         pc'[a] \in Starts => pc[a] \in Starts,
         pc'[a] = "queued" => pc[a] = "queued",
         pc[a] = "queued" => pc'[a] = "queued",
         pc[a] \in RunPoint <=> pc'[a] \in RunPoint,
         a \in Turn => (pc[a] \in Past <=> pc'[a] \in Past),
         pc'[a] \in FinishPoint => pc[a] \in FinishPoint,
         slot' = slot,
         \A b \in Actor : call'[b].turn = call[b].turn,
         \A t \in Turn : Ends(t)' = Ends(t),
         \A t \in Turn : /\ task'[t].cancelled = task[t].cancelled
                         /\ task'[t].ts = task[t].ts
  PROVE  ReservedInv'
<1>1. \A b \in Actor : pc'[b] \in Starts => pc[b] \in Starts
  OBVIOUS
<1>2. StarterHoldsSlot'
  <2>1. \A b, c \in Actor : pc'[b] \in Starts /\ pc'[c] \in Starts => b = c
    BY <1>1 DEF ReservedInv, StarterHoldsSlot
  <2>2. ASSUME NEW b \in Actor, pc'[b] \in Starts
        PROVE  Reserved(b)' /\ pc'[call'[b].turn] = "queued"
    <3>1. Reserved(b) /\ pc[call[b].turn] = "queued"
      BY <1>1, <2>2 DEF ReservedInv, StarterHoldsSlot
    <3>2. call[b].turn \in Actor
      BY <1>1, <2>2, Actors DEF TypeInv, StartKnows, Starts
    <3>3. pc'[call[b].turn] = "queued"
      BY <3>1, <3>2
    <3> QED
      BY <3>1, <3>3 DEF Reserved
  <2>3. \A t \in Turn : pc'[t] = "queued" => ~task'[t].cancelled
    BY Actors DEF ReservedInv, StarterHoldsSlot
  <2> QED
    BY <2>1, <2>2, <2>3 DEF StarterHoldsSlot
<1>3. TaskHoldsSlot'
  <2>1. \A t \in Turn : (Running(t)' <=> Running(t))
    BY Actors DEF Running
  <2>2. \A t \in Turn : pc'[t] \in FinishPoint => pc[t] \in FinishPoint
    BY Actors
  <2> QED
    BY <2>1, <2>2 DEF ReservedInv, TaskHoldsSlot
<1>4. EndsAfter'
  <2>1. \A t \in Turn : pc'[t] \in Past <=> pc[t] \in Past
    BY Actors
  <2> QED
    BY <2>1 DEF ReservedInv, EndsAfter
<1> QED
  BY <1>2, <1>3, <1>4 DEF ReservedInv

(* Who starts a turn holds the slot alone: no task is in it, and none is   *)
(* about to leave it.                                                      *)
LEMMA StarterAlone ==
  ASSUME TypeInv, ReservedInv, NEW a \in Actor, pc[a] \in Starts
  PROVE  /\ slot.task = NoTurn /\ slot.ts = <<call[a].turn, "reserve">>
         /\ call[a].turn \in Turn /\ call[a].turn # a /\ pc[call[a].turn] = "queued"
         /\ slot # NoSlot
         /\ \A b \in Actor \ {a} : pc[b] \notin Starts
         /\ \A t \in Turn : ~Running(t) /\ pc[t] \notin FinishPoint
<1>1. call[a].turn \in Turn
  BY DEF TypeInv, StartKnows, Starts
<1>2. Reserved(a) /\ pc[call[a].turn] = "queued"
  BY DEF ReservedInv, StarterHoldsSlot
<1>3. slot.task = NoTurn /\ slot.ts = <<call[a].turn, "reserve">>
  BY <1>2 DEF Reserved
<1>4. call[a].turn # a
  BY <1>2 DEF Starts, StartPoint, TryPoint
<1>5. slot # NoSlot
  BY <1>1, <1>3, Actors DEF NoSlot, NoTurnState
<1>6. \A b \in Actor \ {a} : pc[b] \notin Starts
  BY DEF ReservedInv, StarterHoldsSlot
<1>7. ASSUME NEW t \in Turn PROVE ~Running(t) /\ pc[t] \notin FinishPoint
  <2>1. ~Running(t)
    BY <1>3, Actors DEF ReservedInv, TaskHoldsSlot
  <2>2. CASE pc[t] \in FinishPoint
    <3>1. slot.ts = <<t, "reserve">>
      BY <2>2 DEF ReservedInv, TaskHoldsSlot
    <3>2. t = call[a].turn
      BY <1>3, <3>1
    <3> QED
      BY <1>2, <2>2, <3>2 DEF FinishPoint
  <2> QED
    BY <2>1, <2>2
<1> QED
  BY <1>1, <1>2, <1>3, <1>4, <1>5, <1>6, <1>7

(* A free slot is nobody's: nobody starts a turn, and no task is in it or  *)
(* about to leave it.                                                      *)
LEMMA FreeSlot ==
  ASSUME TypeInv, ReservedInv, slot = NoSlot
  PROVE  /\ \A a \in Actor : pc[a] \notin Starts
         /\ \A t \in Turn : ~Running(t) /\ pc[t] \notin FinishPoint
<1>1. \A a \in Actor : pc[a] \notin Starts
  BY StarterAlone
<1>2. ASSUME NEW t \in Turn PROVE ~Running(t) /\ pc[t] \notin FinishPoint
  <2>1. slot.task = NoTurn /\ slot.ts # <<t, "reserve">>
    BY Actors DEF NoSlot, NoTurnState
  <2> QED
    BY <2>1, Actors DEF ReservedInv, TaskHoldsSlot
<1> QED
  BY <1>1, <1>2

(* Where an actor that is in a start returns to.                           *)
LEMMA StartReturns ==
  ASSUME TypeInv, ReservedInv, NEW a \in Actor, pc[a] \in Asks \cup Tries \cup Starts
  PROVE  /\ a \in Turn => call[a].ret \in {"done", "finish:wake"}
         /\ a \notin Turn => call[a].ret = "idle"
         /\ a = Loop => pc[a] \notin Tries \cup TryPoint
BY DEF ReservedInv, ReservedControl, Actor, Asks, Tries, Starts, StartPoint, TryPoint

(* Points of the actors after one of them, in a start, has gone on.        *)
LEMMA ControlGoes ==
  ASSUME TypeInv, ReservedInv, NEW a \in Actor,
         pc[a] \in Asks \cup Tries \cup Starts,
         pc'[a] \in Asks \cup Starts \cup {"try:reserve", call[a].ret},
         a = Loop => pc'[a] \notin Tries \cup TryPoint,
         \A b \in Actor \ {a} :
             pc'[b] = pc[b] \/ (b \in Turn /\ pc'[b] \in {"queued", "rejected", "begin"}),
         \A b \in Actor : call'[b].ret = call[b].ret
  PROVE  ReservedControl'
<1> USE DEF Asks, Tries, Starts, StartPoint, TryPoint
<1>1. pc'[Loop] \in {"idle"} \cup Asks \cup StartPoint /\ call'[Loop].ret = "idle"
  BY StartReturns, Actors DEF ReservedInv, ReservedControl
<1>2. pc'[Ext] \in {"idle"} \cup Asks \cup Tries \cup Starts /\ call'[Ext].ret = "idle"
  BY StartReturns, Actors DEF ReservedInv, ReservedControl
<1>3. ASSUME NEW t \in Turn
      PROVE  /\ pc'[t] \in {"unused", "queued", "rejected", "finish:record", "finish:event"}
                           \cup RunPoint \cup Past
             /\ pc'[t] \in Asks \cup Tries \cup Starts => call'[t].ret \in {"done", "finish:wake"}
  <2>1. CASE t = a
    BY <2>1, StartReturns DEF Past
  <2>2. CASE t # a
    BY <2>2, Actors DEF ReservedInv, ReservedControl, RunPoint, Past
  <2> QED
    BY <2>1, <2>2
<1> QED
  BY <1>1, <1>2, <1>3 DEF ReservedControl

(* The slot is free, and an actor reserves it for a new turn.              *)
LEMMA ReservedTaken ==
  ASSUME TypeInv, ReservedInv, StartsReserve', NEW a \in Actor, NEW p \in {"start:take", "try:recheck"},
         pc[a] \in {"maybe:reserve", "try:reserve"}, p = "try:recheck" => pc[a] = "try:reserve",
         NEW t \in Turn, NewTurn(a, t, "Regular", {}, p),
         slot = NoSlot, slot' = [NoSlot EXCEPT !.ts = <<t, "reserve">>],
         UNCHANGED sent
  PROVE  ReservedInv'
<1>0. pc[t] = "unused" /\ t # a
  BY DEF NewTurn, FreshTurn
<1>1. /\ pc'[t] = "queued" /\ pc'[a] = p
      /\ \A b \in Actor \ {a, t} : pc'[b] = pc[b]
      /\ call'[a].turn = t
      /\ \A b \in Actor : call'[b].ret = call[b].ret
      /\ \A b \in Actor \ {a} : call'[b].turn = call[b].turn
  BY <1>0, TurnTaken
<1>2. slot'.task = NoTurn /\ slot'.ts = <<t, "reserve">>
  BY DEF NoSlot
<1>3. /\ \A b \in Actor : pc[b] \notin Starts
      /\ \A u \in Turn : ~Running(u) /\ pc[u] \notin FinishPoint
  BY FreeSlot
<1>4. ~task'[t].cancelled /\ \A u \in Turn \ {t} : task'[u] = task[u]
  BY DEF NewTurn, NewTask, TypeInv, TaskTyped
<1>5. ReservedControl'
  <2>1. /\ pc[a] \in Asks \cup Tries \cup Starts
        /\ pc'[a] \in Asks \cup Starts \cup {"try:reserve", call[a].ret}
    BY <1>1 DEF Asks, Tries, Starts, StartPoint, TryPoint
  <2>2. a = Loop => pc'[a] \notin Tries \cup TryPoint
    BY <1>1, <2>1, StartReturns DEF Tries, TryPoint
  <2>3. \A b \in Actor \ {a} :
          pc'[b] = pc[b] \/ (b \in Turn /\ pc'[b] \in {"queued", "rejected", "begin"})
    BY <1>1
  <2> QED
    BY <1>1, <2>1, <2>2, <2>3, ControlGoes
<1>6. StarterHoldsSlot'
  <2>1. \A b \in Actor : pc'[b] \in Starts => b = a
    BY <1>1, <1>3 DEF Starts, StartPoint, TryPoint
  <2>2. Reserved(a)' /\ pc'[call'[a].turn] = "queued"
    BY <1>1, <1>2 DEF Reserved
  <2>3. \A u \in Turn : pc'[u] = "queued" => ~task'[u].cancelled
    BY <1>1, <1>4, Actors DEF ReservedInv, StarterHoldsSlot
  <2> QED
    BY <2>1, <2>2, <2>3 DEF StarterHoldsSlot
<1>7. TaskHoldsSlot'
  <2>1. \A u \in Turn : pc'[u] \notin RunPoint \cup FinishPoint
    BY <1>1, <1>3, Actors DEF Running, RunPoint, FinishPoint
  <2> QED
    BY <1>2, <2>1, Actors DEF TaskHoldsSlot, Running
<1>8. EndsAfter'
  <2>1. \A u \in Turn : Ends(u)' = Ends(u)
    BY DEF Ends
  <2>2. \A u \in Turn : pc'[u] \in Past <=> pc[u] \in Past
    BY <1>0, <1>1, Actors DEF Past, Starts, StartPoint, TryPoint, Asks, Tries
  <2> QED
    BY <2>1, <2>2 DEF ReservedInv, EndsAfter
<1> QED
  BY <1>5, <1>6, <1>7, <1>8 DEF ReservedInv

(* The reservation is given up: the slot is free again.                    *)
LEMMA ReservedGivenUp ==
  ASSUME TypeInv, ReservedInv, NEW a \in Actor, pc[a] \in TryPoint,
         NEW p, p \in {"maybe:check", call[a].ret},
         GiveUpReservation(a, p)
  PROVE  ReservedInv'
<1> DEFINE t == call[a].turn
<1>0. /\ Reserved(a) /\ t \in Turn /\ t # a /\ pc[t] = "queued"
      /\ \A b \in Actor \ {a} : pc[b] \notin Starts
      /\ \A u \in Turn : ~Running(u) /\ pc[u] \notin FinishPoint
  BY StarterAlone DEF Starts, Reserved
<1>1. /\ pc'[t] = "rejected" /\ pc'[a] = p
      /\ \A b \in Actor \ {a, t} : pc'[b] = pc[b]
      /\ \A b \in Actor : call'[b].ret = call[b].ret
      /\ UNCHANGED todo
  BY <1>0, GivenUp
<1>2. slot' = NoSlot /\ UNCHANGED <<task, sent>>
  BY <1>0 DEF GiveUpReservation
<1>p. p \notin Tries \cup Starts \cup RunPoint \cup FinishPoint /\ p # "queued"
      /\ (a \in Turn => p \in Past)
  BY StartReturns, Zenon DEF Asks, Tries, Starts, StartPoint, TryPoint, RunPoint, FinishPoint, Past, Actor
<1> HIDE DEF t
<1>3. ReservedControl'
  <2>1. /\ pc[a] \in Asks \cup Tries \cup Starts
        /\ pc'[a] \in Asks \cup Starts \cup {"try:reserve", call[a].ret}
    BY <1>1 DEF Asks, Starts
  <2>2. a = Loop => pc'[a] \notin Tries \cup TryPoint
    BY <1>1, <1>p DEF Starts
  <2>3. \A b \in Actor \ {a} :
          pc'[b] = pc[b] \/ (b \in Turn /\ pc'[b] \in {"queued", "rejected", "begin"})
    BY <1>0, <1>1
  <2> QED
    BY <1>1, <2>1, <2>2, <2>3, ControlGoes
<1>4. StarterHoldsSlot'
  <2>1. \A b \in Actor : pc'[b] \notin Starts
    BY <1>0, <1>1, <1>p, Actors DEF Starts, StartPoint, TryPoint
  <2>2. \A u \in Turn : pc'[u] = "queued" => ~task'[u].cancelled
    BY <1>0, <1>1, <1>2, <1>p, Actors DEF ReservedInv, StarterHoldsSlot
  <2> QED
    BY <2>1, <2>2 DEF StarterHoldsSlot
<1>5. TaskHoldsSlot'
  <2>1. \A u \in Turn : pc'[u] \notin RunPoint \cup FinishPoint
    BY <1>0, <1>1, <1>p, Actors DEF Running, RunPoint, FinishPoint
  <2> QED
    BY <1>2, <2>1, Actors DEF TaskHoldsSlot, Running, NoSlot
<1>6. EndsAfter'
  <2>1. \A u \in Turn : Ends(u)' = Ends(u)
    BY <1>2 DEF Ends
  <2>2. \A u \in Turn : pc'[u] \in Past <=> pc[u] \in Past
    BY <1>0, <1>1, <1>p, Actors DEF Past, Starts, StartPoint, TryPoint, Asks, Tries
  <2> QED
    BY <2>1, <2>2 DEF ReservedInv, EndsAfter
<1>7. StartsReserve'
  BY <1>1 DEF ReservedInv, StartsReserve
<1> QED
  BY <1>3, <1>4, <1>5, <1>6, <1>7 DEF ReservedInv

(* start_task installs the turn in the slot that was reserved for it.      *)
LEMMA ReservedInstalled ==
  ASSUME TypeInv, ReservedInv, NEW a \in Actor, StartInstall(a)
  PROVE  ReservedInv'
<1>s. pc[a] \in Starts /\ pc[a] = "start:install"
  BY DEF StartInstall, Starts, StartPoint
<1>t. call[a].turn \in Turn
  BY <1>s, StarterAlone
<1> PICK t \in Turn : t = call[a].turn
  BY <1>t
<1>0. /\ slot.task = NoTurn /\ slot.ts = <<t, "reserve">> /\ slot # NoSlot
      /\ t # a /\ pc[t] = "queued"
      /\ \A b \in Actor \ {a} : pc[b] \notin Starts
      /\ \A u \in Turn : ~Running(u) /\ pc[u] \notin FinishPoint
  BY <1>s, StarterAlone
<1>1. /\ pc'[a] = call[a].ret /\ pc'[t] = "begin"
      /\ \A b \in Actor \ {a, t} : pc'[b] = pc[b]
  BY <1>0, Actors DEF StartInstall
<1>2. /\ slot'.task = t /\ slot'.ts = slot.ts /\ UNCHANGED <<todo, task, sent>>
      /\ \A b \in Actor : call'[b].ret = call[b].ret
  BY <1>0 DEF StartInstall, TypeInv, CallTyped, CallType
<1>p. /\ call[a].ret \notin Tries \cup Starts \cup RunPoint \cup FinishPoint
      /\ call[a].ret # "queued"
      /\ (a \in Turn => call[a].ret \in Past)
  BY <1>s, StartReturns, Zenon
  DEF Asks, Tries, Starts, StartPoint, TryPoint, RunPoint, FinishPoint, Past, Actor
<1>3. ReservedControl'
  <2>1. /\ pc[a] \in Asks \cup Tries \cup Starts
        /\ pc'[a] \in Asks \cup Starts \cup {"try:reserve", call[a].ret}
    BY <1>1, <1>s
  <2>2. a = Loop => pc'[a] \notin Tries \cup TryPoint
    BY <1>1, <1>p DEF Starts
  <2>3. \A b \in Actor \ {a} :
          pc'[b] = pc[b] \/ (b \in Turn /\ pc'[b] \in {"queued", "rejected", "begin"})
    BY <1>1
  <2> QED
    BY <1>2, <2>1, <2>2, <2>3, ControlGoes
<1>4. StarterHoldsSlot'
  <2>1. \A b \in Actor : pc'[b] \notin Starts
    BY <1>0, <1>1, <1>p, Actors DEF Starts, StartPoint, TryPoint
  <2>2. \A u \in Turn : pc'[u] = "queued" => ~task'[u].cancelled
    BY <1>0, <1>1, <1>2, <1>p, Actors DEF ReservedInv, StarterHoldsSlot
  <2> QED
    BY <2>1, <2>2 DEF StarterHoldsSlot
<1>5. TaskHoldsSlot'
  <2>1. \A u \in Turn : pc'[u] \notin FinishPoint /\ (pc'[u] \in RunPoint <=> u = t)
    BY <1>0, <1>1, <1>p, Actors DEF Running, RunPoint, FinishPoint
  <2>2. ~task'[t].cancelled
    BY <1>0, <1>2 DEF ReservedInv, StarterHoldsSlot
  <2> QED
    BY <1>0, <1>2, <2>1, <2>2, Actors DEF TaskHoldsSlot, Running
<1>6. EndsAfter'
  <2>1. \A u \in Turn : Ends(u)' = Ends(u)
    BY <1>2 DEF Ends
  <2>2. \A u \in Turn : pc'[u] \in Past <=> pc[u] \in Past
    BY <1>0, <1>1, <1>s, <1>p, Actors DEF Past, Starts, StartPoint, TryPoint, Asks, Tries
  <2> QED
    BY <2>1, <2>2 DEF ReservedInv, EndsAfter
<1>7. StartsReserve'
  BY <1>2 DEF ReservedInv, StartsReserve
<1> QED
  BY <1>3, <1>4, <1>5, <1>6, <1>7 DEF ReservedInv

(* Requests queue mail, steer or inject, or send an actor to look.         *)
LEMMA ReservedRequests ==
  ASSUME TypeInv, ReservedInv, NEW o \in todo, Request(o)
  PROVE  ReservedInv'
<1>1. StartsReserve'
  BY Asked DEF ReservedInv, StartsReserve, UnreservedOp
<1>2. o.op \notin UnreservedOp
  BY DEF ReservedInv, StartsReserve
<1>3. \/ Steer(o) \/ CancelSteer(o) \/ Inject(o) \/ LoopMail(o) \/ LoopStage(o)
      \/ LoopRelease(o) \/ LoopStartPendingWork(o) \/ ExtIdleStart(o)
  BY <1>2 DEF Request, LoopUserInput, LoopSpawn, LoopInterrupt, UnreservedOp, TaskKind
<1>4. /\ UNCHANGED <<slot, task, sent>>
      /\ \A b \in Actor : call'[b].turn = call[b].turn
  BY <1>3 DEF Steer, CancelSteer, Inject, LoopMail, LoopStage, LoopRelease,
              LoopStartPendingWork, ExtIdleStart, TypeInv, CallTyped, CallType
<1>5. \A t \in Turn : Ends(t)' = Ends(t)
  BY <1>4 DEF Ends
<1>6. CASE Steer(o) \/ CancelSteer(o) \/ Inject(o) \/ LoopStage(o) \/ LoopRelease(o)
  <2>1. UNCHANGED <<pc, call>>
    BY <1>6 DEF Steer, CancelSteer, Inject, LoopStage, LoopRelease
  <2>2. ReservedControl'
    BY <2>1 DEF ReservedInv, ReservedControl
  <2> QED
    BY <1>1, <1>4, <1>5, <2>1, <2>2, Actors, ReservedFrame
<1>7. CASE LoopMail(o) \/ LoopStartPendingWork(o)
  <2>1. /\ pc[Loop] = "idle" /\ call'[Loop].ret = "idle"
        /\ \A b \in Actor \ {Loop} : call'[b].ret = call[b].ret
        /\ \E p \in {"maybe:check", "idle"} : Goto(Loop, p)
    BY <1>7, Actors DEF LoopMail, LoopStartPendingWork, TypeInv, CallTyped, CallType
  <2>2. pc'[Loop] \in {"maybe:check", "idle"} /\ \A b \in Actor \ {Loop} : pc'[b] = pc[b]
    BY <2>1, Went, Actors
  <2>3. ReservedControl'
    BY <2>1, <2>2, Actors DEF ReservedInv, ReservedControl, Asks
  <2>4. /\ pc[Loop] \notin Starts \cup RunPoint \cup FinishPoint \cup {"queued"}
        /\ pc'[Loop] \notin Starts \cup RunPoint \cup FinishPoint \cup {"queued"}
    BY <2>1, <2>2 DEF Starts, StartPoint, TryPoint, RunPoint, FinishPoint
  <2> QED
    BY <1>1, <1>4, <1>5, <2>1, <2>2, <2>3, <2>4, Actors, ReservedFrame
<1>8. CASE ExtIdleStart(o)
  <2>1. /\ pc[Ext] = "idle" /\ \A b \in Actor : call'[b].ret = call[b].ret
        /\ Goto(Ext, "try:check")
    BY <1>8 DEF ExtIdleStart, TypeInv, CallTyped, CallType
  <2>2. pc'[Ext] = "try:check" /\ \A b \in Actor \ {Ext} : pc'[b] = pc[b]
    BY <2>1, Went, Actors
  <2>3. ReservedControl'
    BY <2>1, <2>2, Actors DEF ReservedInv, ReservedControl, Tries
  <2>4. /\ pc[Ext] \notin Starts \cup RunPoint \cup FinishPoint \cup {"queued"}
        /\ pc'[Ext] \notin Starts \cup RunPoint \cup FinishPoint \cup {"queued"}
    BY <2>1, <2>2 DEF Starts, StartPoint, TryPoint, RunPoint, FinishPoint
  <2> QED
    BY <1>1, <1>4, <1>5, <2>1, <2>2, <2>3, <2>4, Actors, ReservedFrame
<1> QED
  BY <1>3, <1>6, <1>7, <1>8

(* A step of a start: it goes on, reserves, gives up or installs.          *)
LEMMA ReservedStarts ==
  ASSUME TypeInv, ReservedInv, NEW a \in Actor, StartStep(a)
  PROVE  ReservedInv'
<1> USE DEF Asks, Tries, Starts, StartPoint, TryPoint
<1>g. ASSUME NEW p \in {"maybe:check", call[a].ret}, pc[a] \in TryPoint, GiveUpReservation(a, p)
      PROVE  ReservedInv'
  BY <1>g, ReservedGivenUp
(* steps that leave the slot as it is *)
<1>f. ASSUME NEW p, Goto(a, p), UNCHANGED <<todo, task, sent>>, slot' = slot,
             pc[a] \in Asks \cup Tries \cup Starts,
             \/ p \in Asks \cup {"try:reserve", call[a].ret}
             \/ p \in Starts /\ pc[a] \in Starts,
             p \in {"try:reserve"} \cup TryPoint => pc[a] \in Tries \cup TryPoint,
             p \in Starts <=> pc[a] \in Starts,
             \A b \in Actor : call'[b].turn = call[b].turn /\ call'[b].ret = call[b].ret
      PROVE  ReservedInv'
  <2>1. pc'[a] = p /\ \A b \in Actor \ {a} : pc'[b] = pc[b]
    BY <1>f, Went
  <2>2. a = Loop => pc'[a] \notin Tries \cup TryPoint
    BY <1>f, <2>1, StartReturns
  <2>3. ReservedControl'
    BY <1>f, <2>1, <2>2, ControlGoes
  <2>4. StartsReserve'
    BY <1>f DEF ReservedInv, StartsReserve
  <2>5. \A t \in Turn : Ends(t)' = Ends(t)
    BY <1>f DEF Ends
  <2>6. /\ pc[a] \notin RunPoint \cup FinishPoint \cup {"queued"}
        /\ p \notin RunPoint \cup FinishPoint \cup {"queued"}
        /\ a \in Turn => pc[a] \in Past /\ p \in Past
    BY <1>f, StartReturns DEF RunPoint, FinishPoint, Past, Actor
  <2> QED
    BY <1>f, <2>1, <2>3, <2>4, <2>5, <2>6, ReservedFrame
<1>1. CASE MaybeCheck(a) \/ TryCheck(a)
  <2>1. /\ pc[a] \in {"maybe:check", "try:check"} /\ UNCHANGED <<todo, task, sent, slot>>
        /\ \A b \in Actor : call'[b].turn = call[b].turn /\ call'[b].ret = call[b].ret
        /\ \E p \in {"maybe:reserve", "try:reserve", call[a].ret} :
             Goto(a, p) /\ (p = "try:reserve" => pc[a] = "try:check")
    BY <1>1, StartReturns DEF MaybeCheck, TryCheck, Return, TypeInv, CallTyped, CallType
  <2>2. call[a].ret \notin Starts \cup Tries \cup Asks
    BY <2>1, StartReturns
  <2> QED
    BY <1>f, <2>1, <2>2
<1>2. CASE MaybeReserve(a) \/ TryReserve(a)
  <2>1. pc[a] \in {"maybe:reserve", "try:reserve"} /\ UNCHANGED <<todo, sent>>
    BY <1>2 DEF MaybeReserve, TryReserve
  <2>2. CASE slot # NoSlot
    <3>1. /\ Goto(a, call[a].ret) /\ UNCHANGED <<slot, task>>
          /\ \A b \in Actor : call'[b].turn = call[b].turn /\ call'[b].ret = call[b].ret
      BY <1>2, <2>2 DEF MaybeReserve, TryReserve, Return, TypeInv, CallTyped, CallType
    <3>2. call[a].ret \notin Starts \cup Tries \cup Asks
      BY <2>1, StartReturns
    <3> QED
      BY <1>f, <2>1, <3>1, <3>2
  <2>3. CASE slot = NoSlot
    <3>1. PICK t \in Turn, p \in {"start:take", "try:recheck"} :
            /\ NewTurn(a, t, "Regular", {}, p)
            /\ slot' = [NoSlot EXCEPT !.ts = <<t, "reserve">>]
            /\ p = "try:recheck" => pc[a] = "try:reserve"
      BY <1>2, <2>3 DEF MaybeReserve, TryReserve
    <3>2. StartsReserve'
      BY <2>1 DEF ReservedInv, StartsReserve
    <3> HIDE DEF Asks, Tries, Starts, StartPoint, TryPoint
    <3> QED
      BY <2>1, <2>3, <3>1, <3>2, ReservedTaken
  <2> QED
    BY <2>2, <2>3
<1>3. CASE StartTake(a) \/ StartAttach(a) \/ TryExtend(a)
  <2>1. /\ pc[a] \in {"start:take", "start:attach", "try:extend"} /\ UNCHANGED <<todo, task, sent>>
        /\ \A b \in Actor : call'[b].turn = call[b].turn /\ call'[b].ret = call[b].ret
        /\ \E p \in StartPoint : Goto(a, p)
    BY <1>3 DEF StartTake, StartAttach, TryExtend, TypeInv, CallTyped, CallType
  <2>2. slot # NoSlot
    BY <2>1, StarterAlone
  <2>3. slot' = slot
    BY <1>3, <2>2 DEF StartTake, StartAttach, TryExtend, DrainPendingInput, TypeInv, SlotTyped, SlotType
  <2> QED
    BY <1>f, <2>1, <2>3
<1>4. CASE TryRecheck(a) \/ TryRoute(a) \/ TryClaim(a)
  <2>1. /\ pc[a] \in TryPoint
        /\ \/ \E p \in {"maybe:check", call[a].ret} : GiveUpReservation(a, p)
           \/ /\ UNCHANGED <<todo, task, sent, slot, call>>
              /\ \E p \in TryPoint : Goto(a, p)
    BY <1>4 DEF TryRecheck, TryRoute, TryClaim
  <2> QED
    BY <1>f, <1>g, <2>1
<1> QED
  BY <1>1, <1>2, <1>3, <1>4, ReservedInstalled DEF StartStep

(* The control points of a task that is no starter.                        *)
LEMMA ControlWorks ==
  ASSUME TypeInv, ReservedInv, NEW t \in Turn,
         \A b \in Actor \ {t} : pc'[b] = pc[b],
         \A b \in Actor \ {t} : call'[b].ret = call[b].ret,
         pc'[t] \in {"finish:record", "finish:event", "finish:clear", "finish:idle",
                     "finish:wake", "try:check", "maybe:check"} \cup RunPoint,
         pc'[t] \in {"try:check", "maybe:check"} => call'[t].ret \in {"done", "finish:wake"}
  PROVE  ReservedControl'
<1>1. /\ pc'[Loop] = pc[Loop] /\ pc'[Ext] = pc[Ext]
      /\ call'[Loop].ret = call[Loop].ret /\ call'[Ext].ret = call[Ext].ret
  BY Actors
<1>2. ASSUME NEW u \in Turn
      PROVE  /\ pc'[u] \in {"unused", "queued", "rejected", "finish:record", "finish:event"}
                           \cup RunPoint \cup Past
             /\ pc'[u] \in Asks \cup Tries \cup Starts => call'[u].ret \in {"done", "finish:wake"}
  <2>1. CASE u = t
    BY <2>1 DEF Past, Asks, Tries, Starts, StartPoint, TryPoint, RunPoint
  <2>2. CASE u # t
    BY <2>2, Actors DEF ReservedInv, ReservedControl
  <2> QED
    BY <2>1, <2>2
<1> QED
  BY <1>1, <1>2 DEF ReservedInv, ReservedControl

(* A running task is not cancelled, so it runs on until it is finished.    *)
LEMMA ReservedRuns ==
  ASSUME TypeInv, ReservedInv, NEW t \in Turn, RunStep(t)
  PROVE  ReservedInv'
<1>1. /\ UNCHANGED <<todo, slot, call>> /\ pc[t] \in RunPoint
      /\ \A a \in Actor \ {t} : pc'[a] = pc[a]
      /\ pc'[t] \in RunPoint \cup {"done"}
  BY RunShape
<1>2. ~task[t].cancelled
  BY <1>1 DEF ReservedInv, TaskHoldsSlot, Running
<1>3. pc'[t] \in RunPoint
  <2>1. CASE TaskCheckCancelled(t)
    BY <1>2, <2>1, Actors DEF TaskCheckCancelled, Goto, TypeInv, PcTyped, RunPoint
  <2>2. CASE TaskStream(t)
    BY <1>1, <2>2 DEF TaskStream
  <2>3. CASE ~TaskCheckCancelled(t) /\ ~TaskStream(t)
    <3>1. PICK p \in RunPoint : Goto(t, p)
      BY <2>3
      DEF RunStep, TaskBegin, TaskWork, TaskPrepare, TaskPrepareFailed, TaskDrain, TaskRecord,
          TaskFollowUp, TaskAnswered, TaskSampleFailed, TaskStop, TaskStopBlocked,
          TaskAfterTurn, RecordInputs, RunPoint
    <3> QED
      BY <3>1, Went, Actors
  <2> QED
    BY <2>1, <2>2, <2>3
<1>4. \A u \in Turn : task'[u].cancelled = task[u].cancelled /\ task'[u].ts = task[u].ts
  BY DEF RunStep, TaskBegin, TaskWork, TaskPrepare, TaskPrepareFailed, TaskDrain, TaskRecord,
         TaskStream, TaskFollowUp, TaskAnswered, TaskSampleFailed, TaskStop, TaskStopBlocked,
         TaskAfterTurn, TaskCheckCancelled, TypeInv, TaskTyped, TaskType
<1>5. \A u \in Turn : Ends(u)' = Ends(u)
  <2>1. CASE TaskBegin(t) \/ TaskWork(t)
    BY <2>1 DEF TaskBegin, TaskWork, Emit, Ends, TypeInv, SentTyped, EventName
  <2>2. CASE ~TaskBegin(t) /\ ~TaskWork(t)
    BY <2>2
    DEF RunStep, TaskPrepare, TaskPrepareFailed, TaskDrain, TaskRecord, TaskStream,
        TaskFollowUp, TaskAnswered, TaskSampleFailed, TaskStop, TaskStopBlocked,
        TaskAfterTurn, TaskCheckCancelled, Ends
  <2> QED
    BY <2>1, <2>2
<1>6. ReservedControl'
  BY <1>1, <1>3, ControlWorks DEF RunPoint
<1>7. StartsReserve'
  BY <1>1 DEF ReservedInv, StartsReserve
<1>8. /\ pc[t] \notin Starts \cup FinishPoint \cup {"queued"} \cup Past
      /\ pc'[t] \notin Starts \cup FinishPoint \cup {"queued"} \cup Past
  BY <1>1, <1>3 DEF RunPoint, Starts, StartPoint, TryPoint, FinishPoint, Past, Asks, Tries
<1> QED
  BY <1>1, <1>3, <1>4, <1>5, <1>6, <1>7, <1>8, Actors, ReservedFrame

(* on_task_finished takes its own task out of the slot ...                 *)
LEMMA ReservedFinishTake ==
  ASSUME TypeInv, ReservedInv, NEW t \in Turn, FinishTake(t)
  PROVE  ReservedInv'
<1>0. /\ pc[t] = "finish:take" /\ slot.task = t /\ slot.ts = <<t, "reserve">>
      /\ slot # NoSlot
  BY Actors DEF FinishTake, ReservedInv, TaskHoldsSlot, Running, RunPoint, NoSlot
<1>1. /\ slot' = [slot EXCEPT !.task = NoTurn] /\ task' = [task EXCEPT ![t].ts = slot.ts]
      /\ Goto(t, "finish:record") /\ UNCHANGED <<todo, call, sent>>
  BY <1>0, Actors DEF FinishTake
<1>2. pc'[t] = "finish:record" /\ \A a \in Actor \ {t} : pc'[a] = pc[a]
  BY <1>1, Went, Actors
<1>3. /\ slot'.task = NoTurn /\ slot'.ts = <<t, "reserve">>
      /\ task'[t].ts = <<t, "reserve">>
      /\ \A u \in Turn : task'[u].cancelled = task[u].cancelled
  BY <1>0, <1>1 DEF TypeInv, SlotTyped, SlotType, TaskTyped, TaskType
<1>4. \A a \in Actor : pc[a] \notin Starts
  BY <1>0, StarterAlone, Actors
<1>5. \A u \in Turn \ {t} : ~Running(u) /\ pc[u] \notin FinishPoint
  BY <1>0, Actors DEF ReservedInv, TaskHoldsSlot
<1>6. ReservedControl'
  BY <1>1, <1>2, ControlWorks
<1>7. StarterHoldsSlot'
  BY <1>2, <1>3, <1>4, Actors
  DEF StarterHoldsSlot, Starts, StartPoint, TryPoint, ReservedInv
<1>8. TaskHoldsSlot'
  <2>1. \A u \in Turn : ~Running(u)' /\ (pc'[u] \in FinishPoint => u = t)
    BY <1>2, <1>5, Actors DEF Running, RunPoint, FinishPoint
  <2> QED
    BY <1>3, <2>1, Actors DEF TaskHoldsSlot
<1>9. EndsAfter'
  <2>1. \A u \in Turn : Ends(u)' = Ends(u)
    BY <1>1 DEF Ends
  <2>2. \A u \in Turn : pc'[u] \in Past <=> pc[u] \in Past
    BY <1>0, <1>2, Actors DEF Past, Starts, StartPoint, TryPoint, Asks, Tries
  <2> QED
    BY <2>1, <2>2 DEF ReservedInv, EndsAfter
<1> QED
  BY <1>1, <1>6, <1>7, <1>8, <1>9 DEF ReservedInv, StartsReserve

(* ... reports the turn over ...                                           *)
LEMMA ReservedFinishEvent ==
  ASSUME TypeInv, ReservedInv, NEW t \in Turn, FinishEvent(t)
  PROVE  ReservedInv'
<1>1. /\ pc[t] = "finish:event" /\ Goto(t, "finish:clear")
      /\ UNCHANGED <<todo, slot, call, task>>
  BY DEF FinishEvent
<1>2. pc'[t] = "finish:clear" /\ \A a \in Actor \ {t} : pc'[a] = pc[a]
  BY <1>1, Went, Actors
<1>3. Ends(t)' = Ends(t) + 1 /\ \A u \in Turn \ {t} : Ends(u)' = Ends(u)
  BY DEF FinishEvent, Emit, Ends, TypeInv, SentTyped, EventName
<1>6. ReservedControl'
  BY <1>1, <1>2, ControlWorks
<1>p. /\ pc[t] \notin Starts \cup RunPoint \cup {"queued"} \cup Past
      /\ pc'[t] \notin Starts \cup RunPoint \cup {"queued"}
      /\ pc[t] \in FinishPoint /\ pc'[t] \in FinishPoint /\ pc'[t] \in Past
  BY <1>1, <1>2 DEF Starts, StartPoint, TryPoint, RunPoint, FinishPoint, Past, Asks, Tries
<1>7. StarterHoldsSlot'
  <2>1. \A a \in Actor : pc'[a] \in Starts => pc[a] \in Starts
    BY <1>2, <1>p
  <2>2. \A a \in Actor : pc'[a] \in Starts => Reserved(a)' /\ pc'[call'[a].turn] = "queued"
    <3> SUFFICES ASSUME NEW a \in Actor, pc'[a] \in Starts
                 PROVE  Reserved(a)' /\ pc'[call'[a].turn] = "queued"
      OBVIOUS
    <3>1. FALSE
      BY <1>p, <2>1, StarterAlone
    <3> QED
      BY <3>1
  <2> QED
    BY <1>1, <1>2, <2>1, <2>2, Actors DEF ReservedInv, StarterHoldsSlot
<1>8. TaskHoldsSlot'
  BY <1>1, <1>2, <1>p, Actors DEF ReservedInv, TaskHoldsSlot, Running
<1>9. EndsAfter'
  <2>1. Ends(t)' = 1
    BY <1>3, <1>p DEF ReservedInv, EndsAfter
  <2> QED
    BY <1>2, <1>3, <1>p, <2>1, Actors DEF ReservedInv, EndsAfter
<1> QED
  BY <1>1, <1>6, <1>7, <1>8, <1>9 DEF ReservedInv, StartsReserve

(* ... and clears the slot, which nobody has taken since.                  *)
LEMMA ReservedFinishClear ==
  ASSUME TypeInv, ReservedInv, NEW t \in Turn, FinishClear(t)
  PROVE  ReservedInv'
<1>0. /\ pc[t] = "finish:clear" /\ slot.task = NoTurn /\ slot.ts = <<t, "reserve">>
      /\ task[t].ts = <<t, "reserve">>
  BY DEF FinishClear, ReservedInv, TaskHoldsSlot, FinishPoint
<1>1. /\ slot' = NoSlot /\ Goto(t, "finish:idle") /\ UNCHANGED <<todo, call, sent>>
      /\ task' = [task EXCEPT ![t] = NewTask(task[t].kind, {})]
  BY <1>0 DEF FinishClear
<1>2. pc'[t] = "finish:idle" /\ \A a \in Actor \ {t} : pc'[a] = pc[a]
  BY <1>1, Went, Actors
<1>3. \A u \in Turn : task'[u].cancelled => task[u].cancelled
  BY <1>1 DEF NewTask, TypeInv, TaskTyped
<1>p. pc[t] \in FinishPoint \cap Past
  BY <1>0 DEF FinishPoint, Past
<1>4. \A a \in Actor : pc[a] \notin Starts
  BY <1>p, StarterAlone
<1>5. \A u \in Turn \ {t} : ~Running(u) /\ pc[u] \notin FinishPoint
  BY <1>0, Actors DEF ReservedInv, TaskHoldsSlot
<1>6. ReservedControl'
  BY <1>1, <1>2, ControlWorks
<1>7. StarterHoldsSlot'
  BY <1>2, <1>3, <1>4, Actors
  DEF StarterHoldsSlot, Starts, StartPoint, TryPoint, ReservedInv
<1>8. TaskHoldsSlot'
  <2>1. \A u \in Turn : ~Running(u)' /\ pc'[u] \notin FinishPoint
    BY <1>2, <1>5, Actors DEF Running, RunPoint, FinishPoint
  <2> QED
    BY <1>1, <2>1, Actors DEF TaskHoldsSlot, NoSlot
<1>9. EndsAfter'
  <2>1. \A u \in Turn : Ends(u)' = Ends(u)
    BY <1>1 DEF Ends
  <2>2. \A u \in Turn : pc'[u] \in Past <=> pc[u] \in Past
    BY <1>0, <1>2, Actors DEF Past
  <2> QED
    BY <2>1, <2>2 DEF ReservedInv, EndsAfter
<1> QED
  BY <1>1, <1>6, <1>7, <1>8, <1>9 DEF ReservedInv, StartsReserve

(* on_task_finished keeps the slot until it gives it up for good.          *)
LEMMA ReservedFinishes ==
  ASSUME TypeInv, ReservedInv, NEW t \in Turn, FinishStep(t)
  PROVE  ReservedInv'
<1>1. CASE FinishRecord(t) \/ FinishIdle(t) \/ FinishWake(t)
  <2>a. /\ UNCHANGED <<slot, task, sent>> /\ todo' \subseteq todo
        /\ pc[t] \in {"finish:record", "finish:idle", "finish:wake"}
    BY <1>1 DEF FinishRecord, FinishIdle, FinishWake, Take
  <2>b. /\ \A b \in Actor : call'[b].turn = call[b].turn
        /\ \A b \in Actor \ {t} : call'[b].ret = call[b].ret
    <3>1. \/ call' = call
          \/ \E x, r : call' = [call EXCEPT ![t].items = x, ![t].ret = r]
          \/ \E r : call' = [call EXCEPT ![t].ret = r]
      BY <1>1 DEF FinishRecord, FinishIdle, FinishWake
    <3>2. ASSUME NEW x, NEW r, call' = [call EXCEPT ![t].items = x, ![t].ret = r]
          PROVE  /\ \A b \in Actor : call'[b].turn = call[b].turn
                 /\ \A b \in Actor \ {t} : call'[b].ret = call[b].ret
      BY <3>2, Actors DEF TypeInv, CallTyped, CallType
    <3>3. ASSUME NEW r, call' = [call EXCEPT ![t].ret = r]
          PROVE  /\ \A b \in Actor : call'[b].turn = call[b].turn
                 /\ \A b \in Actor \ {t} : call'[b].ret = call[b].ret
      BY <3>3, Actors DEF TypeInv, CallTyped, CallType
    <3> QED
      BY <3>1, <3>2, <3>3
  <2>c. \E p \in {"finish:event", "try:check", "finish:wake", "maybe:check"} :
             /\ Goto(t, p)
             /\ p \in {"try:check", "maybe:check"} => call'[t].ret \in {"done", "finish:wake"}
             /\ p = "finish:event" <=> pc[t] = "finish:record"
    <3>1. CASE FinishRecord(t)
      BY <3>1 DEF FinishRecord
    <3>2. CASE FinishIdle(t)
      BY <3>2, Actors DEF FinishIdle, TypeInv, CallTyped, CallType
    <3>3. CASE FinishWake(t)
      BY <3>3, Actors DEF FinishWake, TypeInv, CallTyped, CallType
    <3> QED
      BY <1>1, <3>1, <3>2, <3>3
  <2>1. /\ UNCHANGED <<slot, task, sent>> /\ todo' \subseteq todo
        /\ \A b \in Actor : call'[b].turn = call[b].turn
        /\ \A b \in Actor \ {t} : call'[b].ret = call[b].ret
        /\ pc[t] \in {"finish:record", "finish:idle", "finish:wake"}
    BY <2>a, <2>b
  <2>2. PICK p \in {"finish:event", "try:check", "finish:wake", "maybe:check"} :
             /\ Goto(t, p)
             /\ p \in {"try:check", "maybe:check"} => call'[t].ret \in {"done", "finish:wake"}
             /\ p = "finish:event" <=> pc[t] = "finish:record"
    BY <2>c
  <2>3. pc'[t] = p /\ \A a \in Actor \ {t} : pc'[a] = pc[a]
    BY <2>2, Went, Actors
  <2>4. ReservedControl'
    BY <2>1, <2>2, <2>3, ControlWorks
  <2>5. \A u \in Turn : Ends(u)' = Ends(u)
    BY <2>1 DEF Ends
  <2>6. /\ pc[t] \notin Starts \cup RunPoint \cup {"queued"}
        /\ p \notin Starts \cup RunPoint \cup {"queued"}
        /\ pc[t] \in Past <=> p \in Past
        /\ p \in FinishPoint => pc[t] \in FinishPoint
    BY <2>1, <2>2 DEF Starts, StartPoint, TryPoint, RunPoint, FinishPoint, Past, Asks, Tries
  <2>7. StartsReserve'
    BY <2>1 DEF ReservedInv, StartsReserve
  <2> QED
    BY <2>1, <2>3, <2>4, <2>5, <2>6, <2>7, Actors, ReservedFrame
<1> QED
  BY <1>1, ReservedFinishTake, ReservedFinishEvent, ReservedFinishClear DEF FinishStep

(* A step of a session that only reserves keeps its invariant.             *)
LEMMA ReservedStep ==
  ASSUME TypeInv, ReservedInv, [Next]_vars
  PROVE  ReservedInv'
<1>1. CASE UNCHANGED vars
  <2>1. UNCHANGED <<todo, slot, pc, call, task, sent>>
    BY <1>1 DEF vars
  <2> QED
    BY <2>1 DEF ReservedInv, StartsReserve, ReservedControl, StarterHoldsSlot, Reserved,
                TaskHoldsSlot, Running, EndsAfter, Ends
<1>2. CASE LoopStep
  <2>1. StartStep(Loop)
    BY <1>2 DEF LoopStep, LoopRouted, AbortTake, AbortCancel, AbortKill, AbortEvent, AbortClear,
                ReservedInv, ReservedControl, Asks, StartPoint
  <2> QED
    BY <2>1, ReservedStarts, Actors
<1>3. ASSUME NEW t \in Turn, TaskStep(t) PROVE ReservedInv'
  BY <1>3, ReservedRuns, ReservedFinishes, ReservedStarts, Actors DEF TaskStep
<1> QED
  BY <1>1, <1>2, <1>3, ReservedRequests, ReservedStarts, Actors DEF Next

(* It holds at first.                                                      *)
LEMMA ReservedInit ==
  ASSUME Init, StartsReserve
  PROVE  ReservedInv
<1>1. /\ pc[Loop] = "idle" /\ pc[Ext] = "idle" /\ \A t \in Turn : pc[t] = "unused"
      /\ \A a \in Actor : pc[a] \in {"unused", "idle"} /\ call[a].ret = "idle"
  BY Actors DEF Init
<1>2. slot.task = NoTurn /\ \A t \in Turn : Ends(t) = 0
  BY DEF Init, NoSlot, Ends, EventName
<1>3. ReservedControl
  BY <1>1, Actors DEF ReservedControl, Asks, Tries, Starts, StartPoint, TryPoint
<1>4. StarterHoldsSlot
  BY <1>1 DEF StarterHoldsSlot, Starts, StartPoint, TryPoint
<1>5. TaskHoldsSlot
  BY <1>1, <1>2, Actors DEF TaskHoldsSlot, Running, RunPoint, FinishPoint
<1>6. EndsAfter
  BY <1>1, <1>2 DEF EndsAfter, Past, Asks, Tries, Starts, StartPoint, TryPoint
<1> QED
  BY <1>3, <1>4, <1>5, <1>6 DEF ReservedInv

(* Sessions that only reserve: while a turn is started the slot is kept    *)
(* for it by the reservation of maybe_start_turn_for_pending_work or       *)
(* try_start_turn_if_idle, and while it runs by its own task, whatever     *)
(* other starters, mail and injections come in between.                    *)
THEOREM ReservedInvariance == Spec /\ StartsReserve => []ReservedInv
<1>1. Init /\ StartsReserve => ReservedInv
  BY ReservedInit
<1>2. TypeInv /\ ReservedInv /\ [Next]_vars => ReservedInv'
  BY ReservedStep
<1> QED
  BY <1>1, <1>2, TypeInvariance, PTL DEF Spec

(* In these sessions the task in the slot is one that runs: start_task     *)
(* replaces no running task, and on_task_finished takes out its own.       *)
THEOREM ReservedSlotHoldsTheTask == Spec /\ StartsReserve => []SlotHoldsRunningTask
<1>1. ReservedInv => SlotHoldsRunningTask
  BY DEF ReservedInv, TaskHoldsSlot, SlotHoldsRunningTask
<1> QED
  BY <1>1, ReservedInvariance, PTL

(* In these sessions the debug_assert of start_task holds: nobody starts a *)
(* turn while another one is in the slot, as the reservation is kept until *)
(* start_task or clear_reserved_idle_turn.                                 *)
THEOREM ReservedAssertsHold == Spec /\ StartsReserve => []DebugAssertsHold
<1>1. TypeInv /\ ReservedInv => DebugAssertsHold
  BY StarterAlone DEF DebugAssertsHold, Starts, StartPoint
<1> QED
  BY <1>1, ReservedInvariance, TypeInvariance, PTL

(* In these sessions a turn reports TurnComplete or TurnAborted at most    *)
(* once, and its task is done only when it has (on_task_finished).         *)
THEOREM ReservedTurnsEndOnce == Spec /\ StartsReserve => []OneTerminalEvent
<1>1. ASSUME ReservedInv PROVE OneTerminalEvent
  <2> SUFFICES ASSUME NEW t \in Turn
               PROVE  /\ Ends(t) <= 1
                      /\ pc[t] \in {"done", "killed", "dropped"} => Ends(t) = 1
    BY DEF OneTerminalEvent
  <2>1. Ends(t) = IF pc[t] \in Past THEN 1 ELSE 0
    BY <1>1 DEF ReservedInv, EndsAfter
  <2>2. pc[t] \in {"done", "killed", "dropped"} => pc[t] \in Past
    BY <1>1 DEF ReservedInv, ReservedControl, Past, RunPoint, Asks, Tries, Starts, StartPoint,
                TryPoint
  <2> QED
    BY <2>1, <2>2
<1> QED
  BY <1>1, ReservedInvariance, PTL

-----------------------------------------------------------------------------
(* The points of a turn that has stopped and is not reported yet.          *)
Leaves(p) == p \in {"finish:record", "finish:event"}

(* A turn works while the slot holds its task, and is over once reported.  *)
LEMMA ReservedPhase ==
  ASSUME ReservedInv, NEW t \in Turn
  PROVE  PhaseOf(t) = IF slot.task = t THEN "working"
                      ELSE IF Ends(t) = 1 THEN "over"
                      ELSE IF Leaves(pc[t]) THEN "ending" ELSE "waiting"
<1>1. ~Aborting(t)
  BY DEF ReservedInv, ReservedControl, Aborting, AbortPoint, Asks, StartPoint
<1>2. Running(t) <=> slot.task = t
  BY DEF ReservedInv, TaskHoldsSlot
<1>3. Ends(t) = 1 <=> pc[t] \in Past
  BY DEF ReservedInv, EndsAfter
<1>4. ~Running(t) /\ pc[t] \notin Past =>
        (pc[t] \in {"unused", "queued", "rejected"} <=> ~Leaves(pc[t]))
  BY DEF ReservedInv, ReservedControl, Running, Leaves
<1>5. pc[t] \in WaitPoint => ~Running(t) /\ pc[t] \notin Past
  BY DEF WaitPoint, Running, RunPoint, Past, Asks, Tries, Starts, StartPoint, TryPoint
<1>6. PhaseOf(t) = IF Running(t) THEN "working" ELSE IF Ends(t) = 1 THEN "over"
                   ELSE IF pc[t] \in WaitPoint THEN "waiting" ELSE "ending"
  BY <1>1, <1>3, <1>5 DEF PhaseOf, WaitPoint
<1> QED
  BY <1>2, <1>3, <1>4, <1>6 DEF WaitPoint

(* The same of the next state.                                             *)
LEMMA ReservedPhaseNext ==
  ASSUME ReservedInv', NEW t \in Turn
  PROVE  PhaseOf(t)' = IF slot'.task = t THEN "working"
                       ELSE IF Ends(t)' = 1 THEN "over"
                       ELSE IF Leaves(pc'[t]) THEN "ending" ELSE "waiting"
<1>1. ~Aborting(t)'
  BY DEF ReservedInv, ReservedControl, Aborting, AbortPoint, Asks, StartPoint
<1>2. Running(t)' <=> slot'.task = t
  BY DEF ReservedInv, TaskHoldsSlot
<1>3. Ends(t)' = 1 <=> pc'[t] \in Past
  BY DEF ReservedInv, EndsAfter
<1>4. ~Running(t)' /\ pc'[t] \notin Past =>
        (pc'[t] \in {"unused", "queued", "rejected"} <=> ~Leaves(pc'[t]))
  BY DEF ReservedInv, ReservedControl, Running, Leaves
<1>5. pc'[t] \in WaitPoint => ~Running(t)' /\ pc'[t] \notin Past
  BY DEF WaitPoint, Running, RunPoint, Past, Asks, Tries, Starts, StartPoint, TryPoint
<1>6. PhaseOf(t)' = IF Running(t)' THEN "working" ELSE IF Ends(t)' = 1 THEN "over"
                    ELSE IF pc'[t] \in WaitPoint THEN "waiting" ELSE "ending"
  BY <1>1, <1>3, <1>5 DEF PhaseOf, WaitPoint
<1> QED
  BY <1>2, <1>3, <1>4, <1>6 DEF WaitPoint

(* A step that moves no task into or out of the slot, reports no end.      *)
LEMMA ReservedPhasesStay ==
  ASSUME ReservedInv, ReservedInv', slot'.task = slot.task,
         \A u \in Turn : Ends(u)' = Ends(u) /\ (Leaves(pc'[u]) <=> Leaves(pc[u]))
  PROVE  [OneTurn!Next]_[v \in Turn |-> PhaseOf(v)]
<1>1. \A u \in Turn : PhaseOf(u)' = PhaseOf(u)
  BY ReservedPhase, ReservedPhaseNext
<1> QED
  BY <1>1, PhasesStay

(* A request changes no phase.                                             *)
LEMMA ReservedRequestPhases ==
  ASSUME TypeInv, ReservedInv, ReservedInv', NEW o \in todo, Request(o)
  PROVE  [OneTurn!Next]_[v \in Turn |-> PhaseOf(v)]
<1>1. o.op \notin UnreservedOp
  BY DEF ReservedInv, StartsReserve
<1>2. \/ Steer(o) \/ CancelSteer(o) \/ Inject(o) \/ LoopMail(o) \/ LoopStage(o)
      \/ LoopRelease(o) \/ LoopStartPendingWork(o) \/ ExtIdleStart(o)
  BY <1>1 DEF Request, LoopUserInput, LoopSpawn, LoopInterrupt, UnreservedOp, TaskKind
<1>3. UNCHANGED <<slot, sent>> /\ \A u \in Turn : pc'[u] = pc[u]
  BY <1>2, Actors DEF Steer, CancelSteer, Inject, LoopMail, LoopStage, LoopRelease,
     LoopStartPendingWork, ExtIdleStart, Goto, TypeInv, PcTyped
<1> QED
  BY <1>3, ReservedPhasesStay DEF Ends

(* Of the steps of a start, only the installation of the task does.        *)
LEMMA ReservedStartPhases ==
  ASSUME TypeInv, ReservedInv, ReservedInv', NEW a \in Actor, StartStep(a)
  PROVE  [OneTurn!Next]_[v \in Turn |-> PhaseOf(v)]
<1> DEFINE Stays == slot'.task = slot.task /\ sent' = sent
                    /\ \A u \in Turn : Leaves(pc'[u]) <=> Leaves(pc[u])
<1>1. ASSUME Stays PROVE [OneTurn!Next]_[v \in Turn |-> PhaseOf(v)]
  BY <1>1, ReservedPhasesStay DEF Ends
<1>r. ~Leaves(call[a].ret)
  BY CallFields DEF TypeInv, CallTyped, Leaves
<1>2. CASE StartInstall(a)
  <2>0. pc[a] \in Starts
    BY <1>2 DEF StartInstall, Starts, StartPoint
  <2>t. call[a].turn \in Turn
    BY <2>0, StarterAlone
  <2> PICK t \in Turn : t = call[a].turn
    BY <2>t
  <2>1. slot.task = NoTurn /\ t # a /\ pc[t] = "queued"
    BY <2>0, StarterAlone
  <2>2. slot'.task = t /\ sent' = sent
    BY <1>2 DEF StartInstall
  <2>3. \A u \in Turn \ {t} : Leaves(pc'[u]) <=> Leaves(pc[u])
    BY <1>2, <1>r, <2>1, Actors DEF StartInstall, Leaves
  <2>4. \A u \in Turn : Ends(u)' = Ends(u)
    BY <2>2 DEF Ends
  <2>5. Ends(t) # 1
    BY <2>1 DEF ReservedInv, EndsAfter, Past, Asks, Tries, Starts, StartPoint, TryPoint
  <2>6. \A u \in Turn : PhaseOf(u) # "working"
    BY <2>1, Actors, ReservedPhase
  <2>7. PhaseOf(t) = "waiting" /\ PhaseOf(t)' = "working"
    BY <2>1, <2>2, <2>5, Actors, ReservedPhase, ReservedPhaseNext DEF Leaves
  <2>8. \A u \in Turn \ {t} : PhaseOf(u)' = PhaseOf(u)
    BY <2>1, <2>2, <2>3, <2>4, Actors, ReservedPhase, ReservedPhaseNext
  <2>9. OneTurn!Move(t, "waiting", "working")
    BY <2>7, <2>8, OneMoves
  <2> QED
    BY <2>6, <2>9 DEF OneTurn!Next, OneTurn!Begin
<1>3. CASE ~StartInstall(a)
  <2>1. slot'.task = slot.task /\ sent' = sent
    BY <1>3 DEF StartStep, MaybeCheck, MaybeReserve, StartTake, StartAttach, TryCheck, TryReserve,
       TryRecheck, TryRoute, TryClaim, TryExtend, GiveUpReservation, Reserved, NoSlot, TypeInv,
       SlotTyped, SlotType
  <2>2. ASSUME NEW p, ~Leaves(p), ~Leaves(pc[a]), Goto(a, p)
        PROVE  \A u \in Turn : Leaves(pc'[u]) <=> Leaves(pc[u])
    BY <2>2, Went, Actors
  <2>3. \A u \in Turn : Leaves(pc'[u]) <=> Leaves(pc[u])
    <3>1. CASE MaybeCheck(a) \/ TryCheck(a) \/ StartTake(a) \/ StartAttach(a) \/ TryExtend(a)
      <4>1. /\ ~Leaves(pc[a])
            /\ \E p \in {"maybe:reserve", "try:reserve", "start:attach", "start:install",
                         "start:take", call[a].ret} : Goto(a, p)
        BY <3>1 DEF MaybeCheck, TryCheck, StartTake, StartAttach, TryExtend, Return, Leaves
      <4> QED
        BY <1>r, <2>2, <4>1 DEF Leaves
    <3>2. CASE MaybeReserve(a) \/ TryReserve(a)
      <4>1. ~Leaves(pc[a]) /\ pc[a] # "unused"
        BY <3>2 DEF MaybeReserve, TryReserve, Leaves
      <4>2. \/ Goto(a, call[a].ret)
            \/ \E t \in Turn, p \in {"start:take", "try:recheck"} :
                 NewTurn(a, t, "Regular", {}, p)
        BY <3>2 DEF MaybeReserve, TryReserve, Return
      <4>3. ASSUME NEW t \in Turn, NEW p \in {"start:take", "try:recheck"},
                   NewTurn(a, t, "Regular", {}, p)
            PROVE  \A u \in Turn : Leaves(pc'[u]) <=> Leaves(pc[u])
        <5>1. pc[t] = "unused" /\ t # a
          BY <4>1, <4>3 DEF NewTurn, FreshTurn
        <5>2. /\ pc'[t] = "queued" /\ pc'[a] = p
              /\ \A b \in Actor \ {a, t} : pc'[b] = pc[b]
          BY <4>3, <5>1, TurnTaken
        <5> QED
          BY <4>1, <5>1, <5>2, Actors DEF Leaves
      <4> QED
        BY <1>r, <2>2, <4>1, <4>2, <4>3
    <3>3. CASE TryRecheck(a) \/ TryRoute(a) \/ TryClaim(a)
      <4>1. /\ pc[a] \in TryPoint /\ pc[a] \in Starts /\ ~Leaves(pc[a])
            /\ \/ \E p \in {"maybe:check", call[a].ret} : GiveUpReservation(a, p)
               \/ \E p \in TryPoint : Goto(a, p)
        BY <3>3 DEF TryRecheck, TryRoute, TryClaim, TryPoint, Starts, Leaves
      <4>2. ASSUME NEW p \in {"maybe:check", call[a].ret}, GiveUpReservation(a, p)
            PROVE  \A u \in Turn : Leaves(pc'[u]) <=> Leaves(pc[u])
        <5>1. call[a].turn # a /\ pc[call[a].turn] = "queued"
          BY <4>1, StarterAlone
        <5>2. /\ pc'[call[a].turn] = "rejected" /\ pc'[a] = p
              /\ \A b \in Actor \ {a, call[a].turn} : pc'[b] = pc[b]
          BY <4>1, <4>2, <5>1, GivenUp
        <5> QED
          BY <1>r, <4>1, <5>1, <5>2, Actors DEF Leaves
      <4> QED
        BY <2>2, <4>1, <4>2 DEF TryPoint, Leaves
    <3> QED
      BY <1>3, <3>1, <3>2, <3>3 DEF StartStep
  <2> QED
    BY <1>1, <2>1, <2>3
<1> QED
  BY <1>2, <1>3

(* A task that leaves the slot, or reports its end, moves one phase on.    *)
LEMMA ReservedTaskPhases ==
  ASSUME TypeInv, ReservedInv, ReservedInv', NEW t \in Turn, RunStep(t) \/ FinishStep(t)
  PROVE  [OneTurn!Next]_[v \in Turn |-> PhaseOf(v)]
<1>0. \A u \in Turn \ {t} : pc'[u] = pc[u]
  <2>1. CASE RunStep(t)
    BY <2>1, RunShape, Actors
  <2>2. CASE FinishStep(t)
    <3>1. \E p : Goto(t, p)
      BY <2>2 DEF FinishStep, FinishTake, FinishRecord, FinishEvent, FinishClear, FinishIdle,
                  FinishWake
    <3> QED
      BY <3>1, Went, Actors
  <2> QED
    BY <2>1, <2>2
<1>1. CASE FinishTake(t)
  <2>1. pc[t] = "finish:take" /\ slot.task = t
    BY <1>1, Actors DEF FinishTake, ReservedInv, TaskHoldsSlot, Running, RunPoint
  <2>2. /\ slot'.task = NoTurn /\ sent' = sent /\ pc'[t] = "finish:record"
    BY <1>1, <2>1, Actors DEF FinishTake, Goto, TypeInv, PcTyped, SlotTyped, SlotType
  <2>3. \A u \in Turn : Ends(u)' = Ends(u)
    BY <2>2 DEF Ends
  <2>4. Ends(t) # 1
    BY <2>1 DEF ReservedInv, EndsAfter, Past, Asks, Tries, Starts, StartPoint, TryPoint
  <2>5. PhaseOf(t) = "working" /\ PhaseOf(t)' = "ending"
    BY <2>1, <2>2, <2>3, <2>4, Actors, ReservedPhase, ReservedPhaseNext DEF Leaves
  <2>6. \A u \in Turn \ {t} : PhaseOf(u)' = PhaseOf(u)
    BY <1>0, <2>1, <2>2, <2>3, Actors, ReservedPhase, ReservedPhaseNext
  <2>7. OneTurn!Move(t, "working", "ending")
    BY <2>5, <2>6, OneMoves
  <2> QED
    BY <2>7 DEF OneTurn!Next, OneTurn!Stop
<1>2. CASE FinishEvent(t)
  <2>1. pc[t] = "finish:event" /\ pc'[t] = "finish:clear" /\ slot' = slot
    BY <1>2, Actors DEF FinishEvent, Goto, TypeInv, PcTyped
  <2>2. Ends(t) = 0 /\ Ends(t)' = 1
    BY <2>1 DEF ReservedInv, EndsAfter, Past, Asks, Tries, Starts, StartPoint, TryPoint
  <2>3. \A u \in Turn \ {t} : Ends(u)' = Ends(u)
    BY <1>2 DEF FinishEvent, Emit, Ends, TypeInv, SentTyped
  <2>4. slot.task # t
    BY <2>1 DEF ReservedInv, TaskHoldsSlot, Running, RunPoint
  <2>5. PhaseOf(t) = "ending" /\ PhaseOf(t)' = "over"
    BY <2>1, <2>2, <2>4, ReservedPhase, ReservedPhaseNext DEF Leaves
  <2>6. \A u \in Turn \ {t} : PhaseOf(u)' = PhaseOf(u)
    BY <1>0, <2>1, <2>3, ReservedPhase, ReservedPhaseNext
  <2>7. OneTurn!Move(t, "ending", "over")
    BY <2>5, <2>6, OneMoves
  <2> QED
    BY <2>7 DEF OneTurn!Next, OneTurn!Report
<1>3. CASE RunStep(t)
  <2>1. slot' = slot /\ pc[t] \in RunPoint /\ pc'[t] \in RunPoint \cup {"done"}
    BY <1>3, RunShape
  <2>2. \A u \in Turn : Ends(u)' = Ends(u)
    <3>1. CASE TaskBegin(t) \/ TaskWork(t)
      BY <3>1 DEF TaskBegin, TaskWork, Emit, Ends, TypeInv, SentTyped, EventName
    <3>2. CASE ~TaskBegin(t) /\ ~TaskWork(t)
      BY <1>3, <3>2
      DEF RunStep, TaskPrepare, TaskPrepareFailed, TaskDrain, TaskRecord, TaskStream,
          TaskFollowUp, TaskAnswered, TaskSampleFailed, TaskStop, TaskStopBlocked,
          TaskAfterTurn, TaskCheckCancelled, Ends
    <3> QED
      BY <3>1, <3>2
  <2>3. \A u \in Turn : Leaves(pc'[u]) <=> Leaves(pc[u])
    BY <1>0, <2>1 DEF Leaves, RunPoint
  <2> QED
    BY <2>1, <2>2, <2>3, ReservedPhasesStay
<1>4. CASE FinishRecord(t) \/ FinishClear(t) \/ FinishIdle(t) \/ FinishWake(t)
  <2>1. slot'.task = slot.task /\ sent' = sent
    BY <1>4 DEF FinishRecord, FinishClear, FinishIdle, FinishWake, NoSlot
  <2>2. Leaves(pc'[t]) <=> Leaves(pc[t])
    BY <1>4, Actors DEF FinishRecord, FinishClear, FinishIdle, FinishWake, Goto, TypeInv, PcTyped,
       Leaves
  <2> QED
    BY <1>0, <2>1, <2>2, ReservedPhasesStay DEF Ends
<1> QED
  BY <1>1, <1>2, <1>3, <1>4 DEF FinishStep

(* Every step of the session is one of OneTurnAtATime, or none.            *)
LEMMA ReservedPhaseStep ==
  ASSUME TypeInv, ReservedInv, ReservedInv', [Next]_vars
  PROVE  [OneTurn!Next]_[v \in Turn |-> PhaseOf(v)]
<1>1. CASE UNCHANGED vars
  <2>1. UNCHANGED <<slot, sent, pc>>
    BY <1>1 DEF vars
  <2> QED
    BY <2>1, ReservedPhasesStay DEF Ends
<1>2. CASE LoopStep
  <2>1. StartStep(Loop)
    BY <1>2 DEF LoopStep, LoopRouted, AbortTake, AbortCancel, AbortKill, AbortEvent, AbortClear,
                ReservedInv, ReservedControl, Asks, StartPoint
  <2> QED
    BY <2>1, ReservedStartPhases, Actors
<1>3. ASSUME NEW t \in Turn, TaskStep(t)
      PROVE  [OneTurn!Next]_[v \in Turn |-> PhaseOf(v)]
  BY <1>3, ReservedTaskPhases, ReservedStartPhases, Actors DEF TaskStep
<1> QED
  BY <1>1, <1>2, <1>3, ReservedRequestPhases, ReservedStartPhases, Actors DEF Next

(* Sessions that only reserve implement OneTurnAtATime too: one turn works *)
(* at any time, none that has stopped works again, and each end is         *)
(* reported once, after the turn has stopped (on_task_finished).           *)
THEOREM ReservedTurnsWork == Spec /\ StartsReserve => TurnsOneAtATime
<1>1. ASSUME Init, StartsReserve PROVE OneTurn!Init
  <2>1. ReservedInv
    BY <1>1, ReservedInit
  <2>2. slot.task = NoTurn /\ \A t \in Turn : Ends(t) = 0 /\ pc[t] = "unused"
    <3>1. \A t \in Turn : sent[t]["TurnComplete"] = 0 /\ sent[t]["TurnAborted"] = 0
      BY <1>1 DEF Init, EventName
    <3>2. slot.task = NoTurn /\ \A t \in Turn : pc[t] = "unused"
      BY <1>1, Actors DEF Init, NoSlot
    <3> QED
      BY <3>1, <3>2 DEF Ends
  <2>3. \A t \in Turn : PhaseOf(t) = "waiting"
    <3> SUFFICES ASSUME NEW t \in Turn PROVE PhaseOf(t) = "waiting"
      OBVIOUS
    <3>1. slot.task # t /\ Ends(t) # 1 /\ ~Leaves(pc[t])
      BY <2>2, Actors DEF Leaves
    <3> QED
      BY <2>1, <3>1, ReservedPhase
  <2> QED
    BY <2>3 DEF OneTurn!Init
<1>2. TypeInv /\ ReservedInv /\ ReservedInv' /\ [Next]_vars
        => [OneTurn!Next]_[t \in Turn |-> PhaseOf(t)]
  BY ReservedPhaseStep
<1> QED
  BY <1>1, <1>2, TypeInvariance, ReservedInvariance, PTL
  DEF Spec, OneTurn!Spec, TurnsOneAtATime

-----------------------------------------------------------------------------
(***************************************************************************)
(* The ledger of accepted input, in sessions of either kind. An item is in *)
(* one place (OnePlace); TicketInv says of every place whether an item in  *)
(* it was accepted, and to which turns it may be promised there. A step    *)
(* moves items to one place (Arrive) and leaves the meaning of the others  *)
(* (Settled): what it moves must be promised to the same turns there       *)
(* (Carries).                                                              *)
(***************************************************************************)
(* An item in these places was not accepted yet: its request is still to   *)
(* be served, its turn to be spawned, or its idle start to be decided.     *)
Unaccepted(k, x) ==
    \/ k = "todo"
    \/ k = "task" /\ Unspawned(x)
    \/ k = "call" /\ pc[x] \in Choice

(* An item there may be promised to turn t.                                *)
PromisedTo(k, x, t) ==
    \/ t = NoTurn
    \/ k \in {"task", "recorded"} /\ x = t
    \/ k = "state" /\ x[1] = t /\ pc[t] \notin {"unused", "queued"}

(* An item in a place is accepted, for a turn its place agrees with,       *)
(* unless the place is one of those; and it was not dropped.               *)
Ticketed(i, k, x) ==
    /\ i \notin discarded
    /\ Unaccepted(k, x) => \A t : <<i, t>> \notin accepted
    /\ ~Unaccepted(k, x) => \E t : <<i, t>> \in accepted /\ PromisedTo(k, x, t)

(* An item is accepted for one turn, or for any, and is where it was       *)
(* promised to be.                                                         *)
TicketInv ==
    /\ \A i, t, u : <<i, t>> \in accepted /\ <<i, u>> \in accepted => t = u
    /\ \A i, k, x : At(i, k, x) => Ticketed(i, k, x)

(* Items arrive at place X of kind K only.                                 *)
Arrive(K, X) ==
    /\ todo' \subseteq todo \/ (K = "todo" /\ todo' \subseteq todo \cup {X})
    /\ K = "mailbox" \/ mailbox' \subseteq mailbox
    /\ K = "staged" \/ staged' \subseteq staged
    /\ \A a \in Actor : (K = "call" /\ X = a) \/ call'[a].items \subseteq call[a].items
    /\ \A t \in Turn : (K = "task" /\ X = t) \/ task'[t].items \subseteq task[t].items
    /\ \A ts \in TurnStateId : \/ K = "state" /\ X = ts
                               \/ turnState'[ts].pending \subseteq turnState[ts].pending
    /\ \A i, t : <<i, t>> \in recorded' => \/ K = "recorded" /\ X = t
                                           \/ <<i, t>> \in recorded
    /\ K \in {"mailbox", "staged"} => X = NoTurn

(* The other places keep their meaning.                                    *)
Settled(K, X) ==
    /\ \A a \in Actor : \/ K = "call" /\ X = a
                        \/ call'[a].items = {}
                        \/ pc'[a] \in Choice <=> pc[a] \in Choice
    /\ \A t \in Turn : \/ K = "task" /\ X = t
                       \/ task'[t].items = {}
                       \/ Unspawned(t)' <=> Unspawned(t)
    /\ \A t \in Turn : pc'[t] \in {"unused", "queued"} => pc[t] \in {"unused", "queued"}

(* What may be at place x of kind k may go to place X of kind K.           *)
Carries(k, x, K, X) ==
    /\ Unaccepted(K, X)' <=> Unaccepted(k, x)
    /\ \A t : PromisedTo(k, x, t) => PromisedTo(K, X, t)'

(* An item is where it was, or where items arrive.                         *)
LEMMA ArrivesThere ==
  ASSUME NEW K, NEW X, Arrive(K, X), NEW i, NEW k, NEW x, At(i, k, x)'
  PROVE  At(i, k, x) \/ (k = K /\ x = X)
BY DEF At, Arrive

(* What stays in its place keeps its promise.                              *)
LEMMA TicketsKept ==
  ASSUME TypeInv, NEW K, NEW X, Settled(K, X), NEW i, NEW k, NEW x, At(i, k, x)', 
         ~(k = K /\ x = X)
  PROVE  Carries(k, x, k, x)
<1>1. Unaccepted(k, x)' <=> Unaccepted(k, x)
  BY DEF Unaccepted, Settled, At
<1>2. \A t \in Turn : pc[t] \notin {"unused", "queued"} => pc'[t] \notin {"unused", "queued"}
  BY DEF Settled
<1>3. k = "state" => x[1] \in Turn
  BY DEF At, TurnStateId
<1>4. \A t : PromisedTo(k, x, t) => PromisedTo(k, x, t)'
  BY <1>2, <1>3 DEF PromisedTo
<1> QED
  BY <1>1, <1>4 DEF Carries

(* What is accepted in a step, what moves in it and what is dropped in it  *)
(* keep TicketInv.                                                         *)
LEMMA TicketsMoved ==
  ASSUME TypeInv, OnePlace, OnePlace', TicketInv, NEW K, NEW X, Arrive(K, X), Settled(K, X),
         NEW S, NEW u, accepted' = accepted \cup (S \X {u}),
         \A j \in S : \E k, x : At(j, k, x) /\ Unaccepted(k, x),
         S # {} => ~Unaccepted(K, X)' /\ PromisedTo(K, X, u)',
         \A j \in S : At(j, K, X)',
         \A i : At(i, K, X)' => \/ i \in S
                                \/ \E k, x : At(i, k, x) /\ Carries(k, x, K, X),
         \A i \in discarded' : 
           i \in discarded \/ (~At(i, K, X)' /\ \E k, x : At(i, k, x) /\ ~At(i, k, x)')
  PROVE  TicketInv'
<1>1. ASSUME NEW j \in S PROVE j \notin discarded /\ \A t : <<j, t>> \notin accepted
  BY DEF TicketInv, Ticketed
<1>2. \A i, t, v : <<i, t>> \in accepted' /\ <<i, v>> \in accepted' => t = v
  <2>1. \A i, t : <<i, t>> \in accepted' => <<i, t>> \in accepted \/ (i \in S /\ t = u)
    OBVIOUS
  <2> QED
    BY <1>1, <2>1 DEF TicketInv
<1> SUFFICES ASSUME NEW i, NEW k, NEW x, At(i, k, x)' PROVE Ticketed(i, k, x)'
  BY <1>2 DEF TicketInv
<1>3. i \notin discarded'
  <2> SUFFICES ASSUME i \in discarded' PROVE FALSE
    OBVIOUS
  <2>1. CASE i \in discarded
    <3>1. \A l, y : ~At(i, l, y)
      BY <2>1 DEF TicketInv, Ticketed
    <3>2. k = K /\ x = X
      BY <3>1, ArrivesThere
    <3>3. i \notin S
      BY <1>1, <2>1
    <3> QED
      BY <3>1, <3>2, <3>3
  <2>2. CASE ~At(i, K, X)' /\ \E l, y : At(i, l, y) /\ ~At(i, l, y)'
    <3>1. At(i, k, x)
      BY <2>2, ArrivesThere
    <3> QED
      BY <2>2, <3>1 DEF OnePlace
  <2> QED
    BY <2>1, <2>2
<1>4. CASE i \in S
  <2>1. k = K /\ x = X
    BY <1>4 DEF OnePlace
  <2>2. <<i, u>> \in accepted'
    BY <1>4
  <2> QED
    BY <1>3, <1>4, <2>1, <2>2 DEF Ticketed
<1>5. ASSUME i \notin S, NEW l, NEW y, At(i, l, y), Carries(l, y, k, x)
      PROVE  Ticketed(i, k, x)'
  <2>1. Ticketed(i, l, y)
    BY <1>5 DEF TicketInv
  <2>2. \A t : <<i, t>> \in accepted' <=> <<i, t>> \in accepted
    BY <1>5
  <2>3. CASE Unaccepted(l, y)
    BY <1>3, <1>5, <2>1, <2>2, <2>3 DEF Ticketed, Carries
  <2>4. CASE ~Unaccepted(l, y)
    <3>1. PICK t : <<i, t>> \in accepted /\ PromisedTo(l, y, t)
      BY <2>1, <2>4 DEF Ticketed
    <3>2. <<i, t>> \in accepted' /\ PromisedTo(k, x, t)'
      BY <1>5, <2>2, <3>1 DEF Carries
    <3> QED
      BY <1>3, <1>5, <2>4, <3>2 DEF Ticketed, Carries
  <2> QED
    BY <2>3, <2>4
<1>6. CASE i \notin S /\ k = K /\ x = X
  BY <1>5, <1>6
<1>7. CASE i \notin S /\ ~(k = K /\ x = X)
  <2>1. At(i, k, x)
    BY <1>7, ArrivesThere
  <2> QED
    BY <1>5, <1>7, <2>1, TicketsKept
<1> QED
  BY <1>4, <1>6, <1>7

(* Nothing arrives anywhere.                                               *)
LEMMA TicketsStay ==
  ASSUME TypeInv, OnePlace, OnePlace', TicketInv, Settled("none", "none"),
         todo' \subseteq todo, mailbox' \subseteq mailbox, staged' \subseteq staged,
         recorded' \subseteq recorded,
         \A a \in Actor : call'[a].items \subseteq call[a].items,
         \A t \in Turn : task'[t].items \subseteq task[t].items,
         \A ts \in TurnStateId : turnState'[ts].pending \subseteq turnState[ts].pending,
         accepted' = accepted,
         \A i \in discarded' : i \in discarded \/ \E k, x : At(i, k, x) /\ ~At(i, k, x)'
  PROVE  TicketInv'
<1>1. Arrive("none", "none")
  BY DEF Arrive
<1>2. \A i : ~At(i, "none", "none")'
  BY DEF At
<1>3. PICK S : S = {}
  OBVIOUS
<1>4. accepted' = accepted \cup (S \X {NoTurn})
  BY <1>3
<1> HIDE DEF Settled
<1> QED
  BY <1>1, <1>2, <1>3, <1>4, TicketsMoved

(* What somebody holds already goes to one place.                          *)
LEMMA TicketsMove ==
  ASSUME TypeInv, OnePlace, OnePlace', TicketInv, NEW K, NEW X, Arrive(K, X), Settled(K, X),
         accepted' = accepted,
         \A i : At(i, K, X)' => \E k, x : At(i, k, x) /\ Carries(k, x, K, X),
         \A i \in discarded' :
           i \in discarded \/ (~At(i, K, X)' /\ \E k, x : At(i, k, x) /\ ~At(i, k, x)')
  PROVE  TicketInv'
<1>3. PICK S : S = {}
  OBVIOUS
<1>4. accepted' = accepted \cup (S \X {NoTurn})
  BY <1>3
<1> QED
  BY <1>3, <1>4, TicketsMoved

-----------------------------------------------------------------------------
(* FateOf as a function of the three ledgers, for steps that change them.  *)
Fate(acc, rec, disc, i) ==
    CASE TurnsIn(rec, i) # {} -> [at |-> "recorded", turns |-> TurnsIn(rec, i)]
      [] TurnsIn(rec, i) = {} /\ i \in ItemsIn(acc) /\ i \in disc ->
           [at |-> "dropped", turns |-> {}]
      [] TurnsIn(rec, i) = {} /\ i \in ItemsIn(acc) /\ i \notin disc ->
           [at |-> "promised", turns |-> TurnsIn(acc, i)]
      [] OTHER -> [at |-> "new", turns |-> {}]

(* FateOf in this state ...                                                *)
LEMMA FateIs == \A i : FateOf(i) = Fate(accepted, recorded, discarded, i)
BY DEF FateOf, Fate

(* ... and in the next.                                                    *)
LEMMA FateWillBe == \A i : FateOf(i)' = Fate(accepted', recorded', discarded', i)
BY DEF FateOf, Fate

(* The entries of the ledgers.                                             *)
Pairs == Item \X (Turn \cup {NoTurn})

(* The turns of an item, in a ledger.                                      *)
LEMMA InPairs ==
  ASSUME NEW P \in SUBSET Pairs, NEW i
  PROVE  /\ TurnsIn(P, i) = {t \in Turn \cup {NoTurn} : <<i, t>> \in P}
         /\ i \in ItemsIn(P) <=> \E t : <<i, t>> \in P
<1>1. \A p \in P : p = <<p[1], p[2]>> /\ p[2] \in Turn \cup {NoTurn}
  BY DEF Pairs
<1>2. \A t : t \in TurnsIn(P, i) <=> <<i, t>> \in P
  BY <1>1 DEF TurnsIn
<1>3. \A t : <<i, t>> \in P => t \in Turn \cup {NoTurn}
  BY DEF Pairs
<1>4. i \in ItemsIn(P) <=> \E t : <<i, t>> \in P
  BY <1>1 DEF ItemsIn
<1> QED
  BY <1>2, <1>3, <1>4

(* An item in no ledger is new,                                            *)
LEMMA FateNew ==
  ASSUME NEW A \in SUBSET Pairs, NEW R \in SUBSET Pairs, NEW D, NEW i,
         \A t : <<i, t>> \notin A, \A t : <<i, t>> \notin R
  PROVE  Fate(A, R, D, i) = Ledger!New
BY InPairs DEF Fate, Ledger!New

(* one that is accepted for a turn is promised to it,                      *)
LEMMA FatePromised ==
  ASSUME NEW A \in SUBSET Pairs, NEW R \in SUBSET Pairs, NEW D, NEW i, NEW u,
         <<i, u>> \in A, \A t : <<i, t>> \in A => t = u, \A t : <<i, t>> \notin R, i \notin D
  PROVE  Fate(A, R, D, i) = Ledger!Promised(u)
<1>1. TurnsIn(A, i) = {u}
  <2>1. u \in Turn \cup {NoTurn}
    BY DEF Pairs
  <2>2. TurnsIn(A, i) = {t \in Turn \cup {NoTurn} : <<i, t>> \in A}
    BY InPairs
  <2> QED
    BY <2>1, <2>2
<1>2. TurnsIn(R, i) = {} /\ i \in ItemsIn(A)
  BY InPairs
<1> QED
  BY <1>1, <1>2 DEF Fate, Ledger!Promised

(* one that was accepted and discarded is dropped,                         *)
LEMMA FateDropped ==
  ASSUME NEW A \in SUBSET Pairs, NEW R \in SUBSET Pairs, NEW D, NEW i, NEW u,
         <<i, u>> \in A, \A t : <<i, t>> \notin R, i \in D
  PROVE  Fate(A, R, D, i) = Ledger!Dropped
<1>2. TurnsIn(R, i) = {} /\ i \in ItemsIn(A)
  BY InPairs
<1> QED
  BY <1>2 DEF Fate, Ledger!Dropped

(* one that was recorded by a turn is recorded by it.                      *)
LEMMA FateRecorded ==
  ASSUME NEW A, NEW R \in SUBSET Pairs, NEW D, NEW i, NEW u,
         <<i, u>> \in R, \A t : <<i, t>> \in R => t = u
  PROVE  Fate(A, R, D, i) = Ledger!Recorded(u)
<1>1. TurnsIn(R, i) = {u}
  <2>1. u \in Turn \cup {NoTurn}
    BY DEF Pairs
  <2>2. TurnsIn(R, i) = {t \in Turn \cup {NoTurn} : <<i, t>> \in R}
    BY InPairs
  <2> QED
    BY <2>1, <2>2
<1> QED
  BY <1>1 DEF Fate, Ledger!Recorded

(* The fate of an item depends on its own entries only.                    *)
LEMMA FateSame ==
  ASSUME NEW A \in SUBSET Pairs, NEW R \in SUBSET Pairs, NEW D,
         NEW B \in SUBSET Pairs, NEW Q \in SUBSET Pairs, NEW E, NEW i,
         \A t : <<i, t>> \in B <=> <<i, t>> \in A, \A t : <<i, t>> \in Q <=> <<i, t>> \in R,
         i \in E <=> i \in D
  PROVE  Fate(B, Q, E, i) = Fate(A, R, D, i)
<1>1. TurnsIn(B, i) = TurnsIn(A, i) /\ TurnsIn(Q, i) = TurnsIn(R, i)
  <2>1. ASSUME NEW P \in SUBSET Pairs
        PROVE  TurnsIn(P, i) = {t \in Turn \cup {NoTurn} : <<i, t>> \in P}
    BY InPairs
  <2>2. /\ TurnsIn(A, i) = {t \in Turn \cup {NoTurn} : <<i, t>> \in A}
        /\ TurnsIn(B, i) = {t \in Turn \cup {NoTurn} : <<i, t>> \in B}
        /\ TurnsIn(R, i) = {t \in Turn \cup {NoTurn} : <<i, t>> \in R}
        /\ TurnsIn(Q, i) = {t \in Turn \cup {NoTurn} : <<i, t>> \in Q}
    BY <2>1
  <2> QED
    BY <2>2
<1>2. i \in ItemsIn(B) <=> i \in ItemsIn(A)
  BY InPairs
<1> QED
  BY <1>1, <1>2 DEF Fate

-----------------------------------------------------------------------------
(* The step of InputLedger, or none, that a step of the session is.        *)
LedgerStep == [Ledger!Next]_[i \in Item |-> FateOf(i)]

(* No fate changes.                                                        *)
LEMMA LedgerStays ==
  ASSUME \A i \in Item : FateOf(i)' = FateOf(i)
  PROVE  LedgerStep
BY DEF LedgerStep

(* The ledgers do not change.                                              *)
LEMMA ItemsStand ==
  ASSUME UNCHANGED itemVars
  PROVE  LedgerStep
<1>1. UNCHANGED <<accepted, recorded, discarded>>
  BY DEF itemVars
<1> QED
  BY <1>1, FateIs, FateWillBe, LedgerStays

(* One new item is promised.                                               *)
LEMMA LedgerAccepts ==
  ASSUME NEW j \in Item, NEW u \in Turn \cup {NoTurn}, FateOf(j) = Ledger!New,
         FateOf(j)' = Ledger!Promised(u), \A i \in Item \ {j} : FateOf(i)' = FateOf(i)
  PROVE  LedgerStep
<1>1. Ledger!Accept(j)
  BY DEF Ledger!Accept
<1> QED
  BY <1>1 DEF LedgerStep, Ledger!Next

(* One promised item is new again.                                         *)
LEMMA LedgerTakesBack ==
  ASSUME NEW j \in Item, NEW u \in Turn, FateOf(j) = Ledger!Promised(u),
         FateOf(j)' = Ledger!New, \A i \in Item \ {j} : FateOf(i)' = FateOf(i)
  PROVE  LedgerStep
<1>1. Ledger!TakeBack(j)
  BY DEF Ledger!TakeBack
<1> QED
  BY <1>1 DEF LedgerStep, Ledger!Next

(* One new item is recorded for no turn.                                   *)
LEMMA LedgerRecordsNow ==
  ASSUME NEW j \in Item, FateOf(j) = Ledger!New,
         FateOf(j)' = Ledger!Recorded(NoTurn), \A i \in Item \ {j} : FateOf(i)' = FateOf(i)
  PROVE  LedgerStep
<1>1. Ledger!RecordNow(j)
  BY DEF Ledger!RecordNow
<1> QED
  BY <1>1 DEF LedgerStep, Ledger!Next

(* The items of one turn are recorded by it or dropped.                    *)
LEMMA LedgerSettles ==
  ASSUME NEW t \in Turn, NEW items \in SUBSET Item, NEW dropped \in SUBSET items,
         \A i \in items : FateOf(i) \in {Ledger!Promised(t), Ledger!Promised(NoTurn)},
         \A i \in dropped : FateOf(i)' = Ledger!Dropped,
         \A i \in items \ dropped : FateOf(i)' = Ledger!Recorded(t),
         \A i \in Item \ items : FateOf(i)' = FateOf(i)
  PROVE  LedgerStep
<1>1. CASE items = {}
  BY <1>1, LedgerStays
<1>2. CASE items # {}
  <2>1. items \in SUBSET Ledger!WaitingFor(t)
    BY DEF Ledger!WaitingFor
  <2>2. [i \in Item |-> FateOf(i)]' =
          [i \in Item |-> CASE i \in dropped         -> Ledger!Dropped
                            [] i \in items \ dropped -> Ledger!Recorded(t)
                            [] OTHER                 -> FateOf(i)]
    <3>1. ASSUME NEW i \in Item
          PROVE  FateOf(i)' = CASE i \in dropped         -> Ledger!Dropped
                                [] i \in items \ dropped -> Ledger!Recorded(t)
                                [] OTHER                 -> FateOf(i)
      <4>1. CASE i \in dropped
        BY <4>1
      <4>2. CASE i \in items \ dropped
        BY <4>2
      <4>3. CASE i \notin items
        BY <4>3
      <4> QED
        BY <4>1, <4>2, <4>3
    <3> QED
      BY <3>1
  <2>3. Ledger!Settle(items, t)
    BY <1>2, <2>2 DEF Ledger!Settle
  <2> QED
    BY <2>1, <2>3 DEF LedgerStep, Ledger!Next
<1> QED
  BY <1>1, <1>2

(* The ledgers are typed,                                                  *)
LEMMA Ledgers ==
  ASSUME TypeInv
  PROVE  accepted \in SUBSET Pairs /\ recorded \in SUBSET Pairs
BY DEF TypeInv, ItemsTyped, Pairs

(* and stay so.                                                            *)
LEMMA LedgersNext ==
  ASSUME TypeInv'
  PROVE  accepted' \in SUBSET Pairs /\ recorded' \in SUBSET Pairs
BY DEF TypeInv, ItemsTyped, Pairs

(* What becomes of other items does not change.                            *)
LEMMA OthersStand ==
  ASSUME TypeInv, TypeInv', NEW i,
         \A t : <<i, t>> \in accepted' <=> <<i, t>> \in accepted,
         \A t : <<i, t>> \in recorded' <=> <<i, t>> \in recorded,
         i \in discarded' <=> i \in discarded
  PROVE  FateOf(i)' = FateOf(i)
BY Ledgers, LedgersNext, FateSame, FateIs, FateWillBe

(* What is not accepted yet is in no ledger.                               *)
LEMMA StillNew ==
  ASSUME TypeInv, OnePlace, TicketInv, NEW i, NEW k, NEW x, At(i, k, x), Unaccepted(k, x)
  PROVE  /\ \A t : <<i, t>> \notin accepted
         /\ \A t : <<i, t>> \notin recorded
         /\ i \notin discarded
<1>1. \A t : <<i, t>> \notin accepted /\ i \notin discarded
  BY DEF TicketInv, Ticketed
<1>2. ASSUME NEW t, <<i, t>> \in recorded PROVE FALSE
  <2>1. At(i, "recorded", t)
    BY <1>2 DEF At
  <2> QED
    BY <2>1 DEF OnePlace, Unaccepted
<1> QED
  BY <1>1, <1>2

(* Accepting an item in such a place is a step of the ledger.              *)
LEMMA ItemAccepted ==
  ASSUME TypeInv, TypeInv', OnePlace, TicketInv, NEW j \in Item,
         NEW u \in Turn \cup {NoTurn}, NEW k, NEW x, At(j, k, x), Unaccepted(k, x),
         accepted' = accepted \cup {<<j, u>>}, UNCHANGED <<recorded, discarded>>
  PROVE  LedgerStep
<1>0. /\ \A t : <<j, t>> \notin accepted /\ <<j, t>> \notin recorded
      /\ j \notin discarded
  BY StillNew
<1>1. FateOf(j) = Ledger!New
  BY <1>0, Ledgers, FateNew, FateIs
<1>2. FateOf(j)' = Ledger!Promised(u)
  <2>1. <<j, u>> \in accepted' /\ \A t : <<j, t>> \in accepted' => t = u
    BY <1>0
  <2>2. (\A t : <<j, t>> \notin recorded') /\ j \notin discarded'
    BY <1>0
  <2>3. Fate(accepted', recorded', discarded', j) = Ledger!Promised(u)
    <3> DEFINE A == accepted'  R == recorded'  D == discarded'
    <3>1. A \in SUBSET Pairs /\ R \in SUBSET Pairs
      BY LedgersNext
    <3>2. /\ <<j, u>> \in A /\ \A t : <<j, t>> \in A => t = u
          /\ (\A t : <<j, t>> \notin R) /\ j \notin D
      BY <2>1, <2>2
    <3> HIDE DEF A, R, D
    <3>3. Fate(A, R, D, j) = Ledger!Promised(u)
      BY <3>1, <3>2, FatePromised
    <3> QED
      BY <3>3 DEF A, R, D
  <2> QED
    BY <2>3, FateWillBe
<1>3. ASSUME NEW i \in Item \ {j} PROVE FateOf(i)' = FateOf(i)
  BY <1>3, OthersStand
<1> QED
  BY <1>1, <1>2, <1>3, LedgerAccepts

(* So is recording it at once, when the session is idle.                   *)
LEMMA ItemRecordedNow ==
  ASSUME TypeInv, TypeInv', OnePlace, TicketInv, NEW j \in Item,
         NEW k, NEW x, At(j, k, x), Unaccepted(k, x),
         accepted' = accepted \cup {<<j, NoTurn>>},
         recorded' = recorded \cup {<<j, NoTurn>>}, discarded' = discarded
  PROVE  LedgerStep
<1>0. \A t : <<j, t>> \notin accepted /\ <<j, t>> \notin recorded
  BY StillNew
<1>1. FateOf(j) = Ledger!New
  BY <1>0, Ledgers, FateNew, FateIs
<1>2. FateOf(j)' = Ledger!Recorded(NoTurn)
  <2>1. <<j, NoTurn>> \in recorded' /\ \A t : <<j, t>> \in recorded' => t = NoTurn
    BY <1>0
  <2>2. Fate(accepted', recorded', discarded', j) = Ledger!Recorded(NoTurn)
    <3> DEFINE A == accepted'  R == recorded'  D == discarded'
    <3>1. A \in SUBSET Pairs /\ R \in SUBSET Pairs
      BY LedgersNext
    <3>2. <<j, NoTurn>> \in R /\ \A t : <<j, t>> \in R => t = NoTurn
      BY <2>1
    <3> HIDE DEF A, R, D
    <3>3. Fate(A, R, D, j) = Ledger!Recorded(NoTurn)
      BY <3>1, <3>2, FateRecorded
    <3> QED
      BY <3>3 DEF A, R, D
  <2> QED
    BY <2>2, FateWillBe
<1>3. ASSUME NEW i \in Item \ {j} PROVE FateOf(i)' = FateOf(i)
  BY <1>3, OthersStand
<1> QED
  BY <1>1, <1>2, <1>3, LedgerRecordsNow

(* What was never accepted is dropped unnoticed.                           *)
LEMMA ItemsForgotten ==
  ASSUME TypeInv, TypeInv', OnePlace, TicketInv, NEW k, NEW x, Unaccepted(k, x),
         \A i \in discarded' : i \in discarded \/ At(i, k, x), discarded \subseteq discarded',
         UNCHANGED <<accepted, recorded>>
  PROVE  LedgerStep
<1> SUFFICES ASSUME NEW i \in Item PROVE FateOf(i)' = FateOf(i)
  BY LedgerStays
<1>1. CASE i \in discarded' <=> i \in discarded
  BY <1>1, OthersStand
<1>2. CASE At(i, k, x)
  <2>1. \A t : <<i, t>> \notin accepted /\ <<i, t>> \notin recorded
    BY <1>2, StillNew
  <2>2. FateOf(i) = Ledger!New
    BY <2>1, Ledgers, FateNew, FateIs
  <2>3. \A t : <<i, t>> \notin accepted' /\ <<i, t>> \notin recorded'
    BY <2>1
  <2>4. FateOf(i)' = Ledger!New
    BY <2>3, LedgersNext, FateNew, FateWillBe
  <2> QED
    BY <2>2, <2>4
<1> QED
  BY <1>1, <1>2

(* A turn records, or drops, what was promised to it or to any.            *)
LEMMA ItemsSettled ==
  ASSUME TypeInv, TypeInv', OnePlace, TicketInv, NEW t \in Turn,
         NEW k \in {"task", "state"}, NEW x, ~Unaccepted(k, x),
         \A u : PromisedTo(k, x, u) => u \in {t, NoTurn},
         NEW items, \A i \in items : At(i, k, x), NEW dropped \in SUBSET items,
         recorded' = recorded \cup ((items \ dropped) \X {t}),
         discarded' = discarded \cup dropped, accepted' = accepted
  PROVE  LedgerStep
<1>0. ASSUME NEW i \in items
      PROVE  /\ i \in Item /\ i \notin discarded
             /\ \A u : <<i, u>> \notin recorded
             /\ \E u \in {t, NoTurn} : <<i, u>> \in accepted /\ \A v : <<i, v>> \in accepted => v = u
  <2>1. Ticketed(i, k, x)
    BY DEF TicketInv
  <2>2. PICK u : <<i, u>> \in accepted /\ PromisedTo(k, x, u)
    BY <2>1 DEF Ticketed
  <2>3. ASSUME NEW v, <<i, v>> \in recorded PROVE FALSE
    <3>1. At(i, "recorded", v)
      BY <2>3 DEF At
    <3> QED
      BY <3>1 DEF OnePlace
  <2>4. i \in Item
    BY <2>2, Ledgers DEF Pairs
  <2>5. \A v : <<i, v>> \in accepted => v = u
    BY <2>2 DEF TicketInv
  <2> QED
    BY <2>1, <2>2, <2>3, <2>4, <2>5 DEF Ticketed
<1>1. items \in SUBSET Item
  BY <1>0
<1>2. ASSUME NEW i \in items PROVE FateOf(i) \in {Ledger!Promised(t), Ledger!Promised(NoTurn)}
  <2>1. PICK u \in {t, NoTurn} : <<i, u>> \in accepted /\ \A v : <<i, v>> \in accepted => v = u
    BY <1>0
  <2>2. (\A v : <<i, v>> \notin recorded) /\ i \notin discarded
    BY <1>0
  <2>3. Fate(accepted, recorded, discarded, i) = Ledger!Promised(u)
    BY <2>1, <2>2, Ledgers, FatePromised
  <2>4. FateOf(i) = Ledger!Promised(u)
    BY <2>3, FateIs
  <2> QED
    BY <2>4
<1>3. ASSUME NEW i \in dropped PROVE FateOf(i)' = Ledger!Dropped
  <2>1. PICK u : <<i, u>> \in accepted'
    BY <1>0
  <2>2. (\A v : <<i, v>> \notin recorded') /\ i \in discarded'
    BY <1>0
  <2> QED
    BY <2>1, <2>2, LedgersNext, FateDropped, FateWillBe
<1>4. ASSUME NEW i \in items \ dropped PROVE FateOf(i)' = Ledger!Recorded(t)
  <2>1. <<i, t>> \in recorded' /\ \A v : <<i, v>> \in recorded' => v = t
    BY <1>0
  <2> QED
    BY <2>1, LedgersNext, FateRecorded, FateWillBe
<1>5. ASSUME NEW i \in Item \ items PROVE FateOf(i)' = FateOf(i)
  BY <1>5, OthersStand
<1> QED
  BY <1>1, <1>2, <1>3, <1>4, <1>5, LedgerSettles

(* The order of a session, whichever kind it is: the slot is its task's,   *)
(* or its starter's, or is empty; a TurnState is left to its own turn; who *)
(* starts a turn does so with one item at most.                            *)
Alone(items) == \A i, j \in items : i = j

Orderly ==
    /\ slot.task # NoTurn => slot.ts[1] = slot.task /\ Running(slot.task)
    /\ \A t \in Turn : Running(t) => slot = NoSlot \/ slot.task = t
    /\ \A t \in Turn : pc[t] \in FinishPoint => task[t].ts[1] = t
    /\ pc[Loop] \in AbortPoint =>
         abort.ts[1] = abort.victim /\ pc[abort.victim] \notin Choice
    /\ \A a \in Actor : pc[a] \in StartPoint \cup TryPoint =>
         /\ pc[call[a].turn] = "queued"
         /\ slot = NoSlot \/ (slot.task = NoTurn /\ slot.ts[1] = call[a].turn)
    /\ pc[Loop] = "route" =>
         /\ pc[call[Loop].turn] = "queued" /\ task[call[Loop].turn].kind = "Regular"
         /\ Alone(task[call[Loop].turn].items)
    /\ \A a \in Actor : pc[a] \in Choice => Alone(call[a].items)
    /\ \A t \in Turn : pc[t] \in RegularPoint => task[t].kind = "Regular"

(* One actor goes on.                                                      *)
LEMMA SettledMove ==
  ASSUME TypeInv, NEW K, NEW X, NEW a \in Actor, \A b \in Actor \ {a} : pc'[b] = pc[b],
         \/ K = "call" /\ X = a
         \/ call'[a].items = {}
         \/ pc'[a] \in Choice <=> pc[a] \in Choice,
         pc'[a] \in {"unused", "queued"} => pc[a] \in {"unused", "queued"},
         pc'[Loop] = "route" <=> pc[Loop] = "route",
         pc[Loop] = "route" => call'[Loop].turn = call[Loop].turn,
         \A t \in Turn : \/ K = "task" /\ X = t
                         \/ task'[t].items = {}
                         \/ task'[t].kind = task[t].kind
  PROVE  Settled(K, X)
<1>1. \A b \in Actor : \/ K = "call" /\ X = b
                       \/ call'[b].items = {}
                       \/ pc'[b] \in Choice <=> pc[b] \in Choice
  OBVIOUS
<1>2. \A t \in Turn : \/ K = "task" /\ X = t
                      \/ task'[t].items = {}
                      \/ Unspawned(t)' <=> Unspawned(t)
  BY DEF Unspawned
<1>3. \A t \in Turn : pc'[t] \in {"unused", "queued"} => pc[t] \in {"unused", "queued"}
  BY Actors
<1> QED
  BY <1>1, <1>2, <1>3 DEF Settled

(* Nobody moves.                                                           *)
LEMMA SettledStill ==
  ASSUME NEW K, NEW X, pc' = pc,
         pc[Loop] = "route" => call'[Loop].turn = call[Loop].turn,
         \A t \in Turn : \/ K = "task" /\ X = t
                         \/ task'[t].items = {}
                         \/ task'[t].kind = task[t].kind
  PROVE  Settled(K, X)
BY DEF Settled, Unspawned

(* A new turn is created for an actor.                                     *)
LEMMA SettledNew ==
  ASSUME TypeInv, NEW K, NEW X, NEW a \in Actor, NEW t \in Turn, NEW kind, NEW input, NEW p,
         NewTurn(a, t, kind, input, p), p \notin {"unused", "queued"}, pc[a] # "unused",
         pc[Loop] = "route" => a # Loop, p = "route" => a = Loop,
         p \in Choice <=> pc[a] \in Choice,
         (K = "task" /\ X = t) \/ input = {}
  PROVE  Settled(K, X)
<1>1. /\ a # t /\ pc[t] = "unused" /\ pc'[t] = "queued" /\ pc'[a] = p
      /\ \A b \in Actor \ {a, t} : pc'[b] = pc[b]
      /\ call'[a].turn = t
      /\ \A b \in Actor \ {a} : call'[b] = call[b]
      /\ task'[t].items = input
      /\ \A u \in Turn \ {t} : task'[u] = task[u]
  BY Actors DEF NewTurn, FreshTurn, NewTask, TypeInv, PcTyped, CallTyped, CallType, TaskTyped
<1>2. \A b \in Actor : pc'[b] \in Choice <=> pc[b] \in Choice
  BY <1>1 DEF Choice, TryPoint
<1>3. pc'[Loop] = "route" => (a = Loop /\ p = "route") \/ (a # Loop /\ pc[Loop] = "route")
  BY <1>1, Actors
<1>4. ASSUME NEW u \in Turn \ {t} PROVE Unspawned(u)' <=> Unspawned(u)
  BY <1>1, <1>3, <1>4, Actors DEF Unspawned
<1>5. \A u \in Turn : pc'[u] \in {"unused", "queued"} => pc[u] \in {"unused", "queued"}
  BY <1>1, Actors
<1> QED
  BY <1>1, <1>2, <1>4, <1>5 DEF Settled

(* A queue keeps what it has.                                              *)
LEMMA QueueCarries ==
  ASSUME TypeInv, NEW K \in {"state", "mailbox", "staged", "recorded"}, NEW X, Settled(K, X),
         K = "state" => X \in TurnStateId
  PROVE  Carries(K, X, K, X)
<1>1. \A t \in Turn : pc[t] \notin {"unused", "queued"} => pc'[t] \notin {"unused", "queued"}
  BY DEF Settled
<1>2. K = "state" => X[1] \in Turn
  BY DEF TurnStateId
<1> QED
  BY <1>1, <1>2 DEF Carries, Unaccepted, PromisedTo

(* A request is served: its item is accepted into a queue.                 *)
LEMMA ServedTickets ==
  ASSUME TypeInv, TypeInv', OnePlace, OnePlace', TicketInv,
         NEW o \in todo, o.op \in Carrier, NEW u \in Turn \cup {NoTurn},
         NEW K \in {"state", "mailbox", "staged"}, NEW X,
         K = "state" => X \in TurnStateId, Arrive(K, X), Settled(K, X),
         accepted' = accepted \cup {<<o.item, u>>}, UNCHANGED <<recorded, discarded>>,
         At(o.item, K, X)', \A i : At(i, K, X)' => i = o.item \/ At(i, K, X),
         PromisedTo(K, X, u)'
  PROVE  TicketInv' /\ LedgerStep
<1>1. At(o.item, "todo", o) /\ Unaccepted("todo", o) /\ o.item \in Item
  BY DEF At, Unaccepted, TypeInv, TodoTyped
<1>2. LedgerStep
  BY <1>1, ItemAccepted
<1>3. ~Unaccepted(K, X)'
  BY DEF Unaccepted
<1>4. Carries(K, X, K, X)
  BY QueueCarries
<1>5. PICK S : S = {o.item}
  OBVIOUS
<1>6. accepted' = accepted \cup (S \X {u})
  BY <1>5
<1>7. /\ \A j \in S : (\E k, x : At(j, k, x) /\ Unaccepted(k, x)) /\ At(j, K, X)'
      /\ \A i : At(i, K, X)' => \/ i \in S
                               \/ \E k, x : At(i, k, x) /\ Carries(k, x, K, X)
  BY <1>1, <1>4, <1>5
<1>8. TicketInv'
  BY <1>3, <1>6, <1>7, TicketsMoved
<1> QED
  BY <1>2, <1>8

(* The slot's TurnState takes the item of a request.                       *)
LEMMA SlotTickets ==
  ASSUME TypeInv, TypeInv', Orderly, OnePlace, OnePlace', TicketInv,
         NEW o \in todo, o.op \in Carrier, NEW u \in {slot.task, NoTurn}, slot # NoSlot,
         Take(o), AddToSlot(o.item, u), UNCHANGED <<pc, call, task, recorded, discarded>>
  PROVE  TicketInv' /\ LedgerStep
<1>0. slot.ts \in TurnStateId /\ u \in Turn \cup {NoTurn}
  BY DEF TypeInv, SlotTyped, SlotType
<1>1. PICK X \in TurnStateId : X = slot.ts
  BY <1>0
<1>2. /\ turnState'[X].pending = turnState[X].pending \cup {o.item}
      /\ \A ts \in TurnStateId \ {X} : turnState'[ts] = turnState[ts]
      /\ UNCHANGED <<mailbox, staged>> /\ todo' = todo \ {o}
      /\ accepted' = accepted \cup {<<o.item, u>>}
  BY <1>1 DEF AddToSlot, Take, TypeInv, QueuesTyped, QueueType
<1>3. Arrive("state", X)
  BY <1>2 DEF Arrive
<1>4. Settled("state", X)
  BY SettledStill
<1>5. /\ At(o.item, "state", X)'
      /\ \A i : At(i, "state", X)' => i = o.item \/ At(i, "state", X)
  BY <1>2 DEF At
<1>6. u # NoTurn => X[1] = u /\ pc[u] \in RunPoint
  BY <1>1 DEF Orderly, Running
<1>7. PICK v : v = u
  OBVIOUS
<1>8. PromisedTo("state", X, v)'
  <2>1. v # NoTurn => X[1] = v /\ pc'[v] \notin {"unused", "queued"}
    BY <1>6, <1>7 DEF RunPoint
  <2> QED
    BY <2>1 DEF PromisedTo
<1> QED
  BY <1>0, <1>2, <1>3, <1>4, <1>5, <1>7, <1>8, ServedTickets

(* A request becomes the input of a new turn, accepted once it is spawned. *)
LEMMA StartTickets ==
  ASSUME TypeInv, OnePlace, OnePlace', TicketInv,
         NEW o \in todo, o.op \in Carrier, NEW t \in Turn, NEW kind, Take(o),
         task' = [task EXCEPT ![t] = NewTask(kind, {o.item})], Unspawned(t)',
         Settled("task", t), \A a \in Actor : call'[a].items = call[a].items,
         UNCHANGED <<queueVars, itemVars>>
  PROVE  TicketInv' /\ LedgerStep
<1>1. /\ task'[t].items = {o.item}
      /\ \A u \in Turn \ {t} : task'[u] = task[u]
      /\ todo' = todo \ {o}
      /\ UNCHANGED <<turnState, mailbox, staged, accepted, recorded, discarded>>
  BY DEF Take, NewTask, TypeInv, TaskTyped, queueVars, itemVars
<1>2. Arrive("task", t)
  BY <1>1 DEF Arrive
<1>3. At(o.item, "todo", o)
  BY DEF At
<1>4. Carries("todo", o, "task", t)
  BY DEF Carries, Unaccepted, PromisedTo
<1>5. \A i : At(i, "task", t)' => i = o.item
  BY <1>1 DEF At
<1>6. TicketInv'
  BY <1>1, <1>2, <1>3, <1>4, <1>5, TicketsMove
<1> QED
  BY <1>6, ItemsStand

(* A request gives its item to an actor that decides on an idle start.     *)
LEMMA ChoiceTickets ==
  ASSUME TypeInv, OnePlace, OnePlace', TicketInv,
         NEW o \in todo, o.op \in Carrier, NEW a \in Actor, Take(o),
         call'[a].items = {o.item}, \A b \in Actor \ {a} : call'[b] = call[b],
         pc'[a] \in Choice, Settled("call", a),
         UNCHANGED <<queueVars, task, itemVars>>
  PROVE  TicketInv' /\ LedgerStep
<1>1. /\ todo' = todo \ {o}
      /\ UNCHANGED <<turnState, mailbox, staged, accepted, recorded, discarded>>
  BY DEF Take, queueVars, itemVars
<1>2. Arrive("call", a)
  BY <1>1 DEF Arrive
<1>3. At(o.item, "todo", o)
  BY DEF At
<1>4. Carries("todo", o, "call", a)
  BY DEF Carries, Unaccepted, PromisedTo
<1>5. \A i : At(i, "call", a)' => i = o.item
  BY DEF At
<1>6. TicketInv'
  BY <1>1, <1>2, <1>3, <1>4, <1>5, TicketsMove
<1> QED
  BY <1>6, ItemsStand

(* Requests that touch no item, or drop their own.                         *)
LEMMA NothingTickets ==
  ASSUME TypeInv, OnePlace, OnePlace', TicketInv, Settled("none", "none"),
         todo' \subseteq todo, mailbox' \subseteq mailbox, staged' \subseteq staged,
         \A a \in Actor : call'[a].items \subseteq call[a].items,
         \A t \in Turn : task'[t].items \subseteq task[t].items,
         \A ts \in TurnStateId : turnState'[ts].pending \subseteq turnState[ts].pending,
         UNCHANGED itemVars
  PROVE  TicketInv' /\ LedgerStep
<1>1. UNCHANGED <<accepted, recorded, discarded>>
  BY DEF itemVars
<1> QED
  BY <1>1, TicketsStay, ItemsStand

(* cancel_pending_steer takes an item back from the slot's turn.           *)
LEMMA CancelTickets ==
  ASSUME TypeInv, TypeInv', Orderly, OnePlace, OnePlace', TicketInv, NEW o \in todo,
         Take(o), slot.task # NoTurn, o.item \in SlotPending,
         <<o.item, slot.task>> \in accepted,
         turnState' = [turnState EXCEPT ![slot.ts].pending = @ \ {o.item}],
         accepted' = accepted \ {<<o.item, slot.task>>},
         UNCHANGED <<mailbox, staged, pc, call, task, recorded, discarded>>
  PROVE  TicketInv' /\ LedgerStep
<1>0. slot.ts \in TurnStateId /\ slot.task \in Turn /\ slot # NoSlot
  BY DEF TypeInv, SlotTyped, SlotType, NoSlot
<1>1. PICK X \in TurnStateId : X = slot.ts
  BY <1>0
<1>2. PICK u \in Turn : u = slot.task
  BY <1>0
<1>3. PICK j : j = o.item
  OBVIOUS
<1>4. /\ turnState'[X].pending = turnState[X].pending \ {j}
      /\ \A ts \in TurnStateId \ {X} : turnState'[ts] = turnState[ts]
      /\ todo' \subseteq todo
      /\ accepted' = accepted \ {<<j, u>>}
      /\ At(j, "state", X) /\ <<j, u>> \in accepted /\ j \in Item
  BY <1>0, <1>1, <1>2, <1>3
  DEF Take, TypeInv, QueuesTyped, QueueType, TodoTyped, At, SlotPending
<1>5. \A i, k, x : At(i, k, x)' => At(i, k, x) /\ i # j
  <2>1. \A i, k, x : At(i, k, x)' => At(i, k, x)
    BY <1>4 DEF At
  <2>2. ~At(j, "state", X)'
    BY <1>4 DEF At
  <2> QED
    BY <1>4, <2>1, <2>2 DEF OnePlace
<1>6. Settled("none", "none")
  BY SettledStill
<1>7. TicketInv'
  <2>1. \A i, t, v : <<i, t>> \in accepted' /\ <<i, v>> \in accepted' => t = v
    BY <1>4 DEF TicketInv
  <2> SUFFICES ASSUME NEW i, NEW k, NEW x, At(i, k, x)' PROVE Ticketed(i, k, x)'
    BY <2>1 DEF TicketInv
  <2>2. At(i, k, x) /\ i # j /\ Ticketed(i, k, x)
    BY <1>5 DEF TicketInv
  <2>3. k # "none"
    BY <2>2 DEF At
  <2>4. Carries(k, x, k, x)
    BY <1>6, <2>3, TicketsKept
  <2>5. \A t : <<i, t>> \in accepted' <=> <<i, t>> \in accepted
    BY <1>4, <2>2
  <2>6. CASE Unaccepted(k, x)
    BY <2>2, <2>4, <2>5, <2>6 DEF Ticketed, Carries
  <2>7. CASE ~Unaccepted(k, x)
    <3>1. PICK t : <<i, t>> \in accepted /\ PromisedTo(k, x, t)
      BY <2>2, <2>7 DEF Ticketed
    <3>2. <<i, t>> \in accepted' /\ PromisedTo(k, x, t)'
      BY <2>4, <2>5, <3>1 DEF Carries
    <3> QED
      BY <2>2, <2>4, <2>7, <3>2 DEF Ticketed, Carries
  <2> QED
    BY <2>6, <2>7
<1>8. LedgerStep
  <2>1. /\ \A t : <<j, t>> \in accepted => t = u
        /\ j \notin discarded
        /\ \A t : <<j, t>> \notin recorded
    <3>1. \A t : <<j, t>> \in recorded => At(j, "recorded", t)
      BY DEF At
    <3> QED
      BY <1>4, <3>1 DEF TicketInv, Ticketed, OnePlace
  <2>2. Fate(accepted, recorded, discarded, j) = Ledger!Promised(u)
    BY <1>4, <2>1, Ledgers, FatePromised
  <2>3. FateOf(j) = Ledger!Promised(u)
    BY <2>2, FateIs
  <2>4. \A t : <<j, t>> \notin accepted' /\ <<j, t>> \notin recorded'
    BY <1>4, <2>1
  <2>5. FateOf(j)' = Ledger!New
    BY <2>4, LedgersNext, FateNew, FateWillBe
  <2>6. ASSUME NEW i \in Item \ {j} PROVE FateOf(i)' = FateOf(i)
    BY <1>4, <2>6, OthersStand
  <2> QED
    BY <1>4, <2>3, <2>5, <2>6, LedgerTakesBack
<1> QED
  BY <1>7, <1>8

(* inject_no_new_turn records what it could not inject.                    *)
LEMMA RecordNowTickets ==
  ASSUME TypeInv, TypeInv', OnePlace, OnePlace', TicketInv, NEW o \in todo,
         o.op \in Carrier, Take(o),
         recorded' = recorded \cup {<<o.item, NoTurn>>},
         accepted' = accepted \cup {<<o.item, NoTurn>>},
         UNCHANGED <<queueVars, pc, call, task, discarded>>
  PROVE  TicketInv' /\ LedgerStep
<1>1. /\ At(o.item, "todo", o) /\ Unaccepted("todo", o) /\ o.item \in Item
      /\ todo' = todo \ {o} /\ UNCHANGED <<turnState, mailbox, staged>>
  BY DEF At, Unaccepted, TypeInv, TodoTyped, Take, queueVars
<1>2. LedgerStep
  BY <1>1, ItemRecordedNow
<1>3. \A i, t : <<i, t>> \in recorded' => NoTurn = t \/ <<i, t>> \in recorded
  OBVIOUS
<1>4. Arrive("recorded", NoTurn)
  BY <1>1, <1>3 DEF Arrive
<1>5. Settled("recorded", NoTurn)
  BY SettledStill
<1>6. Carries("recorded", NoTurn, "recorded", NoTurn)
  BY <1>5, QueueCarries
<1>7. PICK S : S = {o.item}
  OBVIOUS
<1>8. accepted' = accepted \cup (S \X {NoTurn})
  BY <1>7
<1>9. /\ \A j \in S : (\E k, x : At(j, k, x) /\ Unaccepted(k, x)) /\ At(j, "recorded", NoTurn)'
      /\ \A i : At(i, "recorded", NoTurn)' =>
           i \in S \/ \E k, x : At(i, k, x) /\ Carries(k, x, "recorded", NoTurn)
  BY <1>1, <1>6, <1>7 DEF At
<1>10. ~Unaccepted("recorded", NoTurn)' /\ PromisedTo("recorded", NoTurn, NoTurn)'
  BY DEF Unaccepted, PromisedTo
<1>11. TicketInv'
  BY <1>4, <1>5, <1>8, <1>9, <1>10, TicketsMoved
<1> QED
  BY <1>2, <1>11

(* Every request keeps the ledger.                                         *)
LEMMA RequestTickets ==
  ASSUME TypeInv, TypeInv', Orderly, OnePlace, OnePlace', TicketInv, NEW o \in todo,
         Request(o)
  PROVE  TicketInv' /\ LedgerStep
<1> USE DEF Carrier
<1>0. ASSUME Take(o), UNCHANGED <<queueVars, pc, call, task, itemVars>>
      PROVE  TicketInv' /\ LedgerStep
  <2>1. Settled("none", "none")
    BY <1>0, SettledStill
  <2> QED
    BY <1>0, <2>1, NothingTickets DEF Take, queueVars
<1>1. CASE Steer(o)
  <2>1. CASE Steerable /\ AddToSlot(o.item, slot.task)
    <3>1. slot # NoSlot
      BY <2>1 DEF Steerable, SteerTarget, NoSlot
    <3> QED
      BY <1>1, <2>1, <3>1, SlotTickets DEF Steer
  <2>2. CASE UNCHANGED <<queueVars, accepted>>
    BY <1>0, <1>1, <2>2 DEF Steer, itemVars
  <2> QED
    BY <1>1, <2>1, <2>2 DEF Steer
<1>2. CASE CancelSteer(o)
  <2>1. CASE UNCHANGED <<turnState, accepted>>
    BY <1>0, <1>2, <2>1 DEF CancelSteer, queueVars, itemVars
  <2> QED
    BY <1>2, <2>1, CancelTickets DEF CancelSteer
<1>3. CASE Inject(o)
  <2>1. CASE slot # NoSlot /\ AddToSlot(o.item, NoTurn) /\ UNCHANGED recorded
    BY <1>3, <2>1, SlotTickets DEF Inject
  <2>2. CASE UNCHANGED <<queueVars, accepted, recorded>>
    BY <1>0, <1>3, <2>2 DEF Inject, itemVars
  <2>3. CASE /\ recorded' = recorded \cup {<<o.item, NoTurn>>}
             /\ accepted' = accepted \cup {<<o.item, NoTurn>>}
             /\ UNCHANGED queueVars
    BY <1>3, <2>3, RecordNowTickets DEF Inject
  <2> QED
    BY <1>3, <2>1, <2>2, <2>3 DEF Inject
<1>4. CASE LoopUserInput(o)
  <2>1. CASE Steerable /\ AddToSlot(o.item, slot.task) /\ UNCHANGED <<pc, call, task>>
    <3>1. slot # NoSlot
      BY <2>1 DEF Steerable, SteerTarget, NoSlot
    <3> QED
      BY <1>4, <2>1, <3>1, SlotTickets DEF LoopUserInput
  <2>2. CASE UNCHANGED <<queueVars, accepted, pc, call, task>>
    BY <1>0, <1>4, <2>2 DEF LoopUserInput, itemVars
  <2>3. ASSUME NEW t \in Turn, NewTurn(Loop, t, "Regular", {o.item}, "route"),
               UNCHANGED <<queueVars, accepted>>
        PROVE  TicketInv' /\ LedgerStep
    <3>1. \A a \in Actor : call'[a].items = call[a].items
      BY <2>3 DEF NewTurn, TypeInv, CallTyped, CallType
    <3>2. Settled("task", t)
      BY <1>4, <2>3, Actors, SettledNew DEF LoopUserInput, Choice, TryPoint
    <3>3. Unspawned(t)'
      BY <2>3, Actors DEF NewTurn, Unspawned, TypeInv, PcTyped, CallTyped, CallType
    <3>4. UNCHANGED itemVars
      BY <1>4, <2>3 DEF LoopUserInput, itemVars
    <3> QED
      BY <1>4, <2>3, <3>1, <3>2, <3>3, <3>4, StartTickets DEF LoopUserInput, NewTurn
  <2> QED
    BY <1>4, <2>1, <2>2, <2>3 DEF LoopUserInput
<1>5. CASE LoopSpawn(o)
  <2>1. ASSUME NEW t \in Turn, Take(o), FreshTurn(t),
               pc' = [pc EXCEPT ![t] = "queued", ![Loop] = "abort:take"],
               task' = [task EXCEPT ![t] =
                          NewTask(o.op, IF o.op = "Review" THEN {o.item} ELSE {})],
               call' = [call EXCEPT ![Loop].turn = t, ![Loop].ret = "idle"]
        PROVE  TicketInv' /\ LedgerStep
    <3>1. \A a \in Actor : call'[a].items = call[a].items
      BY <2>1, Actors DEF TypeInv, CallTyped, CallType
    <3>2. /\ pc[Loop] = "idle" /\ pc'[Loop] = "abort:take" /\ pc[t] = "unused"
          /\ \A a \in Actor \ {Loop, t} : pc'[a] = pc[a]
          /\ pc'[t] = "queued"
          /\ \A u \in Turn \ {t} : task'[u] = task[u]
          /\ task'[t].kind = o.op
          /\ task'[t].items = IF o.op = "Review" THEN {o.item} ELSE {}
      BY <1>5, <2>1, Actors
      DEF LoopSpawn, FreshTurn, NewTask, TypeInv, PcTyped, TaskTyped
    <3>3. Settled("task", t)
      <4>1. \A a \in Actor : pc'[a] \in Choice <=> pc[a] \in Choice
        BY <3>2 DEF Choice, TryPoint
      <4>2. \A u \in Turn \ {t} : Unspawned(u)' <=> Unspawned(u)
        BY <3>2 DEF Unspawned
      <4>3. \A u \in Turn : pc'[u] \in {"unused", "queued"} => pc[u] \in {"unused", "queued"}
        BY <3>2, Actors
      <4> QED
        BY <4>1, <4>2, <4>3 DEF Settled
    <3>4. CASE o.op = "Review"
      <4>1. task' = [task EXCEPT ![t] = NewTask("Review", {o.item})]
        BY <2>1, <3>4
      <4>2. Unspawned(t)'
        BY <3>2, <3>4 DEF Unspawned
      <4> QED
        BY <1>5, <2>1, <3>1, <3>3, <3>4, <4>1, <4>2, StartTickets DEF LoopSpawn
    <3>5. CASE o.op # "Review"
      <4>1. \A u \in Turn : task'[u].items \subseteq task[u].items
        BY <3>2, <3>5
      <4>2. Settled("none", "none")
        BY <3>2, <3>3, <3>5 DEF Settled
      <4> QED
        BY <1>5, <2>1, <3>1, <4>1, <4>2, NothingTickets DEF LoopSpawn, Take, queueVars
    <3> QED
      BY <3>4, <3>5
  <2>2. CASE /\ o.op = "Shell" /\ UNCHANGED <<pc, task, call>>
             /\ todo' = (todo \ {o}) \cup {[op |-> "InjectOrRecord", item |-> o.item]}
    <3> DEFINE X == [op |-> "InjectOrRecord", item |-> o.item]
    <3>1. X.op = "InjectOrRecord" /\ X.item = o.item
      OBVIOUS
    <3>2. todo' = (todo \ {o}) \cup {X}
      BY <2>2
    <3> HIDE DEF X
    <3>3. PICK x : x = X
      OBVIOUS
    <3>4. UNCHANGED <<turnState, mailbox, staged, call, task, recorded, accepted, discarded>>
      BY <1>5, <2>2 DEF LoopSpawn, queueVars, itemVars
    <3>5. Arrive("todo", x)
      BY <3>2, <3>3, <3>4 DEF Arrive
    <3>6. Settled("todo", x)
      BY <2>2, SettledStill
    <3>7. \A i : At(i, "todo", x)' => At(i, "todo", o) /\ Carries("todo", o, "todo", x)
      BY <2>2, <3>1, <3>3 DEF At, Carries, Unaccepted, PromisedTo
    <3>8. TicketInv'
      BY <3>4, <3>5, <3>6, <3>7, TicketsMove
    <3> QED
      BY <1>5, <3>8, ItemsStand DEF LoopSpawn
  <2> QED
    BY <1>5, <2>1, <2>2 DEF LoopSpawn
<1>6. CASE LoopMail(o)
  <2>1. /\ todo' = todo \ {o} /\ mailbox' = mailbox \cup {o.item}
        /\ accepted' = accepted \cup {<<o.item, NoTurn>>}
        /\ UNCHANGED <<turnState, staged, task, recorded, discarded>>
        /\ \A a \in Actor : call'[a].items = call[a].items /\ call'[a].turn = call[a].turn
        /\ pc[Loop] = "idle" /\ pc'[Loop] \in {"maybe:check", "idle"}
        /\ \A a \in Actor \ {Loop} : pc'[a] = pc[a]
    BY <1>6, Actors DEF LoopMail, Take, Goto, TypeInv, CallTyped, CallType, PcTyped
  <2>2. Arrive("mailbox", NoTurn)
    BY <2>1 DEF Arrive
  <2>3. Settled("mailbox", NoTurn)
    BY <2>1, Actors, SettledMove DEF Choice, TryPoint
  <2>4. /\ At(o.item, "mailbox", NoTurn)'
        /\ \A i : At(i, "mailbox", NoTurn)' => i = o.item \/ At(i, "mailbox", NoTurn)
    BY <2>1 DEF At
  <2>5. PromisedTo("mailbox", NoTurn, NoTurn)'
    BY DEF PromisedTo
  <2> QED
    BY <1>6, <2>1, <2>2, <2>3, <2>4, <2>5, ServedTickets DEF LoopMail
<1>7. CASE LoopStage(o)
  <2>1. /\ todo' = todo \ {o} /\ staged' = staged \cup {o.item}
        /\ accepted' = accepted \cup {<<o.item, NoTurn>>}
        /\ UNCHANGED <<turnState, mailbox, task, call, recorded, discarded, pc>>
    BY <1>7 DEF LoopStage, Take
  <2>2. Arrive("staged", NoTurn)
    BY <2>1 DEF Arrive
  <2>3. Settled("staged", NoTurn)
    BY <2>1, SettledStill
  <2>4. /\ At(o.item, "staged", NoTurn)'
        /\ \A i : At(i, "staged", NoTurn)' => i = o.item \/ At(i, "staged", NoTurn)
    BY <2>1 DEF At
  <2>5. PromisedTo("staged", NoTurn, NoTurn)'
    BY DEF PromisedTo
  <2> QED
    BY <1>7, <2>1, <2>2, <2>3, <2>4, <2>5, ServedTickets DEF LoopStage
<1>8. CASE LoopRelease(o)
  <2>1. /\ todo' \subseteq todo
        /\ mailbox' = mailbox \cup (staged \cap {o.item}) /\ staged' = staged \ {o.item}
        /\ UNCHANGED <<turnState, task, call, pc, accepted, recorded, discarded>>
    BY <1>8 DEF LoopRelease, Take, itemVars
  <2>2. Arrive("mailbox", NoTurn)
    BY <2>1 DEF Arrive
  <2>3. Settled("mailbox", NoTurn)
    BY <2>1, SettledStill
  <2>4. \A k \in {"mailbox", "staged"} : Carries(k, NoTurn, "mailbox", NoTurn)
    BY DEF Carries, Unaccepted, PromisedTo
  <2>5. \A i : At(i, "mailbox", NoTurn)' =>
          \E k, x : At(i, k, x) /\ Carries(k, x, "mailbox", NoTurn)
    <3>1. \A i : At(i, "mailbox", NoTurn)' =>
            At(i, "mailbox", NoTurn) \/ At(i, "staged", NoTurn)
      BY <2>1 DEF At
    <3> QED
      BY <2>4, <3>1
  <2>6. TicketInv'
    BY <2>1, <2>2, <2>3, <2>5, TicketsMove
  <2> QED
    BY <1>8, <2>6, ItemsStand DEF LoopRelease
<1>9. CASE LoopStartPendingWork(o) \/ LoopInterrupt(o)
  <2>1. /\ \A a \in Actor : call'[a].items = call[a].items
        /\ pc[Loop] = "idle" /\ pc'[Loop] \in {"maybe:check", "abort:take"}
        /\ \A a \in Actor \ {Loop} : pc'[a] = pc[a]
    BY <1>9, Actors
    DEF LoopStartPendingWork, LoopInterrupt, Goto, TypeInv, CallTyped, CallType, PcTyped
  <2>2. Settled("none", "none")
    BY <1>9, <2>1, Actors, SettledMove
    DEF LoopStartPendingWork, LoopInterrupt, Choice, TryPoint
  <2> QED
    BY <1>9, <2>1, <2>2, NothingTickets
    DEF LoopStartPendingWork, LoopInterrupt, Take, queueVars
<1>10. CASE ExtIdleStart(o)
  <2>1. /\ Ext \in Actor /\ call'[Ext].items = {o.item}
        /\ \A a \in Actor \ {Ext} : call'[a] = call[a]
        /\ pc[Ext] = "idle" /\ pc'[Ext] = "try:check"
        /\ \A a \in Actor \ {Ext} : pc'[a] = pc[a]
        /\ UNCHANGED <<task, queueVars, itemVars>>
    BY <1>10, Actors DEF ExtIdleStart, Goto, TypeInv, CallTyped, CallType, PcTyped
  <2>2. Settled("call", Ext)
    BY <2>1, Actors, SettledMove
  <2>3. pc'[Ext] \in Choice
    BY <2>1 DEF Choice
  <2> QED
    BY <1>10, <2>1, <2>2, <2>3, ChoiceTickets DEF ExtIdleStart
<1> QED
  BY <1>1, <1>2, <1>3, <1>4, <1>5, <1>6, <1>7, <1>8, <1>9, <1>10 DEF Request

(* What an actor accepts that starts a turn: nothing, or one item.         *)
LEMMA OneAccepted ==
  ASSUME TypeInv, TypeInv', OnePlace, TicketInv, NEW S, Alone(S),
         NEW k, NEW x, Unaccepted(k, x), \A j \in S : At(j, k, x) /\ j \in Item,
         NEW u \in Turn \cup {NoTurn},
         accepted' = accepted \cup (S \X {u}), UNCHANGED <<recorded, discarded>>
  PROVE  LedgerStep
<1>1. CASE S = {}
  <2>1. UNCHANGED itemVars
    BY <1>1 DEF itemVars
  <2> QED
    BY <2>1, ItemsStand
<1>2. ASSUME NEW j \in S PROVE LedgerStep
  <2>1. S = {j}
    BY DEF Alone
  <2>2. accepted' = accepted \cup {<<j, u>>}
    BY <2>1
  <2> QED
    BY <2>2, ItemAccepted
<1> QED
  BY <1>1, <1>2

(* What get_pending_input returns was in the mailbox or in the slot.       *)
LEMMA DrainedFrom ==
  ASSUME TypeInv, NEW i \in PendingInput
  PROVE  \/ At(i, "mailbox", NoTurn)
         \/ slot # NoSlot /\ At(i, "state", slot.ts)
BY DEF PendingInput, SlotPending, At, TypeInv, SlotTyped

(* start_task takes promised items into its hands.                         *)
LEMMA StartTakeTickets ==
  ASSUME TypeInv, Orderly, OnePlace, OnePlace', TicketInv, NEW a \in Actor, StartTake(a)
  PROVE  TicketInv' /\ LedgerStep
<1>1. /\ call'[a].items = PendingInput /\ call'[a].turn = call[a].turn
      /\ \A b \in Actor \ {a} : call'[b] = call[b]
      /\ UNCHANGED <<todo, task, accepted, recorded, discarded>> /\ DrainPendingInput
      /\ pc[a] = "start:take" /\ pc'[a] = "start:attach"
      /\ \A b \in Actor \ {a} : pc'[b] = pc[b]
  BY DEF StartTake, Goto, TypeInv, CallTyped, CallType, PcTyped, itemVars
<1>2. Arrive("call", a)
  BY <1>1, DrainTakes DEF Arrive
<1>3. Settled("call", a)
  BY <1>1, Actors, SettledMove
<1>4. Carries("mailbox", NoTurn, "call", a)
  BY <1>1 DEF Carries, Unaccepted, PromisedTo, Choice, TryPoint
<1>5. ASSUME slot # NoSlot, NEW ts, ts = slot.ts PROVE Carries("state", ts, "call", a)
  <2>1. pc[call[a].turn] = "queued" /\ ts[1] = call[a].turn
    BY <1>1, <1>5 DEF Orderly, StartPoint
  <2>2. ~Unaccepted("state", ts) /\ ~Unaccepted("call", a)'
    BY <1>1 DEF Unaccepted, Choice, TryPoint
  <2>3. \A t : PromisedTo("state", ts, t) => t = NoTurn
    BY <2>1 DEF PromisedTo
  <2> QED
    BY <2>2, <2>3 DEF Carries, PromisedTo
<1>6. \A i : At(i, "call", a)' => \E k, x : At(i, k, x) /\ Carries(k, x, "call", a)
  <2> SUFFICES ASSUME NEW i, At(i, "call", a)'
               PROVE  \E k, x : At(i, k, x) /\ Carries(k, x, "call", a)
    OBVIOUS
  <2>1. i \in PendingInput
    BY <1>1 DEF At
  <2>2. CASE At(i, "mailbox", NoTurn)
    BY <1>4, <2>2
  <2>3. CASE slot # NoSlot /\ At(i, "state", slot.ts)
    <3>1. PICK ts : ts = slot.ts
      OBVIOUS
    <3> QED
      BY <1>5, <2>3, <3>1
  <2> QED
    BY <2>1, <2>2, <2>3, DrainedFrom
<1>7. TicketInv'
  BY <1>1, <1>2, <1>3, <1>6, TicketsMove
<1> QED
  BY <1>7, ItemsStand DEF StartTake

(* An actor adds the items in its hands to a TurnState.                    *)
LEMMA AttachTickets ==
  ASSUME TypeInv, Orderly, OnePlace, OnePlace', TicketInv, NEW a \in Actor, StartAttach(a)
  PROVE  TicketInv' /\ LedgerStep
<1>0. call[a].turn \in Turn
  BY DEF StartAttach, StartPoint, TypeInv, StartKnows
<1>1. PICK X \in TurnStateId :
        turnState' = [turnState EXCEPT ![X].pending = @ \cup call[a].items]
  BY <1>0, TurnStateIds DEF StartAttach, TypeInv, SlotTyped
<1>a. /\ turnState'[X].pending = turnState[X].pending \cup call[a].items
      /\ \A x \in TurnStateId \ {X} : turnState'[x] = turnState[x]
  BY <1>1 DEF TypeInv, QueuesTyped, QueueType
<1>b. /\ call'[a].items = {} /\ call'[a].turn = call[a].turn
      /\ \A b \in Actor \ {a} : call'[b] = call[b]
      /\ pc[a] = "start:attach" /\ pc'[a] = "start:install"
      /\ \A b \in Actor \ {a} : pc'[b] = pc[b]
  BY DEF StartAttach, Goto, TypeInv, CallTyped, CallType, PcTyped
<1>c. UNCHANGED <<todo, mailbox, staged, task, accepted, recorded, discarded>>
  BY DEF StartAttach, itemVars
<1>3. Arrive("state", X)
  BY <1>a, <1>b, <1>c DEF Arrive
<1>4. Settled("state", X)
  BY <1>b, <1>c, Actors, SettledMove
<1>5. Carries("state", X, "state", X) /\ Carries("call", a, "state", X)
  <2>1. Carries("call", a, "state", X)
    BY <1>b DEF Carries, Unaccepted, PromisedTo, Choice, TryPoint
  <2> QED
    BY <1>4, <2>1, QueueCarries
<1>6. \A i : At(i, "state", X)' => At(i, "state", X) \/ At(i, "call", a)
  BY <1>a DEF At
<1>7. TicketInv'
  BY <1>c, <1>3, <1>4, <1>5, <1>6, TicketsMove
<1> QED
  BY <1>7, ItemsStand DEF StartAttach

(* try_start_turn_if_idle has claimed its turn: its input is accepted.     *)
LEMMA ExtendTickets ==
  ASSUME TypeInv, TypeInv', Orderly, OnePlace, OnePlace', TicketInv, NEW a \in Actor,
         TryExtend(a)
  PROVE  TicketInv' /\ LedgerStep
<1>0. <<call[a].turn, "reserve">> \in TurnStateId /\ call[a].items \in SUBSET Item
  BY TurnStateIds DEF TryExtend, TryPoint, TypeInv, StartKnows, CallTyped, CallType
<1>1. PICK X \in TurnStateId : X = <<call[a].turn, "reserve">>
  BY <1>0
<1>s. PICK S \in SUBSET Item : S = call[a].items
  BY <1>0
<1>2. /\ call'[a].items = {} /\ call'[a].turn = call[a].turn
      /\ \A b \in Actor \ {a} : call'[b] = call[b]
      /\ turnState'[X].pending = turnState[X].pending \cup S
      /\ \A x \in TurnStateId \ {X} : turnState'[x] = turnState[x]
      /\ UNCHANGED <<todo, mailbox, staged, task, recorded, discarded>>
      /\ accepted' = accepted \cup (S \X {NoTurn})
      /\ pc[a] = "try:extend" /\ pc'[a] = "start:take"
      /\ \A b \in Actor \ {a} : pc'[b] = pc[b]
  BY <1>1, <1>s
  DEF TryExtend, Goto, TypeInv, CallTyped, CallType, PcTyped, itemVars, QueuesTyped, QueueType
<1>3. Arrive("state", X)
  BY <1>2 DEF Arrive
<1>4. Settled("state", X)
  BY <1>2, Actors, SettledMove
<1>5. Carries("state", X, "state", X)
  BY <1>4, QueueCarries
<1>6. \A i : At(i, "state", X)' => i \in S \/ At(i, "state", X)
  BY <1>2 DEF At
<1>7. Unaccepted("call", a) /\ \A j \in S : At(j, "call", a) /\ At(j, "state", X)'
  BY <1>2, <1>s DEF Unaccepted, Choice, TryPoint, At
<1>8. ~Unaccepted("state", X)' /\ PromisedTo("state", X, NoTurn)'
  BY DEF Unaccepted, PromisedTo
<1>9. TicketInv'
  BY <1>2, <1>3, <1>4, <1>5, <1>6, <1>7, <1>8, TicketsMoved
<1>10. Alone(S)
  BY <1>2, <1>s DEF Orderly, Choice, TryPoint
<1>11. LedgerStep
  BY <1>2, <1>7, <1>10, OneAccepted
<1> QED
  BY <1>9, <1>11

(* A turn is created for an actor that has nothing to give it.             *)
LEMMA NewTurnTickets ==
  ASSUME TypeInv, OnePlace, OnePlace', TicketInv, NEW a \in Actor, NEW t \in Turn, NEW p,
         NewTurn(a, t, "Regular", {}, p), p \notin {"unused", "queued", "route"},
         pc[a] \notin {"unused", "route"}, p \in Choice <=> pc[a] \in Choice,
         UNCHANGED <<todo, queueVars, itemVars>>
  PROVE  TicketInv' /\ LedgerStep
<1>1. \A b \in Actor : call'[b].items = call[b].items
  BY DEF NewTurn, TypeInv, CallTyped, CallType
<1>2. \A u \in Turn : task'[u].items \subseteq task[u].items
  BY DEF NewTurn, NewTask, TypeInv, TaskTyped
<1>3. pc[Loop] = "route" => a # Loop
  OBVIOUS
<1>5. Settled("none", "none")
  BY <1>3, SettledNew
<1> QED
  BY <1>1, <1>2, <1>5, NothingTickets DEF queueVars

(* An actor gives its reservation up, and the input with it.               *)
LEMMA GiveUpTickets ==
  ASSUME TypeInv, Orderly, OnePlace, OnePlace', TicketInv, NEW a \in Actor, NEW p,
         pc[a] \in TryPoint, GiveUpReservation(a, p), p \notin {"unused", "queued", "route"}
  PROVE  TicketInv' /\ LedgerStep
<1>1. PICK t \in Turn : t = call[a].turn
  BY DEF TypeInv, StartKnows
<1>2. pc[t] = "queued" /\ a # t
  BY <1>1 DEF Orderly, TryPoint
<1>3. /\ pc'[a] = p /\ pc'[t] = "rejected"
      /\ \A b \in Actor \ {a, t} : pc'[b] = pc[b]
      /\ call'[a].items = {}
      /\ \A b \in Actor \ {a} : call'[b] = call[b]
      /\ task' = task
  BY <1>1, <1>2, Actors DEF GiveUpReservation, TypeInv, PcTyped, CallTyped, CallType
<1>4. \A b \in Actor : call'[b].items = {} \/ (pc'[b] \in Choice <=> pc[b] \in Choice)
  BY <1>2, <1>3 DEF Choice, TryPoint
<1>5. \A u \in Turn : Unspawned(u)' <=> Unspawned(u)
  <2>1. pc'[Loop] = "route" <=> (a # Loop /\ pc[Loop] = "route")
    BY <1>3, Actors
  <2>2. a = Loop => pc[Loop] # "route"
    BY DEF TryPoint
  <2> QED
    BY <1>3, <2>1, <2>2, Actors DEF Unspawned
<1>6. \A u \in Turn : pc'[u] \in {"unused", "queued"} => pc[u] \in {"unused", "queued"}
  BY <1>3, Actors
<1>7. Settled("none", "none")
  BY <1>4, <1>5, <1>6 DEF Settled
<1>8. \A b \in Actor : call'[b].items \subseteq call[b].items
  BY <1>3
<1> QED
  BY <1>7, <1>8, NothingTickets DEF GiveUpReservation, queueVars

(* start_task installs its turn in a slot without a task.                  *)
LEMMA InstallTickets ==
  ASSUME TypeInv, Orderly, OnePlace, OnePlace', TicketInv, NEW a \in Actor, StartInstall(a)
  PROVE  TicketInv' /\ LedgerStep
<1>1. PICK t \in Turn : t = call[a].turn
  BY DEF StartInstall, StartPoint, TypeInv, StartKnows
<1>2. pc[a] = "start:install" /\ pc[t] = "queued" /\ a # t /\ slot.task = NoTurn
  BY <1>1 DEF StartInstall, StartPoint, Orderly, NoSlot
<1>3. /\ pc'[a] \in {"idle", "exited", "finish:wake", "done"} /\ pc'[t] = "begin"
      /\ \A b \in Actor \ {a, t} : pc'[b] = pc[b]
      /\ \A b \in Actor : call'[b].items = call[b].items
      /\ \A b \in Actor \ {a} : call'[b] = call[b]
      /\ task' = task
  BY <1>1, <1>2, Actors DEF StartInstall, TypeInv, CallTyped, CallType
<1>4. \A b \in Actor : pc'[b] \in Choice <=> pc[b] \in Choice
  BY <1>2, <1>3 DEF Choice, TryPoint
<1>5. \A u \in Turn : Unspawned(u)' <=> Unspawned(u)
  <2>1. pc'[Loop] = "route" <=> (a # Loop /\ pc[Loop] = "route")
    BY <1>3, Actors
  <2>2. a = Loop => pc[Loop] # "route"
    BY <1>2
  <2> QED
    BY <1>3, <2>1, <2>2, Actors DEF Unspawned
<1>6. \A u \in Turn : pc'[u] \in {"unused", "queued"} => pc[u] \in {"unused", "queued"}
  BY <1>2, <1>3, Actors
<1>7. Settled("none", "none")
  BY <1>4, <1>5, <1>6 DEF Settled
<1> QED
  BY <1>3, <1>7, NothingTickets DEF StartInstall, queueVars

(* Every step of a start keeps the ledger.                                 *)
LEMMA StarterTickets ==
  ASSUME TypeInv, TypeInv', Orderly, OnePlace, OnePlace', TicketInv, NEW a \in Actor,
         StartStep(a)
  PROVE  TicketInv' /\ LedgerStep
<1>r. call[a].ret \in {"idle", "exited", "finish:wake", "done"}
  BY DEF TypeInv, CallTyped, CallType
<1>0. ASSUME NEW p, Goto(a, p), p \notin {"unused", "queued", "route"}, pc[a] # "route",
             call'[a].items = {} \/ (p \in Choice <=> pc[a] \in Choice),
             call' \in {call, [call EXCEPT ![a].items = {}]},
             UNCHANGED <<todo, queueVars, task, itemVars>>
      PROVE  TicketInv' /\ LedgerStep
  <2>1. /\ pc'[a] = p /\ \A b \in Actor \ {a} : pc'[b] = pc[b]
        /\ \A b \in Actor : /\ call'[b].items \subseteq call[b].items
                            /\ call'[b].turn = call[b].turn
    BY <1>0 DEF Goto, TypeInv, PcTyped, CallTyped, CallType
  <2>2. Settled("none", "none")
    BY <1>0, <2>1, Actors, SettledMove
  <2> QED
    BY <1>0, <2>1, <2>2, NothingTickets DEF queueVars
<1>d. ASSUME call' = [call EXCEPT ![a].items = {}] PROVE call'[a].items = {}
  BY <1>d DEF TypeInv, CallTyped, CallType
<1>1. CASE MaybeCheck(a)
  BY <1>0, <1>1, <1>r DEF MaybeCheck, Return, Choice, TryPoint
<1>2. CASE MaybeReserve(a)
  <2>1. CASE Return(a) /\ UNCHANGED <<slot, call, task>>
    BY <1>0, <1>2, <2>1, <1>r DEF MaybeReserve, Return, Choice, TryPoint
  <2>2. ASSUME NEW t \in Turn, NewTurn(a, t, "Regular", {}, "start:take")
        PROVE  TicketInv' /\ LedgerStep
    BY <1>2, <2>2, NewTurnTickets DEF MaybeReserve, Choice, TryPoint
  <2> QED
    BY <1>2, <2>1, <2>2 DEF MaybeReserve
<1>3. CASE TryCheck(a)
  <2>1. CASE Goto(a, "try:reserve") /\ UNCHANGED call
    BY <1>0, <1>3, <2>1 DEF TryCheck, Choice
  <2>2. CASE Return(a) /\ call' = [call EXCEPT ![a].items = {}]
    BY <1>0, <1>3, <1>d, <2>2, <1>r DEF TryCheck, Return
  <2> QED
    BY <1>3, <2>1, <2>2 DEF TryCheck
<1>4. CASE TryReserve(a)
  <2>1. CASE Return(a) /\ call' = [call EXCEPT ![a].items = {}] /\ UNCHANGED task
    BY <1>0, <1>4, <1>d, <2>1, <1>r DEF TryReserve, Return
  <2>2. ASSUME NEW t \in Turn, NewTurn(a, t, "Regular", {}, "try:recheck")
        PROVE  TicketInv' /\ LedgerStep
    BY <1>4, <2>2, NewTurnTickets DEF TryReserve, Choice, TryPoint
  <2> QED
    BY <1>4, <2>1, <2>2 DEF TryReserve
<1>5. CASE TryRecheck(a)
  <2>1. CASE GiveUpReservation(a, "maybe:check")
    BY <1>5, <2>1, GiveUpTickets DEF TryRecheck, TryPoint
  <2>2. CASE /\ Goto(a, IF pc[a] = "try:recheck" THEN "try:route" ELSE "try:claim")
             /\ UNCHANGED <<todo, slot, queueVars, call, abort, task, sent, itemVars>>
    BY <1>0, <1>5, <2>2 DEF TryRecheck, Choice, TryPoint
  <2> QED
    BY <1>5, <2>1, <2>2 DEF TryRecheck
<1>6. CASE TryRoute(a)
  <2>1. CASE GiveUpReservation(a, call[a].ret)
    BY <1>6, <1>r, <2>1, GiveUpTickets DEF TryRoute, TryPoint
  <2>2. CASE /\ Goto(a, "try:routed")
             /\ UNCHANGED <<todo, slot, queueVars, call, abort, task, sent, itemVars>>
    BY <1>0, <1>6, <2>2 DEF TryRoute, Choice, TryPoint
  <2> QED
    BY <1>6, <2>1, <2>2 DEF TryRoute
<1>7. CASE TryClaim(a)
  <2>1. CASE GiveUpReservation(a, call[a].ret)
    BY <1>7, <1>r, <2>1, GiveUpTickets DEF TryClaim, TryPoint
  <2>2. CASE /\ Goto(a, "try:extend")
             /\ UNCHANGED <<todo, slot, queueVars, call, abort, task, sent, itemVars>>
    BY <1>0, <1>7, <2>2 DEF TryClaim, Choice, TryPoint
  <2> QED
    BY <1>7, <2>1, <2>2 DEF TryClaim
<1> QED
  BY <1>1, <1>2, <1>3, <1>4, <1>5, <1>6, <1>7, StartTakeTickets, AttachTickets,
     InstallTickets, ExtendTickets
  DEF StartStep

(* What one place held is dropped, for the turn it was held for.           *)
LEMMA ItemsDropped ==
  ASSUME TypeInv, TypeInv', OnePlace, TicketInv, NEW t \in Turn,
         NEW k \in {"task", "state"}, NEW x, ~Unaccepted(k, x),
         \A u : PromisedTo(k, x, u) => u \in {t, NoTurn},
         NEW items, \A i \in items : At(i, k, x),
         discarded' = discarded \cup items, UNCHANGED <<accepted, recorded>>
  PROVE  LedgerStep
<1>1. recorded' = recorded \cup ((items \ items) \X {t})
  OBVIOUS
<1>2. items \in SUBSET items
  OBVIOUS
<1> QED
  BY <1>1, <1>2, ItemsSettled

(* The loop accepts the input of the turn it spawns.                       *)
LEMMA RoutedTickets ==
  ASSUME TypeInv, TypeInv', Orderly, OnePlace, OnePlace', TicketInv, LoopRouted
  PROVE  TicketInv' /\ LedgerStep
<1>1. PICK t \in Turn : t = call[Loop].turn
  BY DEF LoopRouted, TypeInv, LoopKnows
<1>2. pc[Loop] = "route" /\ pc[t] = "queued" /\ task[t].kind = "Regular" /\ Alone(task[t].items)
  BY <1>1 DEF LoopRouted, Orderly
<1>c. \A b \in Actor : call'[b].items = call[b].items
  BY DEF LoopRouted, TypeInv, CallTyped, CallType
<1>3. CASE /\ Goto(Loop, "abort:take") /\ UNCHANGED task
           /\ accepted' = accepted \cup (task[t].items \X {t})
  <2>0. UNCHANGED <<todo, turnState, mailbox, staged, recorded, discarded>>
    BY DEF LoopRouted, queueVars
  <2>1. pc'[Loop] = "abort:take" /\ \A b \in Actor \ {Loop} : pc'[b] = pc[b]
    BY <1>3, Actors DEF Goto, TypeInv, PcTyped
  <2>2. Arrive("task", t)
    BY <1>3, <1>c, <2>0 DEF Arrive
  <2>3. Settled("task", t)
    <3>1. \A u \in Turn \ {t} : Unspawned(u)' <=> Unspawned(u)
      BY <1>1, <1>2, <1>3, <2>1 DEF Unspawned
    <3>2. \A b \in Actor : pc'[b] \in Choice <=> pc[b] \in Choice
      BY <1>2, <2>1 DEF Choice, TryPoint
    <3> QED
      BY <2>1, <3>1, <3>2, Actors DEF Settled
  <2>4. ~Unaccepted("task", t)' /\ PromisedTo("task", t, t)'
    BY <1>2, <1>3, <2>1 DEF Unaccepted, Unspawned, PromisedTo
  <2>5. PICK S : S = task[t].items
    OBVIOUS
  <2>6. Unaccepted("task", t) /\ \A j \in S : At(j, "task", t) /\ j \in Item
    BY <1>1, <1>2, <2>5 DEF Unaccepted, Unspawned, At, TypeInv, TaskTyped, TaskType
  <2>7. \A i : At(i, "task", t)' <=> i \in S
    BY <1>3, <2>5 DEF At
  <2>8. TicketInv'
    BY <1>3, <2>0, <2>2, <2>3, <2>4, <2>5, <2>6, <2>7, TicketsMoved
  <2>9. LedgerStep
    BY <1>2, <1>3, <2>0, <2>5, <2>6, OneAccepted
  <2> QED
    BY <2>8, <2>9
<1>4. CASE /\ pc' = [pc EXCEPT ![Loop] = "idle", ![t] = "rejected"]
           /\ task' = [task EXCEPT ![t].items = {}] /\ UNCHANGED <<abort, accepted>>
  <2>1. /\ pc'[Loop] = "idle" /\ pc'[t] = "rejected"
        /\ \A b \in Actor \ {Loop, t} : pc'[b] = pc[b]
        /\ task'[t].items = {} /\ \A u \in Turn \ {t} : task'[u] = task[u]
    BY <1>4, Actors DEF TypeInv, PcTyped, TaskTyped, TaskType
  <2>2. Settled("none", "none")
    <3>1. \A u \in Turn : task'[u].items = {} \/ (Unspawned(u)' <=> Unspawned(u))
      BY <1>1, <2>1 DEF Unspawned
    <3>2. \A b \in Actor : pc'[b] \in Choice <=> pc[b] \in Choice
      BY <1>2, <2>1 DEF Choice, TryPoint
    <3>3. \A u \in Turn : pc'[u] \in {"unused", "queued"} => pc[u] \in {"unused", "queued"}
      BY <2>1, Actors
    <3> QED
      BY <3>1, <3>2, <3>3 DEF Settled
  <2>3. \A u \in Turn : task'[u].items \subseteq task[u].items
    BY <2>1
  <2>4. UNCHANGED itemVars
    BY <1>4 DEF LoopRouted, itemVars
  <2> QED
    BY <1>c, <2>2, <2>3, <2>4, NothingTickets DEF LoopRouted, queueVars
<1> QED
  BY <1>1, <1>3, <1>4 DEF LoopRouted

(* An abort drops what was promised to the aborted turn.                   *)
LEMMA AbortTickets ==
  ASSUME TypeInv, TypeInv', Orderly, OnePlace, OnePlace', TicketInv,
         AbortTake \/ AbortCancel \/ AbortKill \/ AbortEvent \/ AbortClear
  PROVE  TicketInv' /\ LedgerStep
<1>v. pc[Loop] \in AbortPoint =>
        /\ abort.victim \in Turn /\ abort.ts \in TurnStateId
        /\ abort.ts[1] = abort.victim /\ pc[abort.victim] \notin Choice
  BY DEF TypeInv, LoopKnows, Orderly
<1>0. ASSUME NEW p, Goto(Loop, p), p \notin {"unused", "queued", "route"} \cup Choice,
             pc[Loop] \notin {"route"} \cup Choice, UNCHANGED <<call, task>>
      PROVE  Settled("none", "none")
  <2>1. pc'[Loop] = p /\ \A b \in Actor \ {Loop} : pc'[b] = pc[b]
    BY <1>0, Actors DEF Goto, TypeInv, PcTyped
  <2> QED
    BY <1>0, <2>1, Actors, SettledMove
<1>1. CASE AbortTake
  <2>1. PICK p \in {"abort:cancel", "start:take", "idle", "exited", "finish:wake", "done"} :
          Goto(Loop, p)
    BY <1>1, Actors DEF AbortTake, TypeInv, CallTyped, CallType
  <2>2. Settled("none", "none")
    BY <1>0, <1>1, <2>1 DEF AbortTake, Choice, TryPoint
  <2> QED
    BY <1>1, <2>2, NothingTickets DEF AbortTake, queueVars
<1>2. CASE AbortEvent
  <2>2. Settled("none", "none")
    BY <1>0, <1>2 DEF AbortEvent, Choice, TryPoint
  <2> QED
    BY <1>2, <2>2, NothingTickets DEF AbortEvent, queueVars
<1>s. ASSUME NEW v \in Turn, v = abort.victim, AbortCancel \/ AbortKill
      PROVE  /\ Settled("none", "none")
             /\ \A u \in Turn \ {v} : task'[u] = task[u]
             /\ task'[v].items \subseteq task[v].items
  <2>1. /\ pc'[Loop] \in {"abort:clear", "abort:kill", "abort:event"}
        /\ pc'[v] \in {pc[v], "done", "dropped", "killed"}
        /\ \A b \in Actor \ {Loop, v} : pc'[b] = pc[b]
        /\ pc[Loop] \in {"abort:cancel", "abort:kill"}
    BY <1>s, Actors DEF AbortCancel, AbortKill, TypeInv, PcTyped
  <2>2. /\ task'[v].kind = task[v].kind /\ task'[v].items \subseteq task[v].items
        /\ \A u \in Turn \ {v} : task'[u] = task[u]
    BY <1>s DEF AbortCancel, AbortKill, NewTask, TypeInv, TaskTyped, TaskType
  <2>3. \A b \in Actor : pc'[b] \in Choice <=> pc[b] \in Choice
    BY <1>s, <1>v, <2>1 DEF Choice, TryPoint, AbortPoint
  <2>4. \A u \in Turn : Unspawned(u)' <=> Unspawned(u)
    BY <2>1, <2>2 DEF Unspawned
  <2>5. \A u \in Turn : pc'[u] \in {"unused", "queued"} => pc[u] \in {"unused", "queued"}
    BY <2>1, Actors
  <2> QED
    BY <2>2, <2>3, <2>4, <2>5 DEF Settled
<1>3. CASE AbortCancel
  <2>1. PICK v \in Turn : v = abort.victim
    BY <1>3, <1>v DEF AbortCancel, AbortPoint
  <2>2. Settled("none", "none") /\ \A u \in Turn : task'[u].items \subseteq task[u].items
    BY <1>3, <1>s, <2>1
  <2> QED
    BY <1>3, <2>2, NothingTickets DEF AbortCancel, queueVars
<1>4. CASE AbortKill
  <2>1. PICK v \in Turn : v = abort.victim
    BY <1>4, <1>v DEF AbortKill, AbortPoint
  <2>2. Settled("none", "none") /\ \A u \in Turn : task'[u].items \subseteq task[u].items
    BY <1>4, <1>s, <2>1
  <2>3. task'[v].items = {}
    BY <1>4, <2>1 DEF AbortKill, NewTask, TypeInv, TaskTyped, TaskType
  <2>4. PICK items : items = task[v].items
    OBVIOUS
  <2>5. /\ discarded' = discarded \cup items /\ UNCHANGED <<accepted, recorded>>
        /\ \A i \in items : At(i, "task", v) /\ ~At(i, "task", v)'
    BY <1>4, <2>1, <2>3, <2>4 DEF AbortKill, At
  <2>6. TicketInv'
    BY <1>4, <2>2, <2>5, TicketsStay DEF AbortKill, queueVars
  <2>7. LedgerStep
    <3>1. CASE Unaccepted("task", v)
      BY <2>5, <3>1, ItemsForgotten
    <3>2. CASE ~Unaccepted("task", v)
      <4>1. \A u : PromisedTo("task", v, u) => u \in {v, NoTurn}
        BY DEF PromisedTo
      <4> QED
        BY <2>5, <3>2, <4>1, ItemsDropped
    <3> QED
      BY <3>1, <3>2
  <2> QED
    BY <2>6, <2>7
<1>5. CASE AbortClear
  <2>1. PICK v \in Turn, X \in TurnStateId : v = abort.victim /\ X = abort.ts /\ X[1] = v
    BY <1>5, <1>v DEF AbortClear, AbortPoint
  <2>2. Settled("none", "none")
    <3>1. PICK p \in {"start:take", "maybe:check"} : Goto(Loop, p)
      BY <1>5 DEF AbortClear
    <3> QED
      BY <1>0, <1>5, <3>1 DEF AbortClear, Choice, TryPoint
  <2>3. /\ turnState'[X].pending = {}
        /\ \A ts \in TurnStateId \ {X} : turnState'[ts] = turnState[ts]
    BY <1>5, <2>1 DEF AbortClear, NewTurnState, TypeInv, QueuesTyped
  <2>4. PICK items : items = turnState[X].pending
    OBVIOUS
  <2>5. /\ discarded' = discarded \cup items /\ UNCHANGED <<accepted, recorded>>
        /\ \A i \in items : At(i, "state", X) /\ ~At(i, "state", X)'
    BY <1>5, <2>1, <2>3, <2>4 DEF AbortClear, At
  <2>6. \A ts \in TurnStateId : turnState'[ts].pending \subseteq turnState[ts].pending
    BY <2>3
  <2>7. TicketInv'
    BY <1>5, <2>2, <2>5, <2>6, TicketsStay DEF AbortClear
  <2>8. LedgerStep
    <3>1. ~Unaccepted("state", X) /\ \A u : PromisedTo("state", X, u) => u \in {v, NoTurn}
      BY <2>1 DEF PromisedTo, Unaccepted
    <3> QED
      BY <2>5, <3>1, ItemsDropped
  <2> QED
    BY <2>7, <2>8
<1> QED
  BY <1>1, <1>2, <1>3, <1>4, <1>5

(* A turn's task goes on, and nothing arrives anywhere.                    *)
LEMMA TaskGoes ==
  ASSUME TypeInv, NEW t \in Turn, NEW p, Goto(t, p),
         p \notin {"unused", "queued"} \cup Choice, pc[t] \notin Choice,
         NEW K, NEW X, \A a \in Actor : call'[a].turn = call[a].turn,
         \A u \in Turn : \/ K = "task" /\ X = u
                         \/ task'[u].items = {}
                         \/ task'[u].kind = task[u].kind
  PROVE  Settled(K, X)
<1>1. pc'[t] = p /\ \A b \in Actor \ {t} : pc'[b] = pc[b]
  BY Actors DEF Goto, TypeInv, PcTyped
<1>2. pc'[Loop] = pc[Loop] /\ call'[Loop].turn = call[Loop].turn
  BY <1>1, Actors
<1> QED
  BY <1>1, <1>2, Actors, SettledMove

(* A regular turn in its loop was spawned.                                 *)
LEMMA RegularSpawned ==
  ASSUME Orderly, NEW t \in Turn, pc[t] \in RegularPoint
  PROVE  ~Unaccepted("task", t)
<1>1. task[t].kind = "Regular" /\ pc[t] # "queued"
  BY DEF Orderly, RegularPoint
<1>2. ~(pc[Loop] = "route" /\ call[Loop].turn = t)
  BY <1>1 DEF Orderly
<1> QED
  BY <1>1, <1>2 DEF Unaccepted, Unspawned

(* run_hooks_and_record_inputs settles the items in the task's hands.      *)
LEMMA RecordTickets ==
  ASSUME TypeInv, TypeInv', Orderly, OnePlace, OnePlace', TicketInv, NEW t \in Turn,
         pc[t] \in {"prepare", "record"}, NEW next \in {"drain", "flush", "sample"},
         RecordInputs(t, task[t].items, next),
         task'[t].items = {}, task'[t].kind = task[t].kind,
         \A u \in Turn \ {t} : task'[u] = task[u],
         UNCHANGED <<todo, turnState, mailbox, staged, call, accepted>>
  PROVE  TicketInv' /\ LedgerStep
<1>1. PICK items : items = task[t].items
  OBVIOUS
<1>2. PICK dropped \in SUBSET items :
        /\ recorded' = recorded \cup ((items \ dropped) \X {t})
        /\ discarded' = discarded \cup dropped
        /\ \E p \in {"after", next} : Goto(t, p)
  BY <1>1 DEF RecordInputs
<1>3. \A i \in items : At(i, "task", t) /\ ~At(i, "task", t)'
  BY <1>1 DEF At
<1>4. ~Unaccepted("task", t)
  BY RegularSpawned DEF RegularPoint
<1>5. \A u : PromisedTo("task", t, u) => u \in {t, NoTurn} /\ PromisedTo("recorded", t, u)'
  BY DEF PromisedTo
<1>6. LedgerStep
  BY <1>2, <1>3, <1>4, <1>5, ItemsSettled
<1>7. \A i, u : <<i, u>> \in recorded' => <<i, u>> \in recorded \/ (u = t /\ i \in items \ dropped)
  BY <1>2
<1>8. Arrive("recorded", t)
  BY <1>7 DEF Arrive
<1>9. Settled("recorded", t)
  BY <1>2, TaskGoes DEF Choice, TryPoint
<1>10. Carries("task", t, "recorded", t)
  BY <1>4, <1>5 DEF Carries, Unaccepted
<1>11. Carries("recorded", t, "recorded", t)
  BY <1>9, QueueCarries
<1>12. \A i : At(i, "recorded", t)' =>
           \E k, x : At(i, k, x) /\ Carries(k, x, "recorded", t)
  <2>1. \A i : At(i, "recorded", t)' => At(i, "recorded", t) \/ At(i, "task", t)
    BY <1>3, <1>7 DEF At
  <2> QED
    BY <1>10, <1>11, <2>1
<1>13. ASSUME NEW i \in discarded', i \notin discarded
       PROVE  ~At(i, "recorded", t)' /\ At(i, "task", t) /\ ~At(i, "task", t)'
  <2>1. i \in dropped
    BY <1>2, <1>13
  <2>2. ~At(i, "recorded", t)
    BY <1>3, <2>1 DEF OnePlace
  <2>3. ~At(i, "recorded", t)'
    BY <1>7, <2>1, <2>2 DEF At
  <2> QED
    BY <1>3, <2>1, <2>3
<1>14. TicketInv'
  BY <1>8, <1>9, <1>12, <1>13, TicketsMove
<1> QED
  BY <1>6, <1>14

(* get_pending_input hands the task what is for it, or for any turn.       *)
LEMMA DrainTickets ==
  ASSUME TypeInv, Orderly, OnePlace, OnePlace', TicketInv, NEW t \in Turn, TaskDrain(t)
  PROVE  TicketInv' /\ LedgerStep
<1>0. /\ pc[t] = "drain" /\ Goto(t, "record")
      /\ UNCHANGED <<todo, call, accepted, recorded, discarded>>
  BY DEF TaskDrain, itemVars
<1>1. CASE UNCHANGED <<task, queueVars>>
  <2>1. Settled("none", "none")
    BY <1>0, <1>1, TaskGoes DEF Choice, TryPoint
  <2> QED
    BY <1>0, <1>1, <2>1, NothingTickets DEF queueVars, itemVars
<1>2. CASE task' = [task EXCEPT ![t].items = PendingInput] /\ DrainPendingInput
  <2>1. /\ task'[t].items = PendingInput /\ task'[t].kind = task[t].kind
        /\ \A u \in Turn \ {t} : task'[u] = task[u]
    BY <1>2 DEF TypeInv, TaskTyped, TaskType
  <2>2. Arrive("task", t)
    BY <1>0, <1>2, <2>1, DrainTakes DEF Arrive
  <2>3. Settled("task", t)
    BY <1>0, <2>1, TaskGoes DEF Choice, TryPoint
  <2>4. ~Unaccepted("task", t)'
    <3>1. pc'[Loop] = pc[Loop]
      BY <1>0, Actors DEF Goto, TypeInv, PcTyped
    <3>2. ~Unaccepted("task", t)
      BY <1>0, RegularSpawned DEF RegularPoint
    <3> QED
      BY <1>0, <2>1, <3>1, <3>2 DEF Unaccepted, Unspawned
  <2>5. Carries("mailbox", NoTurn, "task", t)
    BY <2>4 DEF Carries, Unaccepted, PromisedTo
  <2>6. ASSUME slot # NoSlot, NEW ts, ts = slot.ts PROVE Carries("state", ts, "task", t)
    <3>1. Running(t)
      BY <1>0 DEF Running, RunPoint
    <3>2. ts[1] = t
      BY <2>6, <3>1, Actors DEF Orderly
    <3> QED
      BY <2>4, <3>2 DEF Carries, Unaccepted, PromisedTo
  <2>7. \A i : At(i, "task", t)' => \E k, x : At(i, k, x) /\ Carries(k, x, "task", t)
    <3> SUFFICES ASSUME NEW i, At(i, "task", t)'
                 PROVE  \E k, x : At(i, k, x) /\ Carries(k, x, "task", t)
      OBVIOUS
    <3>1. i \in PendingInput
      BY <2>1 DEF At
    <3>2. CASE At(i, "mailbox", NoTurn)
      BY <2>5, <3>2
    <3>3. CASE slot # NoSlot /\ At(i, "state", slot.ts)
      <4>1. PICK ts : ts = slot.ts
        OBVIOUS
      <4> QED
        BY <2>6, <3>3, <4>1
    <3> QED
      BY <3>1, <3>2, <3>3, DrainedFrom
  <2>8. TicketInv'
    BY <1>0, <2>2, <2>3, <2>7, TicketsMove
  <2> QED
    BY <2>8, ItemsStand DEF TaskDrain
<1> QED
  BY <1>1, <1>2 DEF TaskDrain

(* A running turn records or drops what was promised to it.                *)
LEMMA RunTickets ==
  ASSUME TypeInv, TypeInv', Orderly, OnePlace, OnePlace', TicketInv, NEW t \in Turn,
         RunStep(t)
  PROVE  TicketInv' /\ LedgerStep
<1>d. CASE TaskDrain(t)
  BY <1>d, DrainTickets
<1>q. ASSUME ~TaskDrain(t)
      PROVE  /\ Settled("none", "none")
             /\ UNCHANGED <<todo, mailbox, staged, call, accepted>>
             /\ \A u \in Turn : task'[u].items \subseteq task[u].items
             /\ \A ts \in TurnStateId : turnState'[ts].pending = turnState[ts].pending
  <2>1. /\ UNCHANGED <<todo, call, accepted>>
        /\ pc[t] \in RunPoint /\ pc'[t] \in RunPoint \cup {"done"}
        /\ \A b \in Actor \ {t} : pc'[b] = pc[b]
    BY RunShape
  <2>2. /\ \A u \in Turn : task'[u].kind = task[u].kind
        /\ \A u \in Turn : task'[u].items \subseteq task[u].items
    BY <1>q, TaskShape
  <2>3. UNCHANGED <<mailbox, staged>>
        /\ \A ts \in TurnStateId : turnState'[ts].pending = turnState[ts].pending
    BY <1>q, RunQueues
  <2>4. /\ pc[t] \notin Choice /\ pc'[t] \notin Choice
        /\ pc'[t] \notin {"unused", "queued"}
    BY <2>1 DEF Choice, TryPoint, RunPoint
  <2>5. pc'[Loop] = pc[Loop] /\ t \in Actor
    BY <2>1, Actors
  <2>6. Settled("none", "none")
    BY <2>1, <2>2, <2>4, <2>5, SettledMove
  <2> QED
    BY <2>1, <2>2, <2>3, <2>6
<1>1. CASE TaskPrepare(t)
  <2>1. PICK next \in {"drain", "flush"} : RecordInputs(t, task[t].items, next)
    BY <1>1 DEF TaskPrepare
  <2>2. /\ task'[t].items = {} /\ task'[t].kind = task[t].kind
        /\ \A u \in Turn \ {t} : task'[u] = task[u]
    <3>1. PICK r, b : task' = [task EXCEPT ![t].items = {}, ![t].result = r, ![t].canDrain = b]
      BY <1>1 DEF TaskPrepare
    <3> QED
      BY <3>1 DEF TypeInv, TaskTyped, TaskType
  <2>3. pc[t] \in {"prepare", "record"} /\ next \in {"drain", "flush", "sample"}
        /\ UNCHANGED <<todo, turnState, mailbox, staged, call, accepted>>
    BY <1>1 DEF TaskPrepare, queueVars
  <2> QED
    BY <2>1, <2>2, <2>3, RecordTickets
<1>2. CASE TaskRecord(t)
  <2>1. RecordInputs(t, task[t].items, "sample")
    BY <1>2 DEF TaskRecord
  <2>2. /\ task'[t].items = {} /\ task'[t].kind = task[t].kind
        /\ \A u \in Turn \ {t} : task'[u] = task[u]
    BY <1>2 DEF TaskRecord, TypeInv, TaskTyped, TaskType
  <2>3. pc[t] \in {"prepare", "record"} /\ "sample" \in {"drain", "flush", "sample"}
        /\ UNCHANGED <<todo, turnState, mailbox, staged, call, accepted>>
    BY <1>2 DEF TaskRecord, queueVars
  <2> QED
    BY <2>1, <2>2, <2>3, RecordTickets
<1>3. CASE TaskPrepareFailed(t)
  <2>0. ~TaskDrain(t) /\ pc[t] = "prepare"
    BY <1>3 DEF TaskPrepareFailed, TaskDrain
  <2>1. task'[t].items = {}
    BY <1>3 DEF TaskPrepareFailed, TypeInv, TaskTyped, TaskType
  <2>2. PICK items : items = task[t].items
    OBVIOUS
  <2>3. /\ discarded' = discarded \cup items /\ UNCHANGED <<accepted, recorded>>
        /\ \A i \in items : At(i, "task", t) /\ ~At(i, "task", t)'
    BY <1>3, <2>1, <2>2 DEF TaskPrepareFailed, At
  <2>4. TicketInv'
    BY <1>q, <2>0, <2>3, TicketsStay
  <2>5. ~Unaccepted("task", t)
    BY <2>0, RegularSpawned DEF RegularPoint
  <2>6. \A u : PromisedTo("task", t, u) => u \in {t, NoTurn}
    BY DEF PromisedTo
  <2>7. LedgerStep
    BY <2>3, <2>5, <2>6, ItemsDropped
  <2> QED
    BY <2>4, <2>7
<1>4. CASE ~TaskDrain(t) /\ ~TaskPrepare(t) /\ ~TaskRecord(t) /\ ~TaskPrepareFailed(t)
  <2>1. UNCHANGED itemVars
    BY <1>4
    DEF RunStep, TaskBegin, TaskWork, TaskStream, TaskFollowUp, TaskAnswered,
        TaskSampleFailed, TaskStop, TaskStopBlocked, TaskAfterTurn, TaskCheckCancelled
  <2>2. /\ \A a \in Actor : call'[a].items \subseteq call[a].items
        /\ \A ts \in TurnStateId : turnState'[ts].pending \subseteq turnState[ts].pending
        /\ todo' \subseteq todo /\ mailbox' \subseteq mailbox /\ staged' \subseteq staged
    BY <1>4, <1>q
  <2> QED
    BY <1>4, <1>q, <2>1, <2>2, NothingTickets
<1> QED
  BY <1>d, <1>1, <1>2, <1>3, <1>4

(* on_task_finished records, or drops, what was left for its turn.         *)
LEMMA FinishRecordTickets ==
  ASSUME TypeInv, TypeInv', Orderly, OnePlace, OnePlace', TicketInv, NEW t \in Turn,
         FinishRecord(t)
  PROVE  TicketInv' /\ LedgerStep
<1>1. PICK X \in TurnStateId : X = task[t].ts /\ X[1] = t
  BY DEF FinishRecord, FinishPoint, Orderly, TypeInv, FinishKnows
<1>2. PICK items : items = turnState[X].pending
  OBVIOUS
<1>3. PICK dropped \in SUBSET items :
        /\ recorded' = recorded \cup ((items \ dropped) \X {t})
        /\ discarded' = discarded \cup dropped
  BY <1>1, <1>2 DEF FinishRecord
<1>4. /\ turnState'[X].pending = {}
      /\ \A ts \in TurnStateId \ {X} : turnState'[ts] = turnState[ts]
      /\ pc[t] = "finish:record" /\ Goto(t, "finish:event")
      /\ UNCHANGED <<todo, mailbox, staged, call, task, accepted>>
  BY <1>1 DEF FinishRecord, TypeInv, QueuesTyped, QueueType
<1>5. \A i \in items : At(i, "state", X) /\ ~At(i, "state", X)'
  BY <1>1, <1>2, <1>4 DEF At
<1>6. ~Unaccepted("state", X)
  BY DEF Unaccepted
<1>7. \A u : PromisedTo("state", X, u) => u \in {t, NoTurn} /\ PromisedTo("recorded", t, u)'
  BY <1>1 DEF PromisedTo
<1>8. LedgerStep
  BY <1>3, <1>4, <1>5, <1>6, <1>7, ItemsSettled
<1>9. \A i, u : <<i, u>> \in recorded' => <<i, u>> \in recorded \/ (u = t /\ i \in items \ dropped)
  BY <1>3
<1>10. Arrive("recorded", t)
  <2>1. \A ts \in TurnStateId : turnState'[ts].pending \subseteq turnState[ts].pending
    BY <1>4
  <2> QED
    BY <1>4, <1>9, <2>1 DEF Arrive
<1>11. Settled("recorded", t)
  BY <1>4, TaskGoes DEF Choice, TryPoint
<1>12. Carries("state", X, "recorded", t)
  BY <1>6, <1>7 DEF Carries, Unaccepted
<1>13. Carries("recorded", t, "recorded", t)
  BY <1>11, QueueCarries
<1>14. \A i : At(i, "recorded", t)' =>
           \E k, x : At(i, k, x) /\ Carries(k, x, "recorded", t)
  <2>1. \A i : At(i, "recorded", t)' => At(i, "recorded", t) \/ At(i, "state", X)
    BY <1>5, <1>9 DEF At
  <2> QED
    BY <1>12, <1>13, <2>1
<1>15. ASSUME NEW i \in discarded', i \notin discarded
       PROVE  ~At(i, "recorded", t)' /\ At(i, "state", X) /\ ~At(i, "state", X)'
  <2>1. i \in dropped
    BY <1>3, <1>15
  <2>2. ~At(i, "recorded", t)
    BY <1>5, <2>1 DEF OnePlace
  <2>3. ~At(i, "recorded", t)'
    BY <1>9, <2>1, <2>2 DEF At
  <2> QED
    BY <1>5, <2>1, <2>3
<1>16. TicketInv'
  BY <1>4, <1>10, <1>11, <1>14, <1>15, TicketsMove
<1> QED
  BY <1>8, <1>16

(* So does on_task_finished.                                               *)
LEMMA FinishTickets ==
  ASSUME TypeInv, TypeInv', Orderly, OnePlace, OnePlace', TicketInv, NEW t \in Turn,
         FinishStep(t)
  PROVE  TicketInv' /\ LedgerStep
<1>k. \A u \in Turn : /\ task'[u].kind = task[u].kind
                      /\ task'[u].items \subseteq task[u].items
  <2>1. ~TaskDrain(t)
    BY DEF FinishStep, FinishTake, FinishRecord, FinishEvent, FinishClear, FinishIdle,
           FinishWake, TaskDrain
  <2> QED
    BY <2>1, TaskShape
<1>0. ASSUME NEW p, Goto(t, p), p \notin {"unused", "queued"} \cup Choice, pc[t] \notin Choice,
             UNCHANGED <<todo, mailbox, staged, itemVars>>,
             \A a \in Actor : call'[a].items = call[a].items /\ call'[a].turn = call[a].turn,
             \A ts \in TurnStateId : turnState'[ts].pending \subseteq turnState[ts].pending
      PROVE  TicketInv' /\ LedgerStep
  <2>1. Settled("none", "none")
    BY <1>0, <1>k, TaskGoes
  <2> QED
    BY <1>0, <1>k, <2>1, NothingTickets
<1>1. CASE FinishTake(t) \/ FinishEvent(t)
  <2>1. PICK p \in {"done", "finish:record", "finish:clear"} : Goto(t, p)
    BY <1>1 DEF FinishTake, FinishEvent
  <2> QED
    BY <1>0, <1>1, <2>1 DEF FinishTake, FinishEvent, Choice, TryPoint, queueVars
<1>2. CASE FinishRecord(t)
  BY <1>2, FinishRecordTickets
<1>3. CASE FinishClear(t)
  <2>1. PICK p \in {"done", "finish:idle"} : Goto(t, p)
    BY <1>3 DEF FinishClear
  <2>2. \A ts \in TurnStateId : turnState'[ts].pending \subseteq turnState[ts].pending
    BY <1>3 DEF FinishClear, NewTurnState, TypeInv, QueuesTyped, QueueType
  <2> QED
    BY <1>0, <1>3, <2>1, <2>2 DEF FinishClear, Choice, TryPoint
<1>4. CASE FinishWake(t)
  <2>1. \A a \in Actor : call'[a].items = call[a].items /\ call'[a].turn = call[a].turn
    BY <1>4 DEF FinishWake, TypeInv, CallTyped, CallType
  <2> QED
    BY <1>0, <1>4, <2>1 DEF FinishWake, Choice, TryPoint, queueVars
<1>5. CASE FinishIdle(t)
  <2>1. CASE Goto(t, "finish:wake") /\ UNCHANGED <<todo, call>>
    BY <1>0, <1>5, <2>1 DEF FinishIdle, Choice, TryPoint, queueVars
  <2>2. ASSUME NEW o \in todo, o.op = "IdleStart", Take(o), Goto(t, "try:check"),
               call' = [call EXCEPT ![t].items = {o.item}, ![t].ret = "finish:wake"]
        PROVE  TicketInv' /\ LedgerStep
    <3>1. /\ call'[t].items = {o.item} /\ t \in Actor
          /\ \A b \in Actor \ {t} : call'[b] = call[b]
          /\ call'[Loop].turn = call[Loop].turn
      BY <2>2, Actors DEF TypeInv, CallTyped, CallType
    <3>2. /\ pc'[t] = "try:check" /\ \A b \in Actor \ {t} : pc'[b] = pc[b]
          /\ pc'[Loop] = pc[Loop]
      BY <2>2, Actors DEF Goto, TypeInv, PcTyped
    <3>3. Settled("call", t)
      BY <1>k, <3>1, <3>2, SettledMove
    <3>4. pc'[t] \in Choice /\ o.op \in Carrier
      BY <2>2, <3>2 DEF Choice, Carrier
    <3>5. UNCHANGED <<queueVars, task, itemVars>>
      BY <1>5 DEF FinishIdle
    <3> QED
      BY <2>2, <3>1, <3>3, <3>4, <3>5, ChoiceTickets
  <2> QED
    BY <1>5, <2>1, <2>2 DEF FinishIdle
<1> QED
  BY <1>1, <1>2, <1>3, <1>4, <1>5 DEF FinishStep

-----------------------------------------------------------------------------
(* Every step of an orderly session keeps the ledger.                      *)
LEMMA TicketStep ==
  ASSUME TypeInv, TypeInv', Orderly, OnePlace, OnePlace', TicketInv, [Next]_vars
  PROVE  TicketInv' /\ LedgerStep
<1>1. CASE UNCHANGED vars
  <2>1. /\ UNCHANGED <<todo, turnState, mailbox, staged, call, task, itemVars>> /\ pc' = pc
    BY <1>1 DEF vars, queueVars
  <2>2. Settled("none", "none")
    BY <2>1, SettledStill
  <2> QED
    BY <2>1, <2>2, NothingTickets
<1>2. CASE LoopStep
  BY <1>2, RoutedTickets, AbortTickets, StarterTickets, Actors DEF LoopStep
<1>3. ASSUME NEW t \in Turn, TaskStep(t) PROVE TicketInv' /\ LedgerStep
  BY <1>3, RunTickets, FinishTickets, StarterTickets, Actors DEF TaskStep
<1> QED
  BY <1>1, <1>2, <1>3, RequestTickets, StarterTickets, Actors DEF Next

-----------------------------------------------------------------------------
(* Where the loop starts every turn: the input of the turn it routes is    *)
(* the one item its request brought.                                       *)
RouteAlone == pc[Loop] = "route" => Alone(task[call[Loop].turn].items)

(* Such sessions are orderly.                                              *)
LEMMA LoopOrderly ==
  ASSUME TypeInv, LoopInv, OwnStates, HandsInv, NewsInv, RouteAlone
  PROVE  Orderly
<1>1. slot.task # NoTurn => slot.ts[1] = slot.task /\ Running(slot.task)
  BY DEF OwnStates, OwnState, LoopInv, SlotHoldsRunningTask, TypeInv, SlotTyped, SlotType
<1>2. \A t \in Turn : Running(t) => slot = NoSlot \/ slot.task = t
  BY DEF LoopInv, SlotHoldsRunningTask, Aborting, OwnStates
<1>3. \A t \in Turn : pc[t] \in FinishPoint => task[t].ts[1] = t
  BY DEF OwnStates, OwnState
<1>c. \A a \in Actor : pc[a] \notin Choice
  BY DEF LoopInv, OthersDoNotStart, Over, RunPoint, StartPoint, AbortPoint, Choice, TryPoint,
         Actor
<1>4. pc[Loop] \in AbortPoint => abort.ts[1] = abort.victim /\ pc[abort.victim] \notin Choice
  BY <1>c, Actors DEF OwnStates, OwnState, TypeInv, LoopKnows
<1>5. ASSUME NEW a \in Actor, pc[a] \in StartPoint \cup TryPoint
      PROVE  /\ pc[call[a].turn] = "queued"
             /\ slot = NoSlot \/ (slot.task = NoTurn /\ slot.ts[1] = call[a].turn)
  <2>1. a = Loop /\ pc[Loop] \in StartPoint
    BY <1>5, <1>c
    DEF LoopInv, OthersDoNotStart, Over, RunPoint, StartPoint, Choice, Actor
  <2> QED
    BY <2>1 DEF LoopInv, NextTurnWaits, LoopOwnsSlot, OwnStates, OwnState, StartPoint
<1>6. pc[Loop] = "route" =>
        /\ pc[call[Loop].turn] = "queued" /\ task[call[Loop].turn].kind = "Regular"
        /\ Alone(task[call[Loop].turn].items)
  BY DEF LoopInv, NextTurnWaits, NewsInv, RouteAlone
<1>8. \A t \in Turn : pc[t] \in RegularPoint => task[t].kind = "Regular"
  BY DEF HandsInv, Hand
<1> QED
  BY <1>1, <1>2, <1>3, <1>4, <1>5, <1>6, <1>8, <1>c DEF Orderly

(* The routed input stays alone.                                           *)
LEMMA RouteStays ==
  ASSUME TypeInv, RouteAlone,
         pc'[Loop] = "route" => pc[Loop] = "route" /\ call'[Loop].turn = call[Loop].turn,
         pc[Loop] = "route" => 
           task'[call[Loop].turn].items \subseteq task[call[Loop].turn].items
  PROVE  RouteAlone'
BY DEF RouteAlone, Alone

(* It does in every step.                                                  *)
LEMMA RouteStep ==
  ASSUME LoopStartsAlone, TypeInv, LoopInv, RouteAlone, [Next]_vars
  PROVE  RouteAlone'
<1>q. pc[Loop] = "route" => call[Loop].turn \in Turn /\ pc[call[Loop].turn] = "queued"
  BY DEF TypeInv, LoopKnows, LoopInv, NextTurnWaits
<1>1. CASE UNCHANGED vars
  BY <1>1, RouteStays DEF vars
<1>2. ASSUME NEW a \in Actor, StartStep(a) PROVE RouteAlone'
  <2>1. MaybeCheck(a) \/ StartTake(a) \/ StartAttach(a) \/ StartInstall(a)
    BY <1>2, NeverReserves DEF StartStep
  <2>2. task' = task
    BY <2>1 DEF MaybeCheck, StartTake, StartAttach, StartInstall
  <2>r. call[a].ret \in {"idle", "exited", "finish:wake", "done"}
    BY CallFields DEF TypeInv, CallTyped
  <2>3. pc'[Loop] = "route" => pc[Loop] = "route" /\ call'[Loop].turn = call[Loop].turn
    <3>1. CASE MaybeCheck(a)
      <4>1. Goto(a, call[a].ret) /\ call' = call
        BY <3>1, NoTriggerMail DEF MaybeCheck, Return
      <4> QED
        BY <2>r, <4>1, Actors DEF Goto, TypeInv, PcTyped
    <3>2. CASE StartTake(a) \/ StartAttach(a)
      BY <3>2, Actors DEF StartTake, StartAttach, Goto, TypeInv, PcTyped, CallTyped, CallType
    <3>3. CASE StartInstall(a)
      <4>1. a = Loop
        BY <3>3 DEF StartInstall, LoopInv, OthersDoNotStart, Over, RunPoint, Actor
      <4> QED
        BY <2>r, <3>3, <4>1, Actors DEF StartInstall
    <3> QED
      BY <2>1, <3>1, <3>2, <3>3
  <2> QED
    BY <2>2, <2>3, RouteStays
<1>3. CASE LoopRouted \/ AbortTake \/ AbortCancel \/ AbortKill \/ AbortEvent \/ AbortClear
  <2>1. pc'[Loop] # "route"
    BY <1>3, Actors
    DEF LoopRouted, AbortTake, AbortCancel, AbortKill, AbortEvent, AbortClear, Goto, TypeInv,
        PcTyped, CallTyped, CallType
  <2> QED
    BY <2>1 DEF RouteAlone
<1>4. ASSUME NEW t \in Turn, RunStep(t) \/ FinishStep(t) PROVE RouteAlone'
  <2>1. /\ pc'[Loop] = pc[Loop] /\ call'[Loop] = call[Loop] /\ pc[t] # "queued"
    <3>1. CASE RunStep(t)
      BY <3>1, RunShape, Actors DEF RunPoint
    <3>2. CASE FinishStep(t)
      BY <3>2, Actors
      DEF FinishStep, FinishTake, FinishRecord, FinishEvent, FinishClear, FinishIdle,
          FinishWake, Goto, Take, TypeInv, PcTyped, CallTyped
    <3> QED
      BY <1>4, <3>1, <3>2
  <2>2. pc[Loop] = "route" => task'[call[Loop].turn] = task[call[Loop].turn]
    BY <1>4, <1>q, <2>1, TaskShape
  <2> QED
    BY <2>1, <2>2, RouteStays
<1>5. ASSUME NEW o \in todo, Request(o) PROVE RouteAlone'
  <2>1. CASE Steer(o) \/ CancelSteer(o) \/ Inject(o) \/ LoopStage(o) \/ LoopRelease(o)
    BY <2>1, RouteStays DEF Steer, CancelSteer, Inject, LoopStage, LoopRelease
  <2>2. CASE LoopMail(o) \/ LoopStartPendingWork(o) \/ LoopInterrupt(o) \/ LoopSpawn(o)
    <3>1. pc'[Loop] # "route"
      BY <2>2, Actors
      DEF LoopMail, LoopStartPendingWork, LoopInterrupt, LoopSpawn, Goto, TypeInv, PcTyped
    <3> QED
      BY <3>1 DEF RouteAlone
  <2>3. CASE LoopUserInput(o)
    <3>1. CASE UNCHANGED <<pc, call, task>>
      BY <3>1, RouteStays
    <3>2. ASSUME NEW t \in Turn, NewTurn(Loop, t, "Regular", {o.item}, "route")
          PROVE  RouteAlone'
      <4>1. call'[Loop].turn = t /\ task'[t].items = {o.item}
        BY <3>2, Actors DEF NewTurn, NewTask, TypeInv, CallTyped, CallType, TaskTyped
      <4> QED
        BY <4>1 DEF RouteAlone, Alone
    <3> QED
      BY <2>3, <3>1, <3>2 DEF LoopUserInput
  <2> QED
    BY <1>5, <2>1, <2>2, <2>3, NeverRequested DEF Request
<1> QED
  BY <1>1, <1>2, <1>3, <1>4, <1>5, Actors DEF Next, LoopStep, TaskStep

-----------------------------------------------------------------------------
(* Where every start reserves: only regular tasks run, and whoever decides *)
(* on an idle start has the one item of its request.                       *)
RegularOnly == \A t \in Turn : task[t].kind = "Regular"
TriesAlone  == \A a \in Actor : pc[a] \in Choice => Alone(call[a].items)

(* Such sessions are orderly, too.                                         *)
LEMMA ReservedOrderly ==
  ASSUME TypeInv, ReservedInv, RegularOnly, TriesAlone
  PROVE  Orderly
<1>1. slot.task # NoTurn => slot.ts[1] = slot.task /\ Running(slot.task)
  BY DEF ReservedInv, TaskHoldsSlot, TypeInv, SlotTyped, SlotType
<1>2. \A t \in Turn : Running(t) => slot.task = t
  BY DEF ReservedInv, TaskHoldsSlot
<1>3. \A t \in Turn : pc[t] \in FinishPoint => task[t].ts[1] = t
  BY DEF ReservedInv, TaskHoldsSlot
<1>4. pc[Loop] \notin AbortPoint \cup {"route"}
  BY DEF ReservedInv, ReservedControl, Asks, StartPoint, AbortPoint
<1>5. \A a \in Actor : pc[a] \in StartPoint \cup TryPoint =>
        /\ pc[call[a].turn] = "queued"
        /\ slot.task = NoTurn /\ slot.ts[1] = call[a].turn
  BY StarterAlone DEF Starts
<1> QED
  BY <1>1, <1>2, <1>3, <1>4, <1>5 DEF Orderly, RegularOnly, TriesAlone

(* Whoever decides on an idle start keeps its one item.                    *)
LEMMA TriesStay ==
  ASSUME TriesAlone,
         \A a \in Actor : pc'[a] \in Choice =>
           \/ pc[a] \in Choice /\ call'[a].items \subseteq call[a].items
           \/ Alone(call'[a].items)
  PROVE  TriesAlone'
BY DEF TriesAlone, Alone

(* Both hold after every step.                                             *)
LEMMA ReservedAlone ==
  ASSUME TypeInv, ReservedInv, RegularOnly, TriesAlone, [Next]_vars
  PROVE  RegularOnly' /\ TriesAlone'
<1>1. CASE UNCHANGED vars
  BY <1>1 DEF vars, RegularOnly, TriesAlone
<1>2. ASSUME NEW a \in Actor, StartStep(a) PROVE RegularOnly' /\ TriesAlone'
  <2>r. call[a].ret \in {"idle", "exited", "finish:wake", "done"} /\ call[a].ret \notin Choice
    BY CallFields DEF TypeInv, CallTyped, Choice, TryPoint
  <2>1. ASSUME NEW t \in Turn, NEW p, NewTurn(a, t, "Regular", {}, p),
               p \in Choice => pc[a] \in Choice
        PROVE  RegularOnly' /\ TriesAlone'
    <3>1. /\ \A b \in Actor \ {a, t} : pc'[b] = pc[b]
          /\ pc'[a] \in Choice => pc[a] \in Choice
          /\ pc'[t] \in Choice => t = a
          /\ \A b \in Actor : call'[b].items = call[b].items
          /\ \A u \in Turn : task'[u].kind \in {task[u].kind, "Regular"}
      BY <2>1, Actors
      DEF NewTurn, NewTask, TypeInv, PcTyped, CallTyped, CallType, TaskTyped, TaskType, Choice,
          TryPoint
    <3> QED
      BY <3>1, TriesStay DEF RegularOnly
  <2>2. ASSUME NEW p, Goto(a, p), task' = task, \A b \in Actor : call'[b].items \subseteq call[b].items,
               p \in Choice => pc[a] \in Choice
        PROVE  RegularOnly' /\ TriesAlone'
    <3>1. pc'[a] = p /\ \A b \in Actor \ {a} : pc'[b] = pc[b]
      BY <2>2, Actors DEF Goto, TypeInv, PcTyped
    <3> QED
      BY <2>2, <3>1, TriesStay DEF RegularOnly
  <2>3. ASSUME call' \in {call, [call EXCEPT ![a].items = {}]}
        PROVE  \A b \in Actor : call'[b].items \subseteq call[b].items
    BY <2>3 DEF TypeInv, CallTyped, CallType
  <2>4. ASSUME NEW p, GiveUpReservation(a, p), p \notin Choice, pc[a] \in TryPoint
        PROVE  RegularOnly' /\ TriesAlone'
    <3>1. /\ \A b \in Actor : call'[b].items \subseteq call[b].items
          /\ \A b \in Actor : pc'[b] \in Choice => pc'[b] = pc[b]
          /\ task' = task
      BY <2>4, Actors
      DEF GiveUpReservation, TypeInv, PcTyped, CallTyped, CallType, StartKnows, Choice, TryPoint
    <3> QED
      BY <3>1, TriesStay DEF RegularOnly
  <2>5. CASE MaybeCheck(a)
    BY <2>2, <2>3, <2>5, <2>r DEF MaybeCheck, Return, Choice, TryPoint
  <2>6. CASE MaybeReserve(a)
    <3>1. CASE Return(a) /\ UNCHANGED <<slot, call, task>>
      BY <2>2, <2>3, <2>r, <3>1 DEF Return
    <3>2. ASSUME NEW t \in Turn, NewTurn(a, t, "Regular", {}, "start:take")
          PROVE  RegularOnly' /\ TriesAlone'
      BY <2>1, <3>2 DEF Choice, TryPoint
    <3> QED
      BY <2>6, <3>1, <3>2 DEF MaybeReserve
  <2>7. CASE TryCheck(a)
    BY <2>2, <2>3, <2>7, <2>r DEF TryCheck, Return, Choice
  <2>8. CASE TryReserve(a)
    <3>1. CASE Return(a) /\ call' = [call EXCEPT ![a].items = {}] /\ UNCHANGED task
      BY <2>2, <2>3, <2>r, <3>1 DEF Return
    <3>2. ASSUME NEW t \in Turn, NewTurn(a, t, "Regular", {}, "try:recheck")
          PROVE  RegularOnly' /\ TriesAlone'
      BY <2>1, <2>8, <3>2 DEF TryReserve, Choice
    <3> QED
      BY <2>8, <3>1, <3>2 DEF TryReserve
  <2>9. CASE TryRecheck(a)
    <3>1. CASE GiveUpReservation(a, "maybe:check")
      BY <2>4, <2>9, <3>1 DEF TryRecheck, Choice, TryPoint
    <3>2. CASE /\ Goto(a, IF pc[a] = "try:recheck" THEN "try:route" ELSE "try:claim")
               /\ UNCHANGED <<call, task>>
      BY <2>2, <2>3, <2>9, <3>2 DEF TryRecheck, Choice, TryPoint
    <3> QED
      BY <2>9, <3>1, <3>2 DEF TryRecheck
  <2>10. CASE TryRoute(a)
    <3>1. CASE GiveUpReservation(a, call[a].ret)
      BY <2>4, <2>10, <2>r, <3>1 DEF TryRoute, TryPoint
    <3>2. CASE Goto(a, "try:routed") /\ UNCHANGED <<call, task>>
      BY <2>2, <2>3, <2>10, <3>2 DEF TryRoute, Choice, TryPoint
    <3> QED
      BY <2>10, <3>1, <3>2 DEF TryRoute
  <2>11. CASE TryClaim(a)
    <3>1. CASE GiveUpReservation(a, call[a].ret)
      BY <2>4, <2>11, <2>r, <3>1 DEF TryClaim, TryPoint
    <3>2. CASE Goto(a, "try:extend") /\ UNCHANGED <<call, task>>
      BY <2>2, <2>3, <2>11, <3>2 DEF TryClaim, Choice, TryPoint
    <3> QED
      BY <2>11, <3>1, <3>2 DEF TryClaim
  <2>12. CASE TryExtend(a) \/ StartAttach(a)
    BY <2>2, <2>3, <2>12 DEF TryExtend, StartAttach, Choice, TryPoint
  <2>13. CASE StartTake(a)
    <3>1. /\ pc'[a] = "start:attach" /\ \A b \in Actor \ {a} : pc'[b] = pc[b]
          /\ \A b \in Actor \ {a} : call'[b] = call[b]
          /\ task' = task
      BY <2>13, Actors DEF StartTake, Goto, TypeInv, PcTyped, CallTyped
    <3> QED
      BY <3>1, TriesStay DEF RegularOnly, Choice, TryPoint
  <2>14. CASE StartInstall(a)
    <3>1. /\ \A b \in Actor : pc'[b] \in Choice => pc'[b] = pc[b]
          /\ \A b \in Actor : call'[b].items = call[b].items
          /\ task' = task
      BY <2>14, <2>r DEF StartInstall, TypeInv, CallTyped, CallType, Choice, TryPoint
    <3> QED
      BY <3>1, TriesStay DEF RegularOnly
  <2> QED
    BY <1>2, <2>5, <2>6, <2>7, <2>8, <2>9, <2>10, <2>11, <2>12, <2>13, <2>14 DEF StartStep
<1>3. CASE LoopRouted \/ AbortTake \/ AbortCancel \/ AbortKill \/ AbortEvent \/ AbortClear
  BY <1>3
  DEF LoopRouted, AbortTake, AbortCancel, AbortKill, AbortEvent, AbortClear,
      ReservedInv, ReservedControl, Asks, StartPoint
<1>4. ASSUME NEW t \in Turn, RunStep(t) PROVE RegularOnly' /\ TriesAlone'
  <2>1. /\ call' = call /\ pc'[t] \in RunPoint \cup {"done"}
        /\ \A a \in Actor \ {t} : pc'[a] = pc[a]
    BY <1>4, RunShape
  <2>2. pc'[t] \notin Choice
    BY <2>1 DEF Choice, TryPoint, RunPoint
  <2> QED
    BY <1>4, <2>1, <2>2, TriesStay, TaskShape DEF RegularOnly
<1>5. ASSUME NEW t \in Turn, FinishStep(t) PROVE RegularOnly' /\ TriesAlone'
  <2>1. RegularOnly'
    BY <1>5, TaskShape DEF RegularOnly
  <2>2. CASE ~FinishIdle(t)
    <3>1. PICK p \in {"done", "finish:record", "finish:event", "finish:clear", "finish:idle",
                      "maybe:check"} : Goto(t, p)
      BY <1>5, <2>2 DEF FinishStep, FinishTake, FinishRecord, FinishEvent, FinishClear,
                        FinishWake
    <3>2. /\ pc'[t] = p /\ \A b \in Actor \ {t} : pc'[b] = pc[b]
          /\ \A b \in Actor : call'[b].items = call[b].items
      BY <1>5, <2>2, <3>1, Actors
      DEF FinishStep, FinishTake, FinishRecord, FinishEvent, FinishClear, FinishWake, Goto,
          TypeInv, PcTyped, CallTyped, CallType
    <3> QED
      BY <2>1, <3>2, TriesStay DEF Choice, TryPoint
  <2>3. CASE FinishIdle(t)
    <3>0. \A b \in Actor \ {t} : pc'[b] = pc[b] /\ call'[b] = call[b]
      BY <2>3, Actors DEF FinishIdle, Goto, TypeInv, PcTyped, CallTyped
    <3>1. CASE Goto(t, "finish:wake")
      <4>1. pc'[t] = "finish:wake"
        BY <3>1, Actors DEF Goto, TypeInv, PcTyped
      <4> QED
        BY <2>1, <3>0, <4>1, TriesStay DEF Choice, TryPoint
    <3>2. ASSUME NEW o \in todo,
                 call' = [call EXCEPT ![t].items = {o.item}, ![t].ret = "finish:wake"]
          PROVE  RegularOnly' /\ TriesAlone'
      <4>1. call'[t].items = {o.item}
        BY <3>2, Actors DEF TypeInv, CallTyped, CallType
      <4> QED
        BY <2>1, <3>0, <4>1, TriesStay DEF Alone
    <3> QED
      BY <2>3, <3>1, <3>2 DEF FinishIdle
  <2> QED
    BY <2>2, <2>3
<1>6. ASSUME NEW o \in todo, Request(o) PROVE RegularOnly' /\ TriesAlone'
  <2>1. o.op \notin UnreservedOp
    BY DEF ReservedInv, StartsReserve
  <2>2. \/ Steer(o) \/ CancelSteer(o) \/ Inject(o) \/ LoopMail(o) \/ LoopStage(o)
        \/ LoopRelease(o) \/ LoopStartPendingWork(o) \/ ExtIdleStart(o)
    BY <1>6, <2>1 DEF Request, LoopUserInput, LoopSpawn, LoopInterrupt, UnreservedOp, TaskKind
  <2>3. task' = task
    BY <2>2 DEF Steer, CancelSteer, Inject, LoopMail, LoopStage, LoopRelease,
                LoopStartPendingWork, ExtIdleStart
  <2>4. CASE Steer(o) \/ CancelSteer(o) \/ Inject(o) \/ LoopStage(o) \/ LoopRelease(o)
    BY <2>3, <2>4, TriesStay
    DEF RegularOnly, Steer, CancelSteer, Inject, LoopStage, LoopRelease
  <2>5. CASE LoopMail(o) \/ LoopStartPendingWork(o)
    <3>1. /\ pc'[Loop] \in {"maybe:check", "idle"} /\ \A b \in Actor \ {Loop} : pc'[b] = pc[b]
          /\ \A b \in Actor : call'[b].items = call[b].items
      BY <2>5, Actors DEF LoopMail, LoopStartPendingWork, Goto, TypeInv, PcTyped, CallTyped,
                          CallType
    <3> QED
      BY <2>3, <3>1, TriesStay DEF RegularOnly, Choice, TryPoint
  <2>6. CASE ExtIdleStart(o)
    <3>1. /\ \A b \in Actor \ {Ext} : pc'[b] = pc[b] /\ call'[b] = call[b]
          /\ call'[Ext].items = {o.item}
      BY <2>6, Actors DEF ExtIdleStart, Goto, TypeInv, PcTyped, CallTyped, CallType
    <3> QED
      BY <2>3, <3>1, TriesStay DEF RegularOnly, Alone
  <2> QED
    BY <2>2, <2>4, <2>5, <2>6
<1> QED
  BY <1>1, <1>2, <1>3, <1>4, <1>5, <1>6, Actors DEF Next, LoopStep, TaskStep

-----------------------------------------------------------------------------
(* Nothing is accepted at first, and every item is brought by one request. *)
LEMMA TicketInit ==
  ASSUME Init
  PROVE  TicketInv /\ Ledger!Init
<1>1. accepted = {} /\ recorded = {} /\ discarded = {}
  BY DEF Init
<1>2. \A i, k, x : At(i, k, x) => k = "todo"
  <2>1. /\ mailbox = {} /\ staged = {} /\ recorded = {}
        /\ \A a \in Actor : call[a].items = {}
        /\ \A t \in Turn : task[t].items = {}
        /\ \A ts \in TurnStateId : turnState[ts].pending = {}
    BY DEF Init, NewTask, NewTurnState
  <2> QED
    BY <2>1 DEF At
<1>3. TicketInv
  BY <1>1, <1>2 DEF TicketInv, Ticketed, Unaccepted
<1>4. ASSUME NEW i \in Item PROVE FateOf(i) = Ledger!New
  <2>1. Fate({}, {}, {}, i) = Ledger!New
    BY FateNew
  <2> QED
    BY <1>1, <2>1, FateIs
<1>5. Ledger!Init
  BY <1>4 DEF Ledger!Init
<1> QED
  BY <1>3, <1>5

(* What the proof for loop sessions needs holds at first,                  *)
LEMMA LoopLedgerInit ==
  ASSUME Init
  PROVE  HandsInv /\ NewsInv /\ RouteAlone
<1>1. /\ accepted = {}
      /\ \A t \in Turn : task[t].items = {} /\ pc[t] = "unused"
      /\ pc[Loop] = "idle" /\ call[Loop].items = {}
  BY Actors DEF Init, NewTask
<1>2. HandsInv
  BY <1>1 DEF HandsInv, Hand, RegularPoint
<1>3. NewsInv
  BY <1>1 DEF NewsInv
<1> QED
  BY <1>1, <1>2, <1>3 DEF RouteAlone

(* and what the proof for reserved sessions needs.                         *)
LEMMA ReservedLedgerInit ==
  ASSUME Init
  PROVE  RegularOnly /\ TriesAlone
BY Actors DEF Init, NewTask, RegularOnly, TriesAlone, Choice, TryPoint

(* Where the loop starts every turn and every item is brought by one       *)
(* request, the session keeps the ledger of what it accepts: an item is    *)
(* promised to one turn or to any, recorded once, by the turn it was       *)
(* promised to, or dropped, and taken back only before (steer_input,       *)
(* cancel_pending_steer, inject_if_running, get_pending_input,             *)
(* handle_task_abort, on_task_finished).                                   *)
THEOREM LoopKeepsLedger ==
  ASSUME LoopStartsAlone, ItemsBroughtOnce
  PROVE  Spec => Ledger!Spec
<1> DEFINE Inv == /\ TypeInv /\ LoopInv /\ OnePlace /\ OwnStates
                  /\ HandsInv /\ NewsInv /\ RouteAlone /\ TicketInv
<1>1. Init => Inv /\ Ledger!Init
  BY TypeInit, SlotInit, ItemInit, OwnInit, LoopLedgerInit, TicketInit
<1>2. Inv /\ [Next]_vars => Inv' /\ [Ledger!Next]_[i \in Item |-> FateOf(i)]
  <2> SUFFICES ASSUME Inv, [Next]_vars
               PROVE  Inv' /\ [Ledger!Next]_[i \in Item |-> FateOf(i)]
    OBVIOUS
  <2>1. TypeInv' /\ OnePlace'
    BY TypeStep, ItemStep
  <2>2. LoopInv' /\ OwnStates' /\ HandsInv' /\ NewsInv' /\ RouteAlone'
    BY SlotStep, OwnStep, HandsStep, NewsStep, RouteStep
  <2>3. TicketInv' /\ LedgerStep
    BY <2>1, LoopOrderly, TicketStep
  <2> QED
    BY <2>1, <2>2, <2>3 DEF LedgerStep
<1> HIDE DEF Inv
<1> QED
  BY <1>1, <1>2, PTL DEF Spec, Ledger!Spec

(* So does a session in which every start reserves: what an idle start, an *)
(* injection or the mail of another agent brings is accepted for whichever *)
(* turn takes it, recorded once or dropped (try_start_turn_if_idle,        *)
(* inject_if_running, get_pending_input, on_task_finished).  No turn there *)
(* is one that steer_input accepts.                                        *)
THEOREM ReservedKeepsLedger ==
  ASSUME ItemsBroughtOnce
  PROVE  Spec /\ StartsReserve => Ledger!Spec
<1> DEFINE Inv == /\ TypeInv /\ ReservedInv /\ OnePlace
                  /\ RegularOnly /\ TriesAlone /\ TicketInv
<1>1. Init /\ StartsReserve => Inv /\ Ledger!Init
  BY TypeInit, ReservedInit, ItemInit, ReservedLedgerInit, TicketInit
<1>2. Inv /\ [Next]_vars => Inv' /\ [Ledger!Next]_[i \in Item |-> FateOf(i)]
  <2> SUFFICES ASSUME Inv, [Next]_vars
               PROVE  Inv' /\ [Ledger!Next]_[i \in Item |-> FateOf(i)]
    OBVIOUS
  <2>1. TypeInv' /\ OnePlace'
    BY TypeStep, ItemStep
  <2>2. ReservedInv' /\ RegularOnly' /\ TriesAlone'
    BY ReservedStep, ReservedAlone
  <2>3. TicketInv' /\ LedgerStep
    BY <2>1, ReservedOrderly, TicketStep
  <2> QED
    BY <2>1, <2>2, <2>3 DEF LedgerStep
<1> HIDE DEF Inv
<1> QED
  BY <1>1, <1>2, PTL DEF Spec, Ledger!Spec

-----------------------------------------------------------------------------
(* Nothing is lost in reserved sessions: a TurnState with something a user *)
(* or an agent sent is the slot's, with somebody who will look at it.      *)
KeepsSlot ==
    \/ slot.task # NoTurn
    \/ \E a \in Actor : pc[a] \in StartPoint
    \/ \E t \in Turn : pc[t] = "finish:record"

(* What is precious is in the TurnState of such a slot.                    *)
PreciousInSlot ==
    \A ts \in TurnStateId : \A i \in turnState[ts].pending :
        i \in Precious => slot.ts = ts /\ KeepsSlot

(* Tasks and starters hold items only between two of their steps.          *)
HandsBusy ==
    /\ \A t \in Turn : (task[t].items # {} => pc[t] = "record") /\ pc[t] # "work"
    /\ \A a \in Actor : call[a].items # {} => pc[a] \in Choice \cup {"start:attach"}

(* An item is somewhere, or was dropped,                                   *)
Here(i) == i \in discarded \/ \E k, x : At(i, k, x)

(* and one that was accepted from a user or an agent is.                   *)
KeptHere == \A i \in Precious : \A t : <<i, t>> \in accepted => Here(i)

(* No injection brings what somebody else sends.                           *)
TodoApart == \A o \in todo : o.op \in Injected => o.item \notin Precious

(* A step keeps the slot for what is in it, and puts nothing precious      *)
(* elsewhere.                                                              *)
LEMMA PreciousStays ==
  ASSUME PreciousInSlot, KeepsSlot => slot'.ts = slot.ts /\ KeepsSlot',
         \A ts \in TurnStateId : \A i \in turnState'[ts].pending :
           \/ i \in turnState[ts].pending
           \/ i \notin Precious
           \/ slot'.ts = ts /\ KeepsSlot'
  PROVE  PreciousInSlot'
BY DEF PreciousInSlot

(* The slot is kept while its task, its starter or its finisher is.        *)
LEMMA SlotKept ==
  ASSUME slot.task # NoTurn => slot'.task # NoTurn,
         \A a \in Actor : pc[a] \in StartPoint => pc'[a] \in StartPoint \/ slot'.task # NoTurn,
         \A t \in Turn : pc[t] = "finish:record" => pc'[t] = "finish:record"
  PROVE  KeepsSlot => KeepsSlot'
BY DEF KeepsSlot

(* Wherever an item is in the next state, it is.                           *)
LEMMA HereNext ==
  /\ \A i \in mailbox' \cup staged' : Here(i)'
  /\ \A a \in Actor : \A i \in call'[a].items : Here(i)'
  /\ \A t \in Turn : \A i \in task'[t].items : Here(i)'
  /\ \A ts \in TurnStateId : \A i \in turnState'[ts].pending : Here(i)'
  /\ \A i, t : <<i, t>> \in recorded' => Here(i)'
  /\ \A i \in discarded' : Here(i)'
<1>1. \A i \in mailbox' \cup staged' : Here(i)'
  <2>1. \A i \in mailbox' : At(i, "mailbox", NoTurn)'
    BY DEF At
  <2>2. \A i \in staged' : At(i, "staged", NoTurn)'
    BY DEF At
  <2> QED
    BY <2>1, <2>2 DEF Here
<1>2. \A a \in Actor : \A i \in call'[a].items : Here(i)'
  <2>1. \A a \in Actor : \A i \in call'[a].items : At(i, "call", a)'
    BY DEF At
  <2> QED
    BY <2>1 DEF Here
<1>3. \A t \in Turn : \A i \in task'[t].items : Here(i)'
  <2>1. \A t \in Turn : \A i \in task'[t].items : At(i, "task", t)'
    BY DEF At
  <2> QED
    BY <2>1 DEF Here
<1>4. \A ts \in TurnStateId : \A i \in turnState'[ts].pending : Here(i)'
  <2>1. \A ts \in TurnStateId : \A i \in turnState'[ts].pending : At(i, "state", ts)'
    BY DEF At
  <2> QED
    BY <2>1 DEF Here
<1>5. \A i, t : <<i, t>> \in recorded' => Here(i)'
  <2>1. \A i, t : <<i, t>> \in recorded' => At(i, "recorded", t)'
    BY DEF At
  <2> QED
    BY <2>1 DEF Here
<1>6. \A i \in discarded' : Here(i)'
  BY DEF Here
<1> QED
  BY <1>1, <1>2, <1>3, <1>4, <1>5, <1>6

(* What was accepted is here still if it is in the queues, the hands and   *)
(* the TurnStates it was in, or somewhere else.                            *)
LEMMA HereStays ==
  ASSUME TypeInv, TicketInv, KeptHere, discarded \subseteq discarded', recorded \subseteq recorded',
         \A i \in mailbox \cup staged : Here(i)',
         \A a \in Actor : \A i \in call[a].items : Here(i)' \/ \A t : <<i, t>> \notin accepted,
         \A t \in Turn : \A i \in task[t].items : Here(i)',
         \A ts \in TurnStateId : \A i \in turnState[ts].pending :
           Here(i)' \/ i \notin Precious \/ \A t : <<i, t>> \notin accepted',
         \A i, t : <<i, t>> \in accepted' => <<i, t>> \in accepted \/ Here(i)'
  PROVE  KeptHere'
<1> SUFFICES ASSUME NEW i \in Precious, NEW t, <<i, t>> \in accepted' PROVE Here(i)'
  BY DEF KeptHere
<1>1. CASE <<i, t>> \notin accepted
  BY <1>1
<1>2. CASE <<i, t>> \in accepted /\ i \in discarded
  BY <1>2 DEF Here
<1>3. ASSUME <<i, t>> \in accepted, NEW k, NEW x, At(i, k, x) PROVE Here(i)'
  <2>1. k # "todo"
    BY <1>3 DEF TicketInv, Ticketed, Unaccepted
  <2>2. CASE k \in {"mailbox", "staged"}
    BY <1>3, <2>2 DEF At
  <2>3. CASE k = "call"
    BY <1>3, <2>3 DEF At
  <2>4. CASE k = "task"
    BY <1>3, <2>4 DEF At
  <2>5. CASE k = "state"
    BY <1>3, <2>5 DEF At
  <2>6. CASE k = "recorded"
    <3>1. <<i, x>> \in recorded'
      BY <1>3, <2>6 DEF At
    <3> QED
      BY <3>1, HereNext
  <2> QED
    BY <1>3, <2>1, <2>2, <2>3, <2>4, <2>5, <2>6 DEF At
<1>4. <<i, t>> \in accepted => Here(i)
  BY DEF KeptHere
<1> QED
  BY <1>1, <1>2, <1>3, <1>4 DEF Here

(* The invariant of this part.                                             *)
ReservedKept == TodoApart /\ PreciousInSlot /\ HandsBusy /\ KeptHere

(* Steps that leave the queues alone.                                      *)
LEMMA QuietKept ==
  ASSUME TypeInv, TicketInv, ReservedKept, todo' \subseteq todo, UNCHANGED <<mailbox, staged, itemVars>>,
         \A ts \in TurnStateId : turnState'[ts].pending = turnState[ts].pending,
         KeepsSlot => slot'.ts = slot.ts /\ KeepsSlot',
         \A b \in Actor : \/ call'[b].items = call[b].items /\ pc'[b] = pc[b]
                          \/ call'[b].items = call[b].items /\ pc'[b] \in Choice
                          \/ call'[b].items = {} /\ pc[b] \in Choice
                          \/ call'[b].items = {} /\ call[b].items = {}
                          \/ call[b].items = {} /\ pc'[b] \in Choice,
         \A t \in Turn : \/ task'[t].items = task[t].items /\ pc'[t] = pc[t]
                         \/ task'[t].items = {} /\ task[t].items = {} /\ pc'[t] # "work"
  PROVE  ReservedKept'
<1>1. TodoApart' 
  BY DEF ReservedKept, TodoApart
<1>2. PreciousInSlot'
  BY PreciousStays DEF ReservedKept
<1>3. HandsBusy'
  <2>1. ASSUME NEW t \in Turn
        PROVE  (task'[t].items # {} => pc'[t] = "record") /\ pc'[t] # "work"
    BY DEF ReservedKept, HandsBusy
  <2>2. ASSUME NEW b \in Actor, call'[b].items # {}
        PROVE  pc'[b] \in Choice \cup {"start:attach"}
    BY <2>2 DEF ReservedKept, HandsBusy
  <2> QED
    BY <2>1, <2>2 DEF HandsBusy
<1>4. KeptHere'
  <2>1. ASSUME NEW b \in Actor, NEW i \in call[b].items
        PROVE  Here(i)' \/ \A t : <<i, t>> \notin accepted
    <3>1. CASE i \in call'[b].items
      BY <3>1, HereNext
    <3>2. CASE pc[b] \in Choice
      <4>1. At(i, "call", b) /\ Unaccepted("call", b)
        BY <3>2 DEF At, Unaccepted
      <4> QED
        BY <4>1 DEF TicketInv, Ticketed
    <3> QED
      BY <3>1, <3>2
  <2>2. \A t \in Turn : \A i \in task[t].items : Here(i)'
    BY HereNext
  <2>3. \A ts \in TurnStateId : \A i \in turnState[ts].pending : Here(i)'
    BY HereNext
  <2>4. (\A i \in mailbox \cup staged : Here(i)') /\ UNCHANGED <<accepted, recorded, discarded>>
    BY HereNext DEF itemVars
  <2> QED
    BY <2>1, <2>2, <2>3, <2>4, HereStays DEF ReservedKept
<1> QED
  BY <1>1, <1>2, <1>3, <1>4 DEF ReservedKept

(* One actor goes on, not to take the slot or to leave it.                 *)
LEMMA GoneKept ==
  ASSUME TypeInv, TicketInv, ReservedKept, NEW a \in Actor, NEW p, Goto(a, p), p # "work",
         slot'.ts = slot.ts, slot.task # NoTurn => slot'.task # NoTurn,
         pc[a] \in StartPoint => p \in StartPoint, pc[a] # "finish:record",
         \/ \A b \in Actor : call'[b].items = call[b].items
         \/ call' = [call EXCEPT ![a].items = {}] /\ pc[a] \in Choice,
         p \in Choice \/ call[a].items = {} \/ call'[a].items = {},
         \A t \in Turn : task'[t].items = task[t].items,
         a \in Turn => task[a].items = {},
         todo' \subseteq todo, UNCHANGED <<mailbox, staged, itemVars>>,
         \A ts \in TurnStateId : turnState'[ts].pending = turnState[ts].pending
  PROVE  ReservedKept'
<1>1. pc'[a] = p /\ \A b \in Actor \ {a} : pc'[b] = pc[b]
  BY Went
<1>2. KeepsSlot => slot'.ts = slot.ts /\ KeepsSlot'
  <2>1. \A b \in Actor : pc[b] \in StartPoint => pc'[b] \in StartPoint
    BY <1>1
  <2>2. \A t \in Turn : pc[t] = "finish:record" => pc'[t] = "finish:record"
    BY <1>1, Actors
  <2> QED
    BY <2>1, <2>2, SlotKept
<1>3. \A b \in Actor : \/ call'[b].items = call[b].items /\ pc'[b] = pc[b]
                       \/ call'[b].items = call[b].items /\ pc'[b] \in Choice
                       \/ call'[b].items = {} /\ pc[b] \in Choice
                       \/ call'[b].items = {} /\ call[b].items = {}
  <2>1. CASE \A b \in Actor : call'[b].items = call[b].items
    BY <1>1, <2>1
  <2>2. CASE call' = [call EXCEPT ![a].items = {}] /\ pc[a] \in Choice
    <3>1. call'[a].items = {} /\ \A b \in Actor \ {a} : call'[b] = call[b]
      BY <2>2 DEF TypeInv, CallTyped, CallType
    <3> QED
      BY <1>1, <2>2, <3>1
  <2> QED
    BY <2>1, <2>2
<1>4. \A t \in Turn : \/ task'[t].items = task[t].items /\ pc'[t] = pc[t]
                      \/ task'[t].items = {} /\ task[t].items = {} /\ pc'[t] # "work"
  BY <1>1, Actors
<1> QED
  BY <1>2, <1>3, <1>4, QuietKept

(* A free slot is reserved for a new turn.                                 *)
LEMMA TakenKept ==
  ASSUME TypeInv, TicketInv, ReservedInv, ReservedKept, NEW a \in Actor, NEW t \in Turn, NEW p,
         NewTurn(a, t, "Regular", {}, p), pc[a] \in {"maybe:reserve", "try:reserve"},
         p = "start:take" => call[a].items = {}, p \in {"start:take", "try:recheck"},
         slot = NoSlot, UNCHANGED <<todo, queueVars, itemVars>>
  PROVE  ReservedKept'
<1>1. pc[t] = "unused" /\ t # a /\ task[t].items = {}
  BY DEF NewTurn, FreshTurn, ReservedKept, HandsBusy
<1>2. /\ pc'[t] = "queued" /\ pc'[a] = p /\ \A b \in Actor \ {a, t} : pc'[b] = pc[b]
  BY <1>1, TurnTaken
<1>3. /\ \A b \in Actor : call'[b].items = call[b].items
      /\ task'[t].items = {} /\ \A u \in Turn \ {t} : task'[u] = task[u]
  BY DEF NewTurn, NewTask, TypeInv, CallTyped, CallType, TaskTyped
<1>4. ~KeepsSlot
  BY FreeSlot DEF KeepsSlot, Starts, FinishPoint, NoSlot
<1>5. call[t].items = {} 
  BY <1>1, Actors DEF ReservedKept, HandsBusy, Choice, TryPoint
<1>6. a \in Turn => task[a].items = {}
  BY DEF ReservedKept, HandsBusy
<1>7. \A b \in Actor : \/ call'[b].items = call[b].items /\ pc'[b] = pc[b]
                       \/ call'[b].items = call[b].items /\ pc'[b] \in Choice
                       \/ call'[b].items = {} /\ pc[b] \in Choice
                       \/ call'[b].items = {} /\ call[b].items = {}
  BY <1>2, <1>3, <1>5 DEF Choice, TryPoint
<1>8. \A u \in Turn : \/ task'[u].items = task[u].items /\ pc'[u] = pc[u]
                      \/ task'[u].items = {} /\ task[u].items = {} /\ pc'[u] # "work"
  BY <1>1, <1>2, <1>3, <1>6, Actors
<1>9. UNCHANGED <<turnState, mailbox, staged>>
  BY DEF queueVars
<1> QED
  BY <1>4, <1>7, <1>8, <1>9, QuietKept

(* A reservation is given up before anything precious is in it.            *)
LEMMA GivenUpKept ==
  ASSUME TypeInv, TicketInv, ReservedInv, ReservedKept, NEW a \in Actor, pc[a] \in TryPoint,
         NEW p \in {"maybe:check", "idle", "exited", "finish:wake", "done"},
         GiveUpReservation(a, p)
  PROVE  ReservedKept'
<1>1. /\ call[a].turn \in Turn /\ call[a].turn # a /\ pc[call[a].turn] = "queued"
      /\ slot.task = NoTurn
      /\ \A b \in Actor \ {a} : pc[b] \notin Starts
      /\ \A t \in Turn : pc[t] \notin FinishPoint
  BY StarterAlone DEF Starts
<1>2. ~KeepsSlot
  BY <1>1 DEF KeepsSlot, Starts, FinishPoint, StartPoint, TryPoint
<1>3. /\ pc'[a] = p /\ pc'[call[a].turn] = "rejected"
      /\ \A b \in Actor \ {a, call[a].turn} : pc'[b] = pc[b]
  BY <1>1, GivenUp
<1>4. /\ call'[a].items = {} /\ \A b \in Actor \ {a} : call'[b] = call[b]
      /\ UNCHANGED <<todo, turnState, mailbox, staged, task, itemVars>>
  BY DEF GiveUpReservation, queueVars, TypeInv, CallTyped, CallType
<1>5. call[call[a].turn].items = {} /\ task[call[a].turn].items = {}
  BY <1>1, Actors DEF ReservedKept, HandsBusy, Choice, TryPoint
<1>6. a \in Turn => task[a].items = {}
  BY DEF ReservedKept, HandsBusy, TryPoint
<1>7. \A b \in Actor : \/ call'[b].items = call[b].items /\ pc'[b] = pc[b]
                       \/ call'[b].items = call[b].items /\ pc'[b] \in Choice
                       \/ call'[b].items = {} /\ pc[b] \in Choice
                       \/ call'[b].items = {} /\ call[b].items = {}
  BY <1>1, <1>3, <1>4, <1>5 DEF Choice
<1>8. \A u \in Turn : \/ task'[u].items = task[u].items /\ pc'[u] = pc[u]
                      \/ task'[u].items = {} /\ task[u].items = {} /\ pc'[u] # "work"
  BY <1>1, <1>3, <1>4, <1>5, <1>6, Actors
<1> QED
  BY <1>2, <1>4, <1>7, <1>8, QuietKept

(* start_task drains the queues into its hands ...                         *)
LEMMA StartTakeKept ==
  ASSUME TypeInv, TicketInv, ReservedInv, ReservedKept, NEW a \in Actor, StartTake(a)
  PROVE  ReservedKept'
<1>1. /\ call'[a].items = PendingInput
      /\ \A b \in Actor \ {a} : call'[b] = call[b]
      /\ UNCHANGED <<todo, slot, task, accepted, recorded, discarded>> /\ DrainPendingInput
      /\ pc[a] = "start:take" /\ pc'[a] = "start:attach"
      /\ \A b \in Actor \ {a} : pc'[b] = pc[b]
  BY DEF StartTake, Goto, TypeInv, CallTyped, CallType, PcTyped, itemVars
<1>2. call[a].items = {}
  BY <1>1 DEF ReservedKept, HandsBusy, Choice, TryPoint
<1>3. KeepsSlot'
  BY <1>1 DEF KeepsSlot, StartPoint
<1>4. PreciousInSlot'
  BY <1>1, <1>3, DrainTakes, PreciousStays DEF ReservedKept
<1>5. HandsBusy'
  <2>1. \A t \in Turn : (task'[t].items # {} => pc'[t] = "record") /\ pc'[t] # "work"
    BY <1>1, Actors DEF ReservedKept, HandsBusy
  <2> QED
    BY <1>1, <2>1 DEF ReservedKept, HandsBusy
<1>d. /\ \A i \in mailbox : i \in mailbox' \/ i \in PendingInput
      /\ staged' = staged
      /\ \A ts \in TurnStateId : \A i \in turnState[ts].pending :
           i \in turnState'[ts].pending \/ i \in PendingInput
  <2>1. slot # NoSlot => slot.ts \in TurnStateId
    BY DEF TypeInv, SlotTyped
  <2> QED
    BY <1>1, <2>1
    DEF DrainPendingInput, PendingInput, SlotPending, TypeInv, QueuesTyped, QueueType
<1>6. KeptHere'
  <2>1. \A i \in PendingInput : Here(i)'
    BY <1>1, HereNext
  <2>2. \A i \in mailbox \cup staged : Here(i)'
    BY <1>d, <2>1, HereNext
  <2>3. \A b \in Actor : \A i \in call[b].items : Here(i)'
    BY <1>1, <1>2, HereNext
  <2>4. \A t \in Turn : \A i \in task[t].items : Here(i)'
    BY <1>1, HereNext
  <2>5. \A ts \in TurnStateId : \A i \in turnState[ts].pending : Here(i)'
    BY <1>d, <2>1, HereNext
  <2> QED
    BY <1>1, <2>2, <2>3, <2>4, <2>5, HereStays DEF ReservedKept
<1> QED
  BY <1>1, <1>4, <1>5, <1>6 DEF ReservedKept, TodoApart

(* ... and an idle start, or start_task, puts what is in its hands into    *)
(* the reserved TurnState.                                                 *)
LEMMA PutKept ==
  ASSUME TypeInv, TicketInv, ReservedInv, ReservedKept, NEW a \in Actor,
         NEW p \in StartPoint, Goto(a, p), NEW ts \in TurnStateId, slot'.ts = ts,
         KeepsSlot => slot.ts = ts,
         turnState' = [turnState EXCEPT ![ts].pending = @ \cup call[a].items],
         call' = [call EXCEPT ![a].items = {}],
         slot'.task = slot.task, a \in Turn => task[a].items = {}, pc[a] # "finish:record",
         \A i, t : <<i, t>> \in accepted' => <<i, t>> \in accepted \/ i \in call[a].items,
         UNCHANGED <<todo, mailbox, staged, task, recorded, discarded>>
  PROVE  ReservedKept'
<1>1. pc'[a] = p /\ \A b \in Actor \ {a} : pc'[b] = pc[b]
  BY Went
<1>2. KeepsSlot'
  BY <1>1 DEF KeepsSlot
<1>3. /\ turnState'[ts].pending = turnState[ts].pending \cup call[a].items
      /\ \A x \in TurnStateId \ {ts} : turnState'[x] = turnState[x]
      /\ call'[a].items = {} /\ \A b \in Actor \ {a} : call'[b] = call[b]
  BY DEF TypeInv, QueuesTyped, QueueType, CallTyped, CallType
<1>4. PreciousInSlot'
  BY <1>2, <1>3, PreciousStays DEF ReservedKept
<1>5. HandsBusy'
  <2>1. \A t \in Turn : (task'[t].items # {} => pc'[t] = "record") /\ pc'[t] # "work"
    BY <1>1, Actors DEF ReservedKept, HandsBusy, StartPoint
  <2> QED
    BY <1>1, <1>3, <2>1 DEF ReservedKept, HandsBusy
<1>6. KeptHere'
  <2>1. \A i \in call[a].items : Here(i)'
    BY <1>3, HereNext
  <2>2. \A b \in Actor : \A i \in call[b].items : Here(i)'
    BY <1>3, <2>1, HereNext
  <2>3. \A x \in TurnStateId : \A i \in turnState[x].pending : Here(i)'
    BY <1>3, HereNext
  <2>4. /\ \A i \in mailbox \cup staged : Here(i)'
        /\ \A t \in Turn : \A i \in task[t].items : Here(i)'
    BY HereNext
  <2> QED
    BY <2>1, <2>2, <2>3, <2>4, HereStays DEF ReservedKept
<1> QED
  BY <1>4, <1>5, <1>6 DEF ReservedKept, TodoApart

(* Every step of a start keeps it.                                         *)
LEMMA StarterKept ==
  ASSUME TypeInv, TicketInv, ReservedInv, ReservedKept, NEW a \in Actor, StartStep(a)
  PROVE  ReservedKept'
<1>r. call[a].ret \in {"idle", "exited", "finish:wake", "done"}
  BY DEF TypeInv, CallTyped, CallType
<1>h. /\ call[a].items # {} => pc[a] \in Choice \cup {"start:attach"}
      /\ a \in Turn /\ pc[a] # "record" => task[a].items = {}
  BY DEF ReservedKept, HandsBusy
<1>0. ASSUME NEW p, Goto(a, p), p # "work", pc[a] \notin StartPoint \cup {"finish:record", "record"},
             call' \in {call, [call EXCEPT ![a].items = {}]},
             call' = call \/ pc[a] \in Choice,
             p \in Choice \/ pc[a] \notin Choice \/ call' = [call EXCEPT ![a].items = {}],
             UNCHANGED <<todo, slot, queueVars, task, itemVars>>
      PROVE  ReservedKept'
  <2>1. call' = [call EXCEPT ![a].items = {}] => call'[a].items = {}
    BY DEF TypeInv, CallTyped, CallType
  <2>2. p \in Choice \/ call[a].items = {} \/ call'[a].items = {}
    BY <1>0, <1>h, <2>1 DEF StartPoint
  <2>3. UNCHANGED <<turnState, mailbox, staged>>
    BY <1>0 DEF queueVars
  <2> QED
    BY <1>0, <1>h, <2>2, <2>3, GoneKept
<1>1. CASE MaybeCheck(a)
  BY <1>0, <1>1, <1>r DEF MaybeCheck, Return, Choice, TryPoint, StartPoint
<1>2. CASE MaybeReserve(a)
  <2>1. CASE Return(a) /\ UNCHANGED <<slot, call, task>>
    BY <1>0, <1>2, <2>1, <1>r DEF MaybeReserve, Return, Choice, TryPoint, StartPoint
  <2>2. ASSUME slot = NoSlot, NEW t \in Turn, NewTurn(a, t, "Regular", {}, "start:take")
        PROVE  ReservedKept'
    <3>1. call[a].items = {}
      BY <1>2, <1>h DEF MaybeReserve, Choice, TryPoint
    <3> QED
      BY <1>2, <2>2, <3>1, TakenKept DEF MaybeReserve
  <2> QED
    BY <1>2, <2>1, <2>2 DEF MaybeReserve
<1>3. CASE TryCheck(a)
  BY <1>0, <1>3, <1>r DEF TryCheck, Return, Choice, StartPoint
<1>4. CASE TryReserve(a)
  <2>1. CASE Return(a) /\ call' = [call EXCEPT ![a].items = {}] /\ UNCHANGED <<slot, task>>
    BY <1>0, <1>4, <2>1, <1>r DEF TryReserve, Return, Choice, StartPoint
  <2>2. ASSUME slot = NoSlot, NEW t \in Turn, NewTurn(a, t, "Regular", {}, "try:recheck")
        PROVE  ReservedKept'
    BY <1>4, <2>2, TakenKept DEF TryReserve
  <2> QED
    BY <1>4, <2>1, <2>2 DEF TryReserve
<1>5. CASE TryRecheck(a)
  <2>1. CASE GiveUpReservation(a, "maybe:check")
    BY <1>5, <2>1, GivenUpKept DEF TryRecheck, TryPoint
  <2>2. CASE /\ Goto(a, IF pc[a] = "try:recheck" THEN "try:route" ELSE "try:claim")
             /\ UNCHANGED <<todo, slot, queueVars, call, abort, task, sent, itemVars>>
    BY <1>0, <1>5, <2>2 DEF TryRecheck, Choice, TryPoint, StartPoint
  <2> QED
    BY <1>5, <2>1, <2>2 DEF TryRecheck
<1>6. CASE TryRoute(a)
  <2>1. CASE GiveUpReservation(a, call[a].ret)
    BY <1>6, <1>r, <2>1, GivenUpKept DEF TryRoute, TryPoint
  <2>2. CASE /\ Goto(a, "try:routed")
             /\ UNCHANGED <<todo, slot, queueVars, call, abort, task, sent, itemVars>>
    BY <1>0, <1>6, <2>2 DEF TryRoute, Choice, TryPoint, StartPoint
  <2> QED
    BY <1>6, <2>1, <2>2 DEF TryRoute
<1>7. CASE TryClaim(a)
  <2>1. CASE GiveUpReservation(a, call[a].ret)
    BY <1>7, <1>r, <2>1, GivenUpKept DEF TryClaim, TryPoint
  <2>2. CASE /\ Goto(a, "try:extend")
             /\ UNCHANGED <<todo, slot, queueVars, call, abort, task, sent, itemVars>>
    BY <1>0, <1>7, <2>2 DEF TryClaim, Choice, TryPoint, StartPoint
  <2> QED
    BY <1>7, <2>1, <2>2 DEF TryClaim
<1>8. CASE TryExtend(a)
  <2>1. PICK ts \in TurnStateId : ts = slot.ts /\ ts = <<call[a].turn, "reserve">>
    <3>1. slot.ts = <<call[a].turn, "reserve">> /\ call[a].turn \in Turn
      BY <1>8, StarterAlone DEF TryExtend, Starts, TryPoint
    <3> QED
      BY <3>1 DEF TurnStateId
  <2>2. \A i, t : <<i, t>> \in accepted' => <<i, t>> \in accepted \/ i \in call[a].items
    BY <1>8 DEF TryExtend
  <2>3. "start:take" \in StartPoint /\ pc[a] = "try:extend"
    BY <1>8 DEF TryExtend, StartPoint
  <2> QED
    BY <1>8, <1>h, <2>1, <2>2, <2>3, PutKept DEF TryExtend
<1>9. CASE StartAttach(a)
  <2>1. PICK ts \in TurnStateId : ts = slot.ts /\ slot # NoSlot
    BY <1>9, StarterAlone DEF StartAttach, Starts, StartPoint, TypeInv, SlotTyped
  <2>2. slot' = [slot EXCEPT !.ts = ts]
    BY <1>9, <2>1 DEF StartAttach
  <2>3. slot'.ts = ts /\ slot'.task = slot.task
    BY <2>2 DEF TypeInv, SlotTyped, SlotType
  <2>4. "start:install" \in StartPoint /\ pc[a] = "start:attach"
    BY <1>9 DEF StartAttach, StartPoint
  <2>5. turnState' = [turnState EXCEPT ![ts].pending = @ \cup call[a].items]
    BY <1>9, <2>1 DEF StartAttach
  <2>6. \A i, t : <<i, t>> \in accepted' => <<i, t>> \in accepted \/ i \in call[a].items
    BY <1>9 DEF StartAttach, itemVars
  <2> QED
    BY <1>9, <1>h, <2>1, <2>3, <2>4, <2>5, <2>6, PutKept DEF StartAttach, itemVars
<1>10. CASE StartInstall(a)
  <2>1. PICK t \in Turn : t = call[a].turn /\ t # a /\ pc[t] = "queued" /\ slot # NoSlot
                          /\ slot.task = NoTurn
    BY <1>10, StarterAlone DEF StartInstall, Starts, StartPoint
  <2>2. /\ pc'[a] = call[a].ret /\ pc'[t] = "begin"
        /\ \A b \in Actor \ {a, t} : pc'[b] = pc[b]
    BY <1>10, <2>1, Actors DEF StartInstall
  <2>3. /\ slot'.ts = slot.ts /\ slot'.task = t
        /\ \A b \in Actor : call'[b].items = call[b].items
        /\ UNCHANGED <<todo, turnState, mailbox, staged, task, itemVars>>
    BY <1>10, <2>1 DEF StartInstall, queueVars, TypeInv, CallTyped, CallType
  <2>4. KeepsSlot'
    BY <2>1, <2>3, Actors DEF KeepsSlot
  <2>5. call[a].items = {} /\ call[t].items = {} /\ task[t].items = {}
        /\ (a \in Turn => task[a].items = {})
    BY <1>10, <1>h, <2>1, Actors
    DEF StartInstall, ReservedKept, HandsBusy, Choice, TryPoint
  <2>6. \A b \in Actor : \/ call'[b].items = call[b].items /\ pc'[b] = pc[b]
                         \/ call'[b].items = {} /\ call[b].items = {}
    BY <2>2, <2>3, <2>5
  <2>7. \A u \in Turn : \/ task'[u].items = task[u].items /\ pc'[u] = pc[u]
                        \/ task'[u].items = {} /\ task[u].items = {} /\ pc'[u] # "work"
    BY <1>r, <2>2, <2>3, <2>5, Actors
  <2> QED
    BY <2>3, <2>4, <2>6, <2>7, QuietKept
<1> QED
  BY <1>1, <1>2, <1>3, <1>4, <1>5, <1>6, <1>7, <1>8, <1>9, <1>10, StartTakeKept DEF StartStep

(* Steps that keep the hands as they are; what leaves a queue is taken     *)
(* back, what comes into one is not precious or is in a slot that is kept. *)
LEMMA QueuesKept ==
  ASSUME TypeInv, TicketInv, ReservedKept, HandsBusy', todo' \subseteq todo,
         slot'.ts = slot.ts, KeepsSlot => KeepsSlot', task' = task,
         \A b \in Actor : call'[b].items = call[b].items,
         recorded \subseteq recorded', discarded' = discarded,
         mailbox \cup staged \subseteq mailbox' \cup staged',
         \A ts \in TurnStateId : \A i \in turnState'[ts].pending :
           \/ i \in turnState[ts].pending
           \/ i \notin Precious
           \/ slot.ts = ts /\ KeepsSlot,
         \A ts \in TurnStateId : \A i \in turnState[ts].pending :
           i \in turnState'[ts].pending \/ \A t : <<i, t>> \notin accepted',
         \A i, t : <<i, t>> \in accepted' => <<i, t>> \in accepted \/ Here(i)'
  PROVE  ReservedKept'
<1>1. TodoApart'
  BY DEF ReservedKept, TodoApart
<1>2. PreciousInSlot'
  BY PreciousStays DEF ReservedKept
<1>3. KeptHere'
  <2>1. \A i \in mailbox \cup staged : Here(i)'
    BY HereNext
  <2>2. \A b \in Actor : \A i \in call[b].items : Here(i)'
    BY HereNext
  <2>3. \A t \in Turn : \A i \in task[t].items : Here(i)'
    BY HereNext
  <2>4. \A ts \in TurnStateId : \A i \in turnState[ts].pending :
          Here(i)' \/ \A t : <<i, t>> \notin accepted'
    BY HereNext
  <2>5. discarded \subseteq discarded'
    OBVIOUS
  <2> QED
    BY <2>1, <2>2, <2>3, <2>4, <2>5, HereStays DEF ReservedKept
<1> QED
  BY <1>1, <1>2, <1>3 DEF ReservedKept

(* Steers, cancelled steers, injections and staged mail.                   *)
LEMMA SideRequestKept ==
  ASSUME TypeInv, TicketInv, ReservedKept, NEW o \in todo,
         Steer(o) \/ CancelSteer(o) \/ Inject(o) \/ LoopStage(o) \/ LoopRelease(o)
  PROVE  ReservedKept'
<1>1. UNCHANGED <<slot, pc, call, task, discarded>> /\ todo' \subseteq todo
  BY DEF Steer, CancelSteer, Inject, LoopStage, LoopRelease, Take, itemVars
<1>2. HandsBusy' /\ (KeepsSlot => KeepsSlot')
  BY <1>1 DEF ReservedKept, HandsBusy, KeepsSlot
<1>0. ASSUME recorded \subseteq recorded', mailbox \cup staged \subseteq mailbox' \cup staged',
             UNCHANGED turnState,
             \A i, t : <<i, t>> \in accepted' => <<i, t>> \in accepted \/ Here(i)'
      PROVE  ReservedKept'
  BY <1>0, <1>1, <1>2, QueuesKept
<1>a. ASSUME NEW t, AddToSlot(o.item, t), slot # NoSlot, o.item \notin Precious \/ KeepsSlot,
             recorded' = recorded
      PROVE  ReservedKept'
  <2>1. PICK ts \in TurnStateId : ts = slot.ts
    BY <1>a DEF TypeInv, SlotTyped
  <2>2. /\ turnState'[ts].pending = turnState[ts].pending \cup {o.item}
        /\ \A x \in TurnStateId \ {ts} : turnState'[x] = turnState[x]
    BY <1>a, <2>1 DEF AddToSlot, TypeInv, QueuesTyped, QueueType
  <2>3. Here(o.item)'
    BY <2>2, HereNext
  <2>4. \A i, u : <<i, u>> \in accepted' => <<i, u>> \in accepted \/ Here(i)'
    BY <1>a, <2>3 DEF AddToSlot
  <2>5. \A x \in TurnStateId : \A i \in turnState'[x].pending :
          \/ i \in turnState[x].pending
          \/ i \notin Precious
          \/ slot.ts = x /\ KeepsSlot
    BY <1>a, <2>1, <2>2
  <2>6. \A x \in TurnStateId : \A i \in turnState[x].pending : i \in turnState'[x].pending
    BY <2>2
  <2>7. UNCHANGED <<mailbox, staged>>
    BY <1>a DEF AddToSlot
  <2> QED
    BY <1>1, <1>2, <1>a, <2>4, <2>5, <2>6, <2>7, QueuesKept
<1>3. CASE Steer(o)
  <2>1. CASE UNCHANGED <<queueVars, accepted>>
    BY <1>0, <1>3, <2>1 DEF Steer, queueVars
  <2>2. CASE Steerable /\ AddToSlot(o.item, slot.task)
    <3>1. PICK u : u = slot.task
      OBVIOUS
    <3>2. slot # NoSlot /\ KeepsSlot
      BY <2>2, SlotFields DEF Steerable, SteerTarget, KeepsSlot, TypeInv, SlotTyped
    <3> QED
      BY <1>a, <1>3, <2>2, <3>1, <3>2 DEF Steer
  <2> QED
    BY <1>3, <2>1, <2>2 DEF Steer
<1>4. CASE CancelSteer(o)
  <2>1. CASE UNCHANGED <<turnState, accepted>>
    BY <1>0, <1>4, <2>1 DEF CancelSteer
  <2>2. CASE /\ slot.task # NoTurn
             /\ o.item \in SlotPending /\ <<o.item, slot.task>> \in accepted
             /\ turnState' = [turnState EXCEPT ![slot.ts].pending = @ \ {o.item}]
             /\ accepted' = accepted \ {<<o.item, slot.task>>}
    <3>1. PICK ts \in TurnStateId : ts = slot.ts
      BY <2>2, SlotFields DEF TypeInv, SlotTyped
    <3>2. /\ turnState'[ts].pending = turnState[ts].pending \ {o.item}
          /\ \A x \in TurnStateId \ {ts} : turnState'[x] = turnState[x]
      BY <2>2, <3>1 DEF TypeInv, QueuesTyped, QueueType
    <3>3. \A t : <<o.item, t>> \notin accepted'
      BY <2>2 DEF TicketInv
    <3>4. \A i, t : <<i, t>> \in accepted' => <<i, t>> \in accepted
      BY <2>2
    <3>5. \A x \in TurnStateId : \A i \in turnState[x].pending :
            i \in turnState'[x].pending \/ \A t : <<i, t>> \notin accepted'
      BY <3>2, <3>3
    <3>6. \A x \in TurnStateId : \A i \in turnState'[x].pending : i \in turnState[x].pending
      BY <3>2
    <3>7. UNCHANGED <<mailbox, staged, recorded>>
      BY <1>4 DEF CancelSteer
    <3> QED
      BY <1>1, <1>2, <3>4, <3>5, <3>6, <3>7, QueuesKept
  <2> QED
    BY <1>4, <2>1, <2>2 DEF CancelSteer
<1>5. CASE Inject(o)
  <2>1. o.item \notin Precious
    BY <1>5 DEF Inject, Injected, ReservedKept, TodoApart
  <2>2. CASE slot # NoSlot /\ AddToSlot(o.item, NoTurn) /\ UNCHANGED recorded
    BY <1>a, <2>1, <2>2
  <2>3. CASE /\ recorded' = recorded \cup {<<o.item, NoTurn>>}
             /\ accepted' = accepted \cup {<<o.item, NoTurn>>}
             /\ UNCHANGED queueVars
    <3>1. Here(o.item)'
      <4>1. <<o.item, NoTurn>> \in recorded'
        BY <2>3
      <4> QED
        BY <4>1, HereNext
    <3>2. \A i, u : <<i, u>> \in accepted' => <<i, u>> \in accepted \/ Here(i)'
      BY <2>3, <3>1
    <3> QED
      BY <1>0, <2>3, <3>2 DEF queueVars
  <2>4. CASE UNCHANGED <<queueVars, accepted, recorded>>
    BY <1>0, <2>4 DEF queueVars
  <2> QED
    BY <1>5, <2>2, <2>3, <2>4 DEF Inject
<1>6. CASE LoopStage(o)
  <2>1. o.item \in staged' /\ accepted' = accepted \cup {<<o.item, NoTurn>>}
    BY <1>6 DEF LoopStage
  <2>2. \A i, u : <<i, u>> \in accepted' => <<i, u>> \in accepted \/ Here(i)'
    BY <2>1, HereNext
  <2> QED
    BY <1>0, <1>6, <2>2 DEF LoopStage
<1>7. CASE LoopRelease(o)
  <2>1. mailbox \cup staged \subseteq mailbox' \cup staged'
    BY <1>7 DEF LoopRelease
  <2> QED
    BY <1>0, <1>7, <2>1 DEF LoopRelease, itemVars
<1> QED
  BY <1>3, <1>4, <1>5, <1>6, <1>7

(* Every request does.                                                     *)
LEMMA RequestKept ==
  ASSUME TypeInv, TicketInv, ReservedInv, ReservedKept, NEW o \in todo, Request(o)
  PROVE  ReservedKept'
<1>1. o.op \notin UnreservedOp
  BY DEF ReservedInv, StartsReserve
<1>2. \/ Steer(o) \/ CancelSteer(o) \/ Inject(o) \/ LoopStage(o) \/ LoopRelease(o)
      \/ LoopMail(o) \/ LoopStartPendingWork(o) \/ ExtIdleStart(o)
  BY <1>1 DEF Request, LoopUserInput, LoopSpawn, LoopInterrupt, UnreservedOp, TaskKind
<1>3. CASE LoopMail(o) \/ LoopStartPendingWork(o)
  <2>1. PICK p \in {"maybe:check", "idle"} : Goto(Loop, p)
    BY <1>3 DEF LoopMail, LoopStartPendingWork
  <2>2. pc'[Loop] = p /\ pc[Loop] = "idle" /\ \A b \in Actor \ {Loop} : pc'[b] = pc[b]
    BY <1>3, <2>1, Actors, Went DEF LoopMail, LoopStartPendingWork
  <2>3. /\ \A b \in Actor : call'[b].items = call[b].items
        /\ UNCHANGED <<slot, turnState, staged, task, recorded, discarded>>
        /\ todo' \subseteq todo /\ mailbox \subseteq mailbox'
    BY <1>3 DEF LoopMail, LoopStartPendingWork, TypeInv, CallTyped, CallType, queueVars,
                itemVars, Take
  <2>4. KeepsSlot => KeepsSlot'
    <3>1. \A b \in Actor : pc[b] \in StartPoint => pc'[b] \in StartPoint
      BY <2>2 DEF StartPoint
    <3>2. \A t \in Turn : pc[t] = "finish:record" => pc'[t] = "finish:record"
      BY <2>2, Actors
    <3> QED
      BY <2>3, <3>1, <3>2, SlotKept
  <2>5. HandsBusy'
    <3>1. \A t \in Turn : (task'[t].items # {} => pc'[t] = "record") /\ pc'[t] # "work"
      BY <2>2, <2>3, Actors DEF ReservedKept, HandsBusy
    <3>2. call[Loop].items = {}
      BY <2>2, Actors DEF ReservedKept, HandsBusy, Choice, TryPoint
    <3>3. \A b \in Actor : call'[b].items # {} => pc'[b] \in Choice \cup {"start:attach"}
      BY <2>2, <2>3, <3>2 DEF ReservedKept, HandsBusy
    <3> QED
      BY <3>1, <3>3 DEF HandsBusy
  <2>6. \A i, t : <<i, t>> \in accepted' => <<i, t>> \in accepted \/ Here(i)'
    <3>1. CASE LoopMail(o)
      <4>1. o.item \in mailbox' /\ accepted' = accepted \cup {<<o.item, NoTurn>>}
        BY <3>1 DEF LoopMail
      <4> QED
        BY <4>1, HereNext
    <3>2. CASE LoopStartPendingWork(o)
      BY <3>2 DEF LoopStartPendingWork, itemVars
    <3> QED
      BY <1>3, <3>1, <3>2
  <2> QED
    BY <2>3, <2>4, <2>5, <2>6, QueuesKept
<1>4. CASE ExtIdleStart(o)
  <2>1. /\ pc'[Ext] = "try:check" /\ pc[Ext] = "idle"
        /\ \A b \in Actor \ {Ext} : pc'[b] = pc[b] /\ call'[b] = call[b]
        /\ UNCHANGED <<slot, turnState, mailbox, staged, task, itemVars>> /\ todo' \subseteq todo
    BY <1>4, Actors
    DEF ExtIdleStart, Goto, Take, TypeInv, PcTyped, CallTyped, queueVars
  <2>2. call[Ext].items = {}
    BY <2>1, Actors DEF ReservedKept, HandsBusy, Choice, TryPoint
  <2>3. KeepsSlot => slot'.ts = slot.ts /\ KeepsSlot'
    <3>1. \A b \in Actor : pc[b] \in StartPoint => pc'[b] \in StartPoint
      BY <2>1 DEF StartPoint
    <3>2. \A t \in Turn : pc[t] = "finish:record" => pc'[t] = "finish:record"
      BY <2>1, Actors
    <3> QED
      BY <2>1, <3>1, <3>2, SlotKept
  <2>4. \A b \in Actor : \/ call'[b].items = call[b].items /\ pc'[b] = pc[b]
                         \/ call[b].items = {} /\ pc'[b] \in Choice
    BY <2>1, <2>2 DEF Choice
  <2>5. \A t \in Turn : task'[t].items = task[t].items /\ pc'[t] = pc[t]
    BY <2>1, Actors
  <2> QED
    BY <2>1, <2>3, <2>4, <2>5, QuietKept
<1> QED
  BY <1>2, <1>3, <1>4, SideRequestKept

(* A turn that runs drains the slot's queues into its hands, and records   *)
(* or drops what is in them.                                               *)
LEMMA RunningKept ==
  ASSUME TypeInv, TicketInv, ReservedInv, RegularOnly, ReservedKept, NEW t \in Turn, RunStep(t)
  PROVE  ReservedKept'
<1>1. /\ UNCHANGED <<todo, slot, call, accepted>>
      /\ pc[t] \in RunPoint /\ pc'[t] \in RunPoint \cup {"done"}
      /\ \A a \in Actor \ {t} : pc'[a] = pc[a]
      /\ \A ts \in TurnStateId : turnState'[ts].pending \subseteq turnState[ts].pending
  BY RunShape
<1>2. slot.task = t /\ t # NoTurn
  BY <1>1, Actors DEF Running, ReservedInv, TaskHoldsSlot
<1>3. KeepsSlot'
  BY <1>1, <1>2 DEF KeepsSlot
<1>4. PreciousInSlot'
  BY <1>1, <1>3, PreciousStays DEF ReservedKept
<1>t. /\ \A u \in Turn \ {t} : task'[u] = task[u]
      /\ TaskDrain(t) \/ task'[t].items \subseteq task[t].items
  BY TaskShape
<1>w. pc[t] # "work" /\ (task[t].items # {} => pc[t] = "record") /\ task[t].kind = "Regular"
  BY DEF ReservedKept, HandsBusy, RegularOnly
<1>r. TaskRecord(t) => task'[t].items = {}
  BY DEF TaskRecord, TypeInv, TaskTyped, TaskType
<1>n. pc[t] = "record" => TaskRecord(t)
  BY DEF RunStep, TaskBegin, TaskWork, TaskPrepare, TaskPrepareFailed, TaskDrain, TaskStream,
         TaskFollowUp, TaskAnswered, TaskSampleFailed, TaskStop, TaskStopBlocked,
         TaskAfterTurn, TaskCheckCancelled
<1>g. pc'[t] # "work"
  <2>1. CASE TaskBegin(t)
    <3>1. Goto(t, "prepare")
      BY <1>w, <2>1 DEF TaskBegin
    <3> QED
      BY <3>1, Actors, Went
  <2>2. CASE TaskStream(t)
    BY <1>w, <2>2 DEF TaskStream
  <2>3. CASE ~TaskBegin(t) /\ ~TaskStream(t)
    <3>1. PICK p \in RunPoint \cup {"done"} : Goto(t, p) /\ p # "work"
      BY <2>3, <1>w
      DEF RunStep, TaskWork, TaskPrepare, TaskPrepareFailed, TaskDrain, TaskRecord,
          RecordInputs, TaskFollowUp, TaskAnswered, TaskSampleFailed, TaskStop,
          TaskStopBlocked, TaskAfterTurn, TaskCheckCancelled, RunPoint
    <3> QED
      BY <3>1, Actors, Went
  <2> QED
    BY <2>1, <2>2, <2>3
<1>d. TaskDrain(t) => pc'[t] = "record"
  BY Actors, Went DEF TaskDrain
<1>5. HandsBusy'
  <2>1. task'[t].items # {} => pc'[t] = "record"
    BY <1>t, <1>w, <1>r, <1>n, <1>d
  <2>2. ASSUME NEW u \in Turn PROVE (task'[u].items # {} => pc'[u] = "record") /\ pc'[u] # "work"
    BY <1>1, <1>t, <1>g, <2>1, Actors DEF ReservedKept, HandsBusy
  <2>3. ASSUME NEW a \in Actor, call'[a].items # {} PROVE pc'[a] \in Choice \cup {"start:attach"}
    BY <1>1, <2>3 DEF ReservedKept, HandsBusy, RunPoint, Choice, TryPoint
  <2> QED
    BY <2>2, <2>3 DEF HandsBusy
<1>i. recorded \subseteq recorded' /\ discarded \subseteq discarded'
  BY DEF RunStep, TaskBegin, TaskWork, TaskPrepare, TaskPrepareFailed, TaskDrain, TaskRecord,
         RecordInputs, TaskStream, TaskFollowUp, TaskAnswered, TaskSampleFailed, TaskStop,
         TaskStopBlocked, TaskAfterTurn, TaskCheckCancelled, itemVars
<1>6. \A i \in task[t].items : Here(i)'
  <2> SUFFICES ASSUME NEW i \in task[t].items PROVE Here(i)'
    OBVIOUS
  <2>1. RecordInputs(t, task[t].items, "sample")
    BY <1>w, <1>n DEF TaskRecord
  <2>2. i \in discarded' \/ <<i, t>> \in recorded'
    BY <2>1 DEF RecordInputs
  <2> QED
    BY <2>2, HereNext
<1>7. /\ \A i \in mailbox \cup staged : Here(i)'
      /\ \A ts \in TurnStateId : \A i \in turnState[ts].pending : Here(i)'
  <2>1. CASE ~TaskDrain(t)
    BY <2>1, RunQueues, HereNext
  <2>2. CASE TaskDrain(t)
    <3>1. CASE UNCHANGED queueVars
      BY <3>1, HereNext DEF queueVars
    <3>2. CASE task' = [task EXCEPT ![t].items = PendingInput] /\ DrainPendingInput
      <4>1. task'[t].items = PendingInput
        BY <3>2 DEF TypeInv, TaskTyped, TaskType
      <4>2. slot # NoSlot => slot.ts \in TurnStateId
        BY DEF TypeInv, SlotTyped
      <4>3. /\ \A i \in mailbox : i \in mailbox' \/ i \in PendingInput
            /\ staged' = staged
            /\ \A ts \in TurnStateId : \A i \in turnState[ts].pending :
                 i \in turnState'[ts].pending \/ i \in PendingInput
        BY <3>2, <4>2
        DEF DrainPendingInput, PendingInput, SlotPending, TypeInv, QueuesTyped, QueueType
      <4> QED
        BY <4>1, <4>3, HereNext
    <3> QED
      BY <2>2, <3>1, <3>2 DEF TaskDrain
  <2> QED
    BY <2>1, <2>2
<1>8. KeptHere'
  <2>1. \A u \in Turn : \A i \in task[u].items : Here(i)'
    BY <1>t, <1>6, HereNext
  <2>2. \A a \in Actor : \A i \in call[a].items : Here(i)'
    BY <1>1, HereNext
  <2> QED
    BY <1>1, <1>i, <1>7, <2>1, <2>2, HereStays DEF ReservedKept
<1> QED
  BY <1>1, <1>4, <1>5, <1>8 DEF ReservedKept, TodoApart

(* on_task_finished: what is left is recorded or dropped before the slot   *)
(* is given up.                                                            *)
LEMMA FinishedKept ==
  ASSUME TypeInv, TicketInv, ReservedInv, ReservedKept, NEW t \in Turn, FinishStep(t)
  PROVE  ReservedKept'
<1>h. /\ pc[t] # "record" => task[t].items = {}
      /\ pc[t] \notin Choice \cup {"start:attach"} => call[t].items = {}
      /\ t \in Actor
  BY Actors DEF ReservedKept, HandsBusy
<1>1. CASE FinishTake(t)
  <2>1. slot.task = t /\ t # NoTurn
    BY <1>1, Actors DEF FinishTake, Running, RunPoint, ReservedInv, TaskHoldsSlot
  <2>2. /\ pc[t] = "finish:take" /\ pc'[t] = "finish:record"
        /\ \A b \in Actor \ {t} : pc'[b] = pc[b]
        /\ UNCHANGED <<todo, turnState, mailbox, staged, call, itemVars>>
    BY <1>1, <1>h, <2>1, Went DEF FinishTake, queueVars
  <2>3. slot'.ts = slot.ts /\ \A u \in Turn : task'[u].items = task[u].items
    BY <1>1, <2>1 DEF FinishTake, TypeInv, SlotTyped, SlotType, TaskTyped, TaskType
  <2>4. KeepsSlot'
    BY <2>2 DEF KeepsSlot
  <2>5. call[t].items = {} /\ task[t].items = {}
    BY <1>h, <2>2 DEF Choice, TryPoint
  <2>6. \A b \in Actor : \/ call'[b].items = call[b].items /\ pc'[b] = pc[b]
                         \/ call'[b].items = {} /\ call[b].items = {}
    BY <2>2, <2>5
  <2>7. \A u \in Turn : \/ task'[u].items = task[u].items /\ pc'[u] = pc[u]
                        \/ task'[u].items = {} /\ task[u].items = {} /\ pc'[u] # "work"
    BY <2>2, <2>3, <2>5, Actors
  <2> QED
    BY <2>2, <2>3, <2>4, <2>6, <2>7, QuietKept
<1>2. CASE FinishRecord(t)
  <2>1. PICK X \in TurnStateId : X = task[t].ts /\ X = slot.ts
    BY <1>2 DEF FinishRecord, FinishPoint, TypeInv, FinishKnows, ReservedInv, TaskHoldsSlot
  <2>2. PICK blocked \in SUBSET (turnState[X].pending \cap UserItem) :
          /\ recorded' = recorded \cup ((turnState[X].pending \ blocked) \X {t})
          /\ discarded' = discarded \cup blocked
    BY <1>2, <2>1 DEF FinishRecord
  <2>3. /\ turnState'[X].pending = {}
        /\ \A ts \in TurnStateId \ {X} : turnState'[ts] = turnState[ts]
        /\ pc[t] = "finish:record" /\ pc'[t] = "finish:event"
        /\ \A b \in Actor \ {t} : pc'[b] = pc[b]
        /\ UNCHANGED <<todo, slot, mailbox, staged, call, task, accepted>>
    BY <1>2, <1>h, <2>1, Went DEF FinishRecord, TypeInv, QueuesTyped, QueueType
  <2>4. PreciousInSlot'
    BY <2>1, <2>3 DEF ReservedKept, PreciousInSlot
  <2>5. HandsBusy'
    <3>1. call[t].items = {} /\ task[t].items = {}
      BY <1>h, <2>3 DEF Choice, TryPoint
    <3> QED
      BY <2>3, <3>1, Actors DEF ReservedKept, HandsBusy
  <2>6. KeptHere'
    <3>1. \A ts \in TurnStateId : \A i \in turnState[ts].pending : Here(i)'
      <4>1. \A i \in turnState[X].pending : i \in discarded' \/ <<i, t>> \in recorded'
        BY <2>2
      <4> QED
        BY <2>3, <4>1, HereNext
    <3>2. /\ \A i \in mailbox \cup staged : Here(i)'
          /\ \A a \in Actor : \A i \in call[a].items : Here(i)'
          /\ \A u \in Turn : \A i \in task[u].items : Here(i)'
      BY <2>3, HereNext
    <3>3. recorded \subseteq recorded' /\ discarded \subseteq discarded'
      BY <2>2
    <3> QED
      BY <2>3, <3>1, <3>2, <3>3, HereStays DEF ReservedKept
  <2> QED
    BY <2>3, <2>4, <2>5, <2>6 DEF ReservedKept, TodoApart
<1>3. CASE FinishEvent(t)
  <2>1. /\ Goto(t, "finish:clear") /\ pc[t] = "finish:event"
        /\ UNCHANGED <<todo, slot, turnState, mailbox, staged, call, task, itemVars>>
    BY <1>3 DEF FinishEvent, queueVars
  <2>2. call[t].items = {} /\ task[t].items = {} /\ pc[t] \notin StartPoint
    BY <1>h, <2>1 DEF Choice, TryPoint, StartPoint
  <2> QED
    BY <1>h, <2>1, <2>2, GoneKept
<1>4. CASE FinishClear(t)
  <2>1. slot.task = NoTurn /\ slot.ts = <<t, "reserve">> /\ slot.ts = task[t].ts
    BY <1>4 DEF FinishClear, FinishPoint, ReservedInv, TaskHoldsSlot
  <2>2. PICK X \in TurnStateId : X = slot.ts
    BY <2>1 DEF TurnStateId
  <2>3. /\ turnState'[X].pending = {}
        /\ \A ts \in TurnStateId \ {X} : turnState'[ts] = turnState[ts]
        /\ task'[t].items = {} /\ \A u \in Turn \ {t} : task'[u] = task[u]
        /\ pc[t] = "finish:clear" /\ pc'[t] = "finish:idle"
        /\ \A b \in Actor \ {t} : pc'[b] = pc[b]
        /\ UNCHANGED <<todo, mailbox, staged, call, itemVars>>
    BY <1>4, <1>h, <2>1, <2>2, Went
    DEF FinishClear, NewTurnState, NewTask, TypeInv, QueuesTyped, QueueType, TaskTyped
  <2>4. ~KeepsSlot
    <3>1. \A a \in Actor : pc[a] \notin StartPoint
      BY <2>3, StarterAlone DEF Starts, FinishPoint
    <3>2. \A u \in Turn : pc[u] # "finish:record"
      BY <2>1, <2>3 DEF FinishPoint, ReservedInv, TaskHoldsSlot
    <3> QED
      BY <2>1, <3>1, <3>2 DEF KeepsSlot
  <2>5. \A ts \in TurnStateId : \A i \in turnState[ts].pending : i \notin Precious
    BY <2>4 DEF ReservedKept, PreciousInSlot
  <2>6. PreciousInSlot'
    BY <2>3, <2>5 DEF PreciousInSlot
  <2>7. call[t].items = {} /\ task[t].items = {}
    BY <1>h, <2>3 DEF Choice, TryPoint
  <2>8. HandsBusy'
    BY <2>3, <2>7, Actors DEF ReservedKept, HandsBusy
  <2>9. KeptHere'
    <3>1. /\ \A i \in mailbox \cup staged : Here(i)'
          /\ \A a \in Actor : \A i \in call[a].items : Here(i)'
          /\ \A u \in Turn : \A i \in task[u].items : Here(i)'
      BY <2>3, <2>7, HereNext
    <3>2. UNCHANGED <<accepted, recorded, discarded>>
      BY <2>3 DEF itemVars
    <3> QED
      BY <2>5, <3>1, <3>2, HereStays DEF ReservedKept
  <2> QED
    BY <2>3, <2>6, <2>8, <2>9 DEF ReservedKept, TodoApart
<1>5. CASE FinishIdle(t) \/ FinishWake(t)
  <2>1. /\ pc[t] \in {"finish:idle", "finish:wake"}
        /\ UNCHANGED <<slot, turnState, mailbox, staged, task, itemVars>>
        /\ todo' \subseteq todo
        /\ \A b \in Actor \ {t} : call'[b] = call[b]
    BY <1>5, <1>h DEF FinishIdle, FinishWake, Take, queueVars, TypeInv, CallTyped
  <2>2. call[t].items = {} /\ task[t].items = {}
    BY <1>h, <2>1 DEF Choice, TryPoint
  <2>3. PICK p \in {"try:check", "finish:wake", "maybe:check"} :
          Goto(t, p) /\ (p = "try:check" \/ call'[t].items = {})
    BY <1>5, <2>2 DEF FinishIdle, FinishWake, TypeInv, CallTyped, CallType
  <2>4. pc'[t] = p /\ \A b \in Actor \ {t} : pc'[b] = pc[b]
    BY <1>h, <2>3, Went
  <2>5. KeepsSlot => slot'.ts = slot.ts /\ KeepsSlot'
    <3>1. \A b \in Actor : pc[b] \in StartPoint => pc'[b] \in StartPoint
      BY <2>1, <2>4 DEF StartPoint
    <3>2. \A u \in Turn : pc[u] = "finish:record" => pc'[u] = "finish:record"
      BY <2>1, <2>4, Actors
    <3> QED
      BY <2>1, <3>1, <3>2, SlotKept
  <2>6. \A b \in Actor : \/ call'[b].items = call[b].items /\ pc'[b] = pc[b]
                         \/ call'[b].items = {} /\ call[b].items = {}
                         \/ call[b].items = {} /\ pc'[b] \in Choice
    BY <2>1, <2>2, <2>3, <2>4 DEF Choice
  <2>7. \A u \in Turn : \/ task'[u].items = task[u].items /\ pc'[u] = pc[u]
                        \/ task'[u].items = {} /\ task[u].items = {} /\ pc'[u] # "work"
    BY <2>1, <2>2, <2>4, Actors
  <2> QED
    BY <2>1, <2>5, <2>6, <2>7, QuietKept
<1> QED
  BY <1>1, <1>2, <1>3, <1>4, <1>5 DEF FinishStep

(* Every step of the session does.                                         *)
LEMMA ReservedKeptStep ==
  ASSUME TypeInv, TicketInv, ReservedInv, RegularOnly, ReservedKept, [Next]_vars
  PROVE  ReservedKept'
<1>1. CASE UNCHANGED vars
  <2>1. UNCHANGED <<todo, slot, turnState, mailbox, staged, pc, call, task, itemVars>>
    BY <1>1 DEF vars, queueVars
  <2>2. KeepsSlot => slot'.ts = slot.ts /\ KeepsSlot'
    BY <2>1 DEF KeepsSlot
  <2> QED
    BY <2>1, <2>2, QuietKept
<1>2. CASE LoopRouted \/ AbortTake \/ AbortCancel \/ AbortKill \/ AbortEvent \/ AbortClear
  BY <1>2
  DEF LoopRouted, AbortTake, AbortCancel, AbortKill, AbortEvent, AbortClear,
      ReservedInv, ReservedControl, Asks, StartPoint
<1> QED
  BY <1>1, <1>2, RequestKept, StarterKept, RunningKept, FinishedKept, Actors
  DEF Next, LoopStep, TaskStep

(* It holds at first.                                                      *)
LEMMA ReservedKeptInit ==
  ASSUME InjectedApart, Init
  PROVE  ReservedKept
<1>1. TodoApart
  BY WorkloadAssumption DEF Init, InjectedApart, TodoApart
<1>2. PreciousInSlot
  BY DEF Init, NewTurnState, PreciousInSlot
<1>3. HandsBusy
  BY Actors DEF Init, NewTask, HandsBusy
<1>4. KeptHere
  BY DEF Init, KeptHere
<1> QED
  BY <1>1, <1>2, <1>3, <1>4 DEF ReservedKept

(* There, too, no mail that was accepted is lost: a TurnState holds it     *)
(* only while it is the slot's and somebody who will look at it has the    *)
(* slot, the one who starts its turn, the task, or the one who finishes it *)
(* (get_pending_input, start_task, on_task_finished).  As in               *)
(* AcceptedInputIsKept, an injection must not bring an item that somebody  *)
(* else sends.                                                             *)
THEOREM ReservedMailIsKept ==
  ASSUME ItemsBroughtOnce, InjectedApart
  PROVE  Spec /\ StartsReserve => []NoItemLost
<1> DEFINE Inv == /\ TypeInv /\ ReservedInv /\ OnePlace
                  /\ RegularOnly /\ TriesAlone /\ TicketInv /\ ReservedKept
<1>1. Init /\ StartsReserve => Inv
  BY TypeInit, ReservedInit, ItemInit, ReservedLedgerInit, TicketInit, ReservedKeptInit
<1>2. Inv /\ [Next]_vars => Inv'
  BY TypeStep, ReservedStep, ItemStep, ReservedAlone, ReservedOrderly, TicketStep,
     ReservedKeptStep
<1>3. Inv => NoItemLost
  <2> SUFFICES ASSUME TypeInv, TicketInv, ReservedKept, NEW i \in ItemsIn(accepted), i \in Precious
               PROVE  i \in ItemsIn(recorded) \/ i \in discarded \/ i \in Held
    BY DEF NoItemLost, Precious
  <2>1. PICK t : <<i, t>> \in accepted
    <3>1. PICK p \in accepted : p[1] = i
      BY DEF ItemsIn
    <3>2. p = <<i, p[2]>>
      BY <3>1 DEF TypeInv, ItemsTyped
    <3> QED
      BY <3>1, <3>2
  <2>2. ASSUME NEW k, NEW x, At(i, k, x) PROVE i \in ItemsIn(recorded) \/ i \in Held
    <3>1. k # "todo"
      BY <2>1, <2>2 DEF TicketInv, Ticketed, Unaccepted
    <3>2. CASE k \in {"mailbox", "staged", "call"}
      BY <2>2, <3>2 DEF At, Held
    <3>3. CASE k = "task"
      <4>1. x \in Turn /\ i \in task[x].items /\ pc[x] # "dropped"
        BY <2>2, <3>3 DEF At, ReservedKept, HandsBusy
      <4> QED
        BY <4>1 DEF Held
    <3>4. CASE k = "state"
      <4>1. x \in TurnStateId /\ i \in turnState[x].pending /\ slot.ts = x
        BY <2>2, <3>4 DEF At, ReservedKept, PreciousInSlot
      <4>2. x \in ReachableTurnState /\ x # NoTurnState
        BY <4>1, Actors DEF ReachableTurnState
      <4> QED
        BY <4>1, <4>2 DEF Held
    <3>5. CASE k = "recorded"
      <4>1. <<i, x>> \in recorded
        BY <2>2, <3>5 DEF At
      <4> QED
        BY <4>1 DEF ItemsIn
    <3> QED
      BY <2>2, <3>1, <3>2, <3>3, <3>4, <3>5 DEF At
  <2>3. Here(i)
    BY <2>1 DEF ReservedKept, KeptHere
  <2> QED
    BY <2>2, <2>3 DEF Here
<1> HIDE DEF Inv
<1> QED
  BY <1>1, <1>2, <1>3, PTL DEF Spec
=============================================================================
