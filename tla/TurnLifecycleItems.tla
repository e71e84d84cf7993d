-------------------------- MODULE TurnLifecycleItems --------------------------
(***************************************************************************)
(* What a client is told of a review, and what becomes of an item: proofs  *)
(* for any set of turns and requests.  Review mode is left before the      *)
(* review is reported over; an item is recorded once, by the turn that     *)
(* accepted it; and what was accepted is not lost: these two are for       *)
(* sessions in which the loop starts every turn.  Mail that asks for a     *)
(* turn is not left behind, in sessions that do not interrupt it.          *)
(***************************************************************************)
EXTENDS TurnLifecycleSlot

(* Where only a regular task comes, and where a review has left.           *)
RegularPoint == {"prepare", "drain", "record", "sample", "stop", "after"}
LeftPoint    == {"finish:take"} \cup FinishPoint

(* A turn id that was never handed out is nowhere in use.                  *)
UnusedIsUnused ==
    \A t \in Turn : pc[t] = "unused" =>
        /\ Ends(t) = 0
        /\ slot.task # t
        /\ pc[Loop] \in AbortPoint => abort.victim # t

(* A review has left review mode once it is past its work, unless it was   *)
(* cancelled, when the loop leaves it after stopping the task.             *)
MustHaveLeft(t) ==
    \/ pc[t] = "flush" /\ ~task[t].cancelled
    \/ pc[t] \in LeftPoint
    \/ abort.victim = t /\ pc[Loop] = "abort:event"
    \/ Ends(t) > 0

HasLeft(t) == sent[t]["ExitedReviewMode"] > 0

ReviewLeaves ==
    \A t \in Turn : task[t].kind = "Review" =>
        /\ pc[t] \notin RegularPoint
        /\ MustHaveLeft(t) => HasLeft(t)

ReviewInv == UnusedIsUnused /\ ReviewLeaves

(* Steps that send no terminal event and no ExitedReviewMode, and bring no *)
(* review to a point where it has to have left.                            *)
LEMMA ReviewFrame ==
  ASSUME ReviewInv,
         slot'.task \in {slot.task, NoTurn},
         pc'[Loop] \in AbortPoint =>
           pc[Loop] \in AbortPoint /\ abort'.victim = abort.victim,
         pc'[Loop] = "abort:event" => pc[Loop] = "abort:event",
         \A t \in Turn : pc'[t] = "unused" => pc[t] = "unused",
         \A t \in Turn : Ends(t)' = Ends(t) /\ (HasLeft(t) => HasLeft(t)'),
         \A t \in Turn : task'[t].kind = "Review" =>
           /\ task[t].kind = "Review"
           /\ pc'[t] \in RegularPoint => pc[t] \in RegularPoint
           /\ pc'[t] \in LeftPoint => pc[t] \in LeftPoint
           /\ pc'[t] = "flush" /\ ~task'[t].cancelled =>
                pc[t] = "flush" /\ ~task[t].cancelled
  PROVE  ReviewInv'
<1>1. UnusedIsUnused'
  BY Actors DEF ReviewInv, UnusedIsUnused
<1>2. ReviewLeaves'
  <2> SUFFICES ASSUME NEW t \in Turn, task'[t].kind = "Review"
               PROVE  pc'[t] \notin RegularPoint /\ (MustHaveLeft(t)' => HasLeft(t)')
    BY DEF ReviewLeaves
  <2>1. MustHaveLeft(t)' => MustHaveLeft(t)
    BY DEF MustHaveLeft, AbortPoint
  <2> QED
    BY <2>1 DEF ReviewInv, ReviewLeaves
<1> QED
  BY <1>1, <1>2 DEF ReviewInv

(* Steps of one actor that touch neither tasks nor the loop's abort.       *)
LEMMA ReviewActorFrame ==
  ASSUME TypeInv, ReviewInv, NEW a \in Actor, NEW p,
         Goto(a, p), UNCHANGED <<task, abort, sent>>,
         slot'.task \in {slot.task, NoTurn},
         p \notin {"unused", "flush"} \cup AbortPoint \cup LeftPoint \cup RegularPoint
  PROVE  ReviewInv'
<1>1. pc'[a] = p /\ \A b \in Actor \ {a} : pc'[b] = pc[b]
  BY DEF Goto, TypeInv, PcTyped
<1>2. \A t \in Turn : Ends(t)' = Ends(t) /\ HasLeft(t)' = HasLeft(t)
  BY DEF Ends, HasLeft
<1> QED
  BY <1>1, <1>2, ReviewFrame, Actors DEF AbortPoint

(* Requests, and new turns.                                                *)
LEMMA ReviewNewTurn ==
  ASSUME TypeInv, ReviewInv, NEW a \in Actor, NEW t \in Turn, FreshTurn(t), a # t,
         NEW kind \in TaskKind, NEW input, NEW p,
         pc' = [pc EXCEPT ![t] = "queued", ![a] = p],
         task' = [task EXCEPT ![t] = NewTask(kind, input)],
         slot'.task \in {slot.task, NoTurn},
         UNCHANGED sent, pc[Loop] \notin AbortPoint \/ (a # Loop /\ UNCHANGED abort),
         p \notin {"unused", "flush"} \cup AbortPoint \cup LeftPoint \cup RegularPoint
  PROVE  ReviewInv'
<1>0. /\ pc'[t] = "queued" /\ pc[t] = "unused" /\ pc'[a] = p
      /\ \A b \in Actor \ {a, t} : pc'[b] = pc[b]
      /\ \A u \in Turn \ {t} : task'[u] = task[u]
      /\ \A u \in Turn : Ends(u)' = Ends(u) /\ HasLeft(u)' = HasLeft(u)
  BY Actors DEF FreshTurn, TypeInv, PcTyped, TaskTyped, Ends, HasLeft
<1>1. pc'[Loop] \in AbortPoint =>
        pc[Loop] \in AbortPoint /\ abort'.victim = abort.victim /\ pc'[Loop] = pc[Loop]
  BY <1>0, Actors
<1>2. UnusedIsUnused'
  BY <1>0, <1>1, Actors DEF ReviewInv, UnusedIsUnused
<1>3. ReviewLeaves'
  <2> SUFFICES ASSUME NEW u \in Turn, task'[u].kind = "Review"
               PROVE  pc'[u] \notin RegularPoint /\ (MustHaveLeft(u)' => HasLeft(u)')
    BY DEF ReviewLeaves
  <2>1. CASE u = t
    <3>1. ~MustHaveLeft(t)'
      BY <1>0, <1>1, Actors
      DEF MustHaveLeft, ReviewInv, UnusedIsUnused, LeftPoint, FinishPoint, AbortPoint
    <3> QED
      BY <1>0, <2>1, <3>1 DEF RegularPoint
  <2>2. CASE u # t
    <3>1. /\ task'[u] = task[u]
          /\ pc'[u] \in LeftPoint \cup RegularPoint \cup {"flush"} => pc'[u] = pc[u]
      BY <1>0, <2>2, Actors
    <3>2. MustHaveLeft(u)' => MustHaveLeft(u)
      BY <1>0, <1>1, <3>1 DEF MustHaveLeft, AbortPoint
    <3> QED
      BY <1>0, <3>1, <3>2 DEF ReviewInv, ReviewLeaves
  <2> QED
    BY <2>1, <2>2
<1> QED
  BY <1>2, <1>3 DEF ReviewInv

LEMMA ReviewStays ==
  ASSUME ReviewInv, UNCHANGED <<pc, task, abort, sent>>,
         slot'.task \in {slot.task, NoTurn}
  PROVE  ReviewInv'
BY ReviewFrame DEF Ends, HasLeft

LEMMA ReviewRequests ==
  ASSUME TypeInv, ReviewInv, NEW o \in todo, Request(o)
  PROVE  ReviewInv'
<1>1. CASE Steer(o) \/ CancelSteer(o) \/ Inject(o) \/ LoopStage(o) \/ LoopRelease(o)
  BY <1>1, ReviewStays DEF Steer, CancelSteer, Inject, LoopStage, LoopRelease
<1>2. CASE LoopMail(o) \/ LoopStartPendingWork(o)
  <2>1. PICK p \in {"idle", "maybe:check"} : Goto(Loop, p)
    BY <1>2 DEF LoopMail, LoopStartPendingWork
  <2> QED
    BY <1>2, <2>1, ReviewActorFrame, Actors
    DEF LoopMail, LoopStartPendingWork, AbortPoint, LeftPoint, FinishPoint, RegularPoint
<1>3. CASE ExtIdleStart(o)
  BY <1>3, ReviewActorFrame, Actors
  DEF ExtIdleStart, AbortPoint, LeftPoint, FinishPoint, RegularPoint
<1>4. CASE LoopUserInput(o)
  <2>1. CASE UNCHANGED <<pc, call, task>>
    BY <1>4, <2>1, ReviewStays DEF LoopUserInput
  <2>2. ASSUME NEW t \in Turn, NewTurn(Loop, t, "Regular", {o.item}, "route")
        PROVE  ReviewInv'
    BY <1>4, <2>2, ReviewNewTurn, Actors
    DEF LoopUserInput, NewTurn, AbortPoint, LeftPoint, FinishPoint, RegularPoint, TaskKind
  <2> QED
    BY <1>4, <2>1, <2>2 DEF LoopUserInput
<1>5. CASE LoopSpawn(o)
  <2>1. CASE UNCHANGED <<pc, task, call, abort>>
    BY <1>5, <2>1, ReviewStays DEF LoopSpawn
  <2>2. ASSUME NEW t \in Turn, FreshTurn(t), NEW input,
               pc' = [pc EXCEPT ![t] = "queued", ![Loop] = "abort:take"],
               task' = [task EXCEPT ![t] = NewTask(o.op, input)]
        PROVE  ReviewInv'
    BY <1>5, <2>2, ReviewNewTurn, Actors
    DEF LoopSpawn, AbortPoint, LeftPoint, FinishPoint, RegularPoint
  <2> QED
    BY <1>5, <2>1, <2>2 DEF LoopSpawn
<1>6. CASE LoopInterrupt(o)
  <2>1. /\ pc' = [pc EXCEPT ![Loop] = "abort:take"]
        /\ UNCHANGED <<slot, task, sent>>
    BY <1>6 DEF LoopInterrupt, Goto
  <2>2. pc'[Loop] = "abort:take" /\ \A t \in Turn : pc'[t] = pc[t]
    BY <2>1, Actors DEF TypeInv, PcTyped
  <2>3. \A t \in Turn : Ends(t)' = Ends(t) /\ HasLeft(t)' = HasLeft(t)
    BY <2>1 DEF Ends, HasLeft
  <2> QED
    BY <2>1, <2>2, <2>3, ReviewFrame DEF AbortPoint
<1> QED
  BY <1>1, <1>2, <1>3, <1>4, <1>5, <1>6 DEF Request

(* Whoever is in start_task or in one of its callers.                      *)
LEMMA ReviewStarts ==
  ASSUME TypeInv, ReviewInv, NEW a \in Actor, StartStep(a)
  PROVE  ReviewInv'
<1>r. call[a].ret \in {"idle", "exited", "finish:wake", "done"}
  BY CallFields DEF TypeInv, CallTyped
<1> USE DEF AbortPoint, LeftPoint, FinishPoint, RegularPoint
<1>1. CASE MaybeCheck(a)
  <2>1. PICK p \in {"maybe:reserve", "idle", "exited", "finish:wake", "done"} : Goto(a, p)
    BY <1>r, <1>1 DEF MaybeCheck, Return
  <2> QED
    BY <1>1, <2>1, ReviewActorFrame DEF MaybeCheck
<1>2. CASE StartTake(a) \/ StartAttach(a)
  <2>1. PICK p \in {"start:attach", "start:install"} : Goto(a, p)
    BY <1>2 DEF StartTake, StartAttach
  <2>2. slot'.task = slot.task
    BY <1>2, SlotFields DEF StartTake, StartAttach, TypeInv, SlotTyped, SlotType
  <2> QED
    BY <1>2, <2>1, <2>2, ReviewActorFrame DEF StartTake, StartAttach
<1>3. CASE TryExtend(a)
  BY <1>3, ReviewActorFrame DEF TryExtend
<1>4. CASE MaybeReserve(a)
  <2>1. CASE Return(a) /\ UNCHANGED <<slot, call, task>>
    BY <1>r, <1>4, <2>1, ReviewActorFrame DEF MaybeReserve, Return
  <2>2. ASSUME NEW t \in Turn, NewTurn(a, t, "Regular", {}, "start:take"),
               slot' = [NoSlot EXCEPT !.ts = <<t, "reserve">>]
        PROVE  ReviewInv'
    <3>1. a # t /\ (pc[Loop] \notin AbortPoint \/ a # Loop)
      BY <1>4, <2>2 DEF MaybeReserve, NewTurn, FreshTurn
    <3>2. slot'.task = NoTurn
      BY <2>2 DEF NoSlot
    <3> QED
      BY <1>4, <2>2, <3>1, <3>2, ReviewNewTurn DEF MaybeReserve, NewTurn, TaskKind
  <2> QED
    BY <1>4, <2>1, <2>2 DEF MaybeReserve
<1>5. CASE TryCheck(a)
  <2>1. PICK p \in {"try:reserve", "idle", "exited", "finish:wake", "done"} : Goto(a, p)
    BY <1>r, <1>5 DEF TryCheck, Return
  <2> QED
    BY <1>5, <2>1, ReviewActorFrame DEF TryCheck
<1>6. CASE TryReserve(a)
  <2>1. CASE Return(a) /\ UNCHANGED <<slot, task>>
    BY <1>r, <1>6, <2>1, ReviewActorFrame DEF TryReserve, Return
  <2>2. ASSUME NEW t \in Turn, NewTurn(a, t, "Regular", {}, "try:recheck"),
               slot' = [NoSlot EXCEPT !.ts = <<t, "reserve">>]
        PROVE  ReviewInv'
    <3>1. a # t /\ (pc[Loop] \notin AbortPoint \/ a # Loop)
      BY <1>6, <2>2 DEF TryReserve, NewTurn, FreshTurn
    <3>2. slot'.task = NoTurn
      BY <2>2 DEF NoSlot
    <3> QED
      BY <1>6, <2>2, <3>1, <3>2, ReviewNewTurn DEF TryReserve, NewTurn, TaskKind
  <2> QED
    BY <1>6, <2>1, <2>2 DEF TryReserve
<1>7. ASSUME NEW p \in {"maybe:check", "idle", "exited", "finish:wake", "done"},
             GiveUpReservation(a, p), call[a].turn \in Turn, pc[a] \in TryPoint
      PROVE  ReviewInv'
  <2>1. /\ pc'[a] \in {p, "rejected"}
        /\ pc'[call[a].turn] \in {p, "rejected"}
        /\ \A b \in Actor \ {a, call[a].turn} : pc'[b] = pc[b]
    BY <1>7, Actors DEF GiveUpReservation, TypeInv, PcTyped
  <2>2. /\ slot'.task \in {slot.task, NoTurn}
        /\ UNCHANGED <<task, abort, sent>>
    BY <1>7 DEF GiveUpReservation, NoSlot
  <2>3. \A t \in Turn : Ends(t)' = Ends(t) /\ HasLeft(t)' = HasLeft(t)
    BY <2>2 DEF Ends, HasLeft
  <2> QED
    BY <2>1, <2>2, <2>3, ReviewFrame, Actors
<1>8. pc[a] \in TryPoint => call[a].turn \in Turn
  BY DEF TypeInv, StartKnows
<1>9. CASE TryRecheck(a)
  <2>1. CASE GiveUpReservation(a, "maybe:check")
    BY <1>7, <1>8, <1>9, <2>1 DEF TryRecheck, TryPoint
  <2>2. CASE Goto(a, IF pc[a] = "try:recheck" THEN "try:route" ELSE "try:claim")
             /\ UNCHANGED <<slot, task, abort, sent>>
    <3>1. PICK p \in {"try:route", "try:claim"} : Goto(a, p)
      BY <2>2
    <3> QED
      BY <2>2, <3>1, ReviewActorFrame
  <2> QED
    BY <1>9, <2>1, <2>2 DEF TryRecheck
<1>10. CASE TryRoute(a)
  <2>1. CASE GiveUpReservation(a, call[a].ret)
    BY <1>r, <1>7, <1>8, <1>10, <2>1 DEF TryRoute, TryPoint
  <2>2. CASE Goto(a, "try:routed") /\ UNCHANGED <<slot, task, abort, sent>>
    BY <2>2, ReviewActorFrame
  <2> QED
    BY <1>10, <2>1, <2>2 DEF TryRoute
<1>11. CASE TryClaim(a)
  <2>1. CASE GiveUpReservation(a, call[a].ret)
    BY <1>r, <1>7, <1>8, <1>11, <2>1 DEF TryClaim, TryPoint
  <2>2. CASE Goto(a, "try:extend") /\ UNCHANGED <<slot, task, abort, sent>>
    BY <2>2, ReviewActorFrame
  <2> QED
    BY <1>11, <2>1, <2>2 DEF TryClaim
<1>12. CASE StartInstall(a)
  <2> DEFINE t == call[a].turn
  <2>1. t \in Turn /\ UNCHANGED <<task, abort, sent>> /\ slot'.task = t
    BY <1>12 DEF StartInstall, TypeInv, StartKnows, StartPoint
  <2>2. \A b \in Actor : pc'[b] = pc[b] \/ pc'[b] \in
          {"begin", "dropped", "idle", "exited", "finish:wake", "done"}
    BY <1>r, <1>12 DEF StartInstall
  <2>3. pc'[t] # "unused" /\ pc'[Loop] \in AbortPoint => pc[Loop] = pc'[Loop]
    BY <2>2, Actors
  <2>4. pc'[t] # "unused"
    BY <1>r, <1>12, <2>1, Actors DEF StartInstall
  <2>5. \A u \in Turn : Ends(u)' = Ends(u) /\ HasLeft(u)' = HasLeft(u)
    BY <2>1 DEF Ends, HasLeft
  <2> HIDE DEF t
  <2>6. UnusedIsUnused'
    BY <2>1, <2>2, <2>4, <2>5, Actors DEF ReviewInv, UnusedIsUnused
  <2>7. ReviewLeaves'
    <3> SUFFICES ASSUME NEW u \in Turn, task'[u].kind = "Review"
                 PROVE  pc'[u] \notin RegularPoint /\ (MustHaveLeft(u)' => HasLeft(u)')
      BY DEF ReviewLeaves
    <3>1. MustHaveLeft(u)' => MustHaveLeft(u)
      BY <2>1, <2>2, <2>5, Actors DEF MustHaveLeft
    <3> QED
      BY <2>1, <2>2, <2>5, <3>1, Actors DEF ReviewInv, ReviewLeaves
  <2> QED
    BY <2>6, <2>7 DEF ReviewInv
<1> QED
  BY <1>1, <1>2, <1>3, <1>4, <1>5, <1>6, <1>9, <1>10, <1>11, <1>12 DEF StartStep

(* The loop: the review it aborts has left review mode before TurnAborted. *)
LEMMA ReviewAborts ==
  ASSUME TypeInv, ReviewInv,
         LoopRouted \/ AbortTake \/ AbortCancel \/ AbortKill \/ AbortEvent \/ AbortClear
  PROVE  ReviewInv'
<1> USE DEF AbortPoint
<1>r. call[Loop].ret \in {"idle", "exited", "finish:wake", "done"}
  BY CallFields, Actors DEF TypeInv, CallTyped
<1>v. pc[Loop] \in AbortPoint => abort.victim \in Turn
  BY DEF TypeInv, LoopKnows
<1>1. CASE LoopRouted
  <2> DEFINE t == call[Loop].turn
  <2>1. t \in Turn /\ t # Loop /\ pc[Loop] = "route"
    BY <1>1, Actors DEF LoopRouted, TypeInv, LoopKnows
  <2> HIDE DEF t
  <2>2. /\ pc'[Loop] \in {"abort:take", "idle"}
        /\ \A u \in Turn : pc'[u] = pc[u] \/ pc'[u] = "rejected"
    BY <1>1, <2>1, Actors DEF LoopRouted, Goto, TypeInv, PcTyped, t
  <2>3. \A u \in Turn : /\ task'[u].kind = task[u].kind
                        /\ task'[u].cancelled = task[u].cancelled
    BY <1>1, <2>1 DEF LoopRouted, TypeInv, TaskTyped, TaskType, t
  <2>4. UNCHANGED <<slot, sent>>
    BY <1>1 DEF LoopRouted
  <2>5. \A u \in Turn : Ends(u)' = Ends(u) /\ HasLeft(u)' = HasLeft(u)
    BY <2>4 DEF Ends, HasLeft
  <2> QED
    BY <2>2, <2>3, <2>4, <2>5, ReviewFrame DEF RegularPoint, LeftPoint, FinishPoint
<1>2. CASE AbortTake
  <2>1. /\ slot'.task = NoTurn /\ UNCHANGED <<task, sent>>
        /\ abort'.victim = slot.task
        /\ \A u \in Turn : pc'[u] = pc[u]
    BY <1>2, Actors DEF AbortTake, Goto, TypeInv, PcTyped, AbortTyped, AbortType, NoSlot
  <2>2. /\ pc'[Loop] \in {"abort:cancel", "start:take", "idle", "exited", "finish:wake",
                          "done"}
    BY <1>r, <1>2, Actors DEF AbortTake, Goto, TypeInv, PcTyped
  <2>3. \A u \in Turn : Ends(u)' = Ends(u) /\ HasLeft(u)' = HasLeft(u)
    BY <2>1 DEF Ends, HasLeft
  <2>4. UnusedIsUnused'
    BY <2>1, <2>3, Actors DEF ReviewInv, UnusedIsUnused
  <2>5. \A u \in Turn : MustHaveLeft(u)' => MustHaveLeft(u)
    BY <2>1, <2>2, <2>3 DEF MustHaveLeft
  <2> QED
    BY <2>1, <2>3, <2>4, <2>5 DEF ReviewInv, ReviewLeaves
<1>3. CASE AbortCancel
  <2> DEFINE v == abort.victim
  <2>1. v \in Turn /\ UNCHANGED <<slot, abort, sent>>
    BY <1>3, <1>v DEF AbortCancel
  <2> HIDE DEF v
  <2>2. \A u \in Turn : /\ task'[u].kind = task[u].kind
                        /\ task[u].cancelled => task'[u].cancelled
    BY <1>3, <2>1 DEF AbortCancel, TypeInv, TaskTyped, TaskType, v
  <2>3. /\ pc'[Loop] \in {"abort:clear", "abort:kill"} /\ pc[Loop] = "abort:cancel"
        /\ \A u \in Turn : pc'[u] = pc[u] \/ pc'[u] = "dropped"
    BY <1>3, <2>1, Actors DEF AbortCancel, TypeInv, PcTyped, v
  <2>5. \A u \in Turn : Ends(u)' = Ends(u) /\ HasLeft(u)' = HasLeft(u)
    BY <2>1 DEF Ends, HasLeft
  <2>6. \A u \in Turn : task[u].cancelled \in BOOLEAN /\ task'[u].cancelled \in BOOLEAN
    BY TypeStep, <1>3 DEF TypeInv, TaskTyped, TaskType, Next, LoopStep
  <2> QED
    BY <2>1, <2>2, <2>3, <2>5, <2>6, ReviewFrame DEF RegularPoint, LeftPoint, FinishPoint
<1>4. CASE AbortKill
  <2> DEFINE v == abort.victim
  <2>1. v \in Turn /\ UNCHANGED <<slot, abort>> /\ pc[Loop] = "abort:kill"
    BY <1>4, <1>v DEF AbortKill
  <2>2. \A u \in Turn : /\ task'[u].kind = task[u].kind
                        /\ u # v => task'[u] = task[u]
    BY <1>4, <2>1 DEF AbortKill, TypeInv, TaskTyped, TaskType, NewTask
  <2>3. /\ pc'[Loop] = "abort:event"
        /\ pc'[v] \in {"done", "killed"}
        /\ \A u \in Turn \ {v} : pc'[u] = pc[u]
    BY <1>4, <2>1, Actors DEF AbortKill, TypeInv, PcTyped
  <2>4. \A u \in Turn : Ends(u)' = Ends(u) /\ (HasLeft(u) => HasLeft(u)')
    BY <1>4, <2>1 DEF AbortKill, Emit, Ends, HasLeft, TypeInv, SentTyped, EventName
  <2>5. task[v].kind = "Review" => sent'[v]["ExitedReviewMode"] > 0
    BY <1>4, <2>1 DEF AbortKill, Emit, TypeInv, SentTyped, EventName
  <2> HIDE DEF v
  <2>6. abort.victim = v /\ abort'.victim = v
    BY <2>1 DEF v
  <2>7. UnusedIsUnused'
    BY <2>1, <2>3, <2>4, <2>6, Actors DEF ReviewInv, UnusedIsUnused
  <2>8. \A u \in Turn \ {v} : MustHaveLeft(u)' => MustHaveLeft(u)
    BY <2>1, <2>2, <2>3, <2>4, <2>6 DEF MustHaveLeft
  <2>9. ReviewLeaves'
    <3> SUFFICES ASSUME NEW u \in Turn, task'[u].kind = "Review"
                 PROVE  pc'[u] \notin RegularPoint /\ (MustHaveLeft(u)' => HasLeft(u)')
      BY DEF ReviewLeaves
    <3>1. CASE u = v
      <4>1. task[v].kind = "Review"
        BY <2>2, <3>1
      <4>2. HasLeft(u)'
        BY <2>5, <3>1, <4>1 DEF HasLeft
      <4> QED
        BY <2>3, <3>1, <4>2 DEF RegularPoint
    <3>2. CASE u # v
      BY <2>2, <2>3, <2>4, <2>8, <3>2 DEF ReviewInv, ReviewLeaves
    <3> QED
      BY <3>1, <3>2
  <2> QED
    BY <2>7, <2>9 DEF ReviewInv
<1>5. CASE AbortEvent
  <2> DEFINE v == abort.victim
  <2>1. /\ v \in Turn /\ UNCHANGED <<slot, abort, task>> /\ pc[Loop] = "abort:event"
        /\ pc'[Loop] = "abort:clear" /\ \A u \in Turn : pc'[u] = pc[u]
    BY <1>5, <1>v, Actors DEF AbortEvent, Goto, TypeInv, PcTyped
  <2>2. \A u \in Turn : HasLeft(u)' = HasLeft(u) /\ (u # v => Ends(u)' = Ends(u))
    BY <1>5, <2>1 DEF AbortEvent, Emit, Ends, HasLeft, TypeInv, SentTyped, EventName
  <2>3. MustHaveLeft(v)
    BY <2>1 DEF MustHaveLeft
  <2>4. pc[v] # "unused"
    BY <2>1 DEF ReviewInv, UnusedIsUnused
  <2> HIDE DEF v
  <2>5. UnusedIsUnused'
    BY <2>1, <2>2, <2>4 DEF ReviewInv, UnusedIsUnused
  <2>6. \A u \in Turn : MustHaveLeft(u)' => MustHaveLeft(u)
    BY <2>1, <2>2, <2>3 DEF MustHaveLeft
  <2> QED
    BY <2>1, <2>2, <2>5, <2>6 DEF ReviewInv, ReviewLeaves
<1>6. CASE AbortClear
  <2>1. PICK p \in {"start:take", "maybe:check"} : Goto(Loop, p)
    BY <1>6 DEF AbortClear
  <2>2. /\ pc'[Loop] = p /\ UNCHANGED <<slot, task, sent>>
        /\ \A u \in Turn : pc'[u] = pc[u]
    BY <1>6, <2>1, Actors DEF AbortClear, Goto, TypeInv, PcTyped
  <2>3. \A u \in Turn : Ends(u)' = Ends(u) /\ HasLeft(u)' = HasLeft(u)
    BY <2>2 DEF Ends, HasLeft
  <2> QED
    BY <2>2, <2>3, ReviewFrame
<1> QED
  BY <1>1, <1>2, <1>3, <1>4, <1>5, <1>6

(* Steps of the spawned task, and of its end.                              *)
LEMMA ReviewRuns ==
  ASSUME TypeInv, ReviewInv, NEW t \in Turn, NEW p, Goto(t, p),
         UNCHANGED <<slot, abort>>,
         \A u \in Turn : /\ task'[u].kind = task[u].kind
                         /\ u # t => task'[u].cancelled = task[u].cancelled
                         /\ u # t => sent'[u] = sent[u],
         p # "unused", pc[t] # "unused",
         task[t].kind = "Review" =>
           /\ p \notin RegularPoint
           /\ p \in LeftPoint \/ (p = "flush" /\ ~task'[t].cancelled) => HasLeft(t)',
         HasLeft(t) => HasLeft(t)',
         Ends(t)' = Ends(t) \/ (task[t].kind = "Review" => HasLeft(t)')
  PROVE  ReviewInv'
<1>1. /\ pc'[t] = p /\ pc'[Loop] = pc[Loop]
      /\ \A u \in Turn \ {t} : pc'[u] = pc[u]
  BY Actors DEF Goto, TypeInv, PcTyped
<1>2. \A u \in Turn \ {t} : Ends(u)' = Ends(u) /\ HasLeft(u)' = HasLeft(u)
  BY DEF Ends, HasLeft
<1>3. UnusedIsUnused'
  BY <1>1, <1>2 DEF ReviewInv, UnusedIsUnused
<1>4. ReviewLeaves'
  <2> SUFFICES ASSUME NEW u \in Turn, task'[u].kind = "Review"
               PROVE  pc'[u] \notin RegularPoint /\ (MustHaveLeft(u)' => HasLeft(u)')
    BY DEF ReviewLeaves
  <2>1. CASE u = t
    <3>1. MustHaveLeft(t)' => HasLeft(t)' \/ MustHaveLeft(t)
      BY <1>1, <2>1 DEF MustHaveLeft
    <3> QED
      BY <1>1, <2>1, <3>1 DEF ReviewInv, ReviewLeaves
  <2>2. CASE u # t
    <3>1. MustHaveLeft(u)' => MustHaveLeft(u)
      BY <1>1, <1>2, <2>2 DEF MustHaveLeft
    <3> QED
      BY <1>1, <1>2, <2>2, <3>1 DEF ReviewInv, ReviewLeaves
  <2> QED
    BY <2>1, <2>2
<1> QED
  BY <1>3, <1>4 DEF ReviewInv

(* A task that sends nothing.                                              *)
LEMMA ReviewRunsSilently ==
  ASSUME TypeInv, ReviewInv, NEW t \in Turn, NEW p, Goto(t, p),
         UNCHANGED <<slot, abort, sent>>,
         \A u \in Turn : task'[u].kind = task[u].kind
                         /\ (u # t => task'[u].cancelled = task[u].cancelled),
         p # "unused", pc[t] # "unused",
         task[t].kind = "Review" => p \notin RegularPoint \cup {"flush"},
         p \in LeftPoint /\ task[t].kind = "Review" => MustHaveLeft(t)
  PROVE  ReviewInv'
<1>1. \A u \in Turn : Ends(u)' = Ends(u) /\ HasLeft(u)' = HasLeft(u)
  BY DEF Ends, HasLeft
<1> QED
  BY <1>1, ReviewRuns DEF ReviewInv, ReviewLeaves

LEMMA ReviewTaskRuns ==
  ASSUME TypeInv, ReviewInv, NEW t \in Turn, RunStep(t)
  PROVE  ReviewInv'
<1> USE DEF RegularPoint, LeftPoint, FinishPoint
<1>0. pc[t] \in RegularPoint => task[t].kind # "Review"
  BY DEF ReviewInv, ReviewLeaves
<1>1. CASE TaskBegin(t)
  <2>1. \A u \in Turn : /\ Ends(u)' = Ends(u) /\ HasLeft(u)' = HasLeft(u)
                        /\ u # t => sent'[u] = sent[u]
    BY <1>1 DEF TaskBegin, Emit, Ends, HasLeft, TypeInv, SentTyped, EventName
  <2>2. PICK p \in {"prepare", "work"} :
          Goto(t, p) /\ (task[t].kind = "Review" => p = "work")
    BY <1>1 DEF TaskBegin
  <2>3. UNCHANGED <<slot, abort, task>> /\ pc[t] = "begin"
    BY <1>1 DEF TaskBegin
  <2> QED
    BY <2>1, <2>2, <2>3, ReviewRuns
<1>2. CASE TaskWork(t)
  <2>1. /\ Goto(t, "flush") /\ UNCHANGED <<slot, abort>> /\ pc[t] = "work"
        /\ \A u \in Turn : /\ task'[u].kind = task[u].kind
                           /\ task'[u].cancelled = task[u].cancelled
    BY <1>2 DEF TaskWork, TypeInv, TaskTyped, TaskType
  <2>2. \A u \in Turn : /\ Ends(u)' = Ends(u) /\ (HasLeft(u) => HasLeft(u)')
                        /\ u # t => sent'[u] = sent[u]
    BY <1>2 DEF TaskWork, Emit, Ends, HasLeft, TypeInv, SentTyped, EventName
  <2>3. task[t].kind = "Review" /\ ~task[t].cancelled => HasLeft(t)'
    BY <1>2 DEF TaskWork, Emit, HasLeft, TypeInv, SentTyped, EventName
  <2> QED
    BY <2>1, <2>2, <2>3, ReviewRuns
<1>3. CASE TaskCheckCancelled(t)
  <2>1. PICK p \in {"done", "finish:take"} :
          Goto(t, p) /\ (p = "finish:take" => ~task[t].cancelled)
    BY <1>3 DEF TaskCheckCancelled
  <2>2. pc[t] = "flush" /\ UNCHANGED <<slot, abort, task, sent>>
    BY <1>3 DEF TaskCheckCancelled
  <2> QED
    BY <2>1, <2>2, ReviewRunsSilently DEF MustHaveLeft
<1>4. ASSUME NEW p, Goto(t, p), p # "unused", p \notin LeftPoint, pc[t] \in RegularPoint,
             UNCHANGED <<slot, abort, sent>>,
             \A u \in Turn : /\ task'[u].kind = task[u].kind
                             /\ task'[u].cancelled = task[u].cancelled
      PROVE  ReviewInv'
  BY <1>0, <1>4, ReviewRunsSilently
<1>5. CASE TaskPrepare(t) \/ TaskPrepareFailed(t) \/ TaskDrain(t) \/ TaskRecord(t)
  <2>1. \A u \in Turn : /\ task'[u].kind = task[u].kind
                        /\ task'[u].cancelled = task[u].cancelled
    BY <1>5 DEF TaskPrepare, TaskPrepareFailed, TaskDrain, TaskRecord, TypeInv, TaskTyped,
                TaskType
  <2>2. PICK p \in {"after", "drain", "flush", "record", "sample"} : Goto(t, p)
    BY <1>5 DEF TaskPrepare, TaskPrepareFailed, TaskDrain, TaskRecord, RecordInputs
  <2> QED
    BY <1>4, <1>5, <2>1, <2>2
    DEF TaskPrepare, TaskPrepareFailed, TaskDrain, TaskRecord
<1>6. CASE TaskStream(t)
  BY <1>6, ReviewStays DEF TaskStream
<1>7. CASE TaskFollowUp(t) \/ TaskAnswered(t) \/ TaskSampleFailed(t)
  <2>1. \A u \in Turn : /\ task'[u].kind = task[u].kind
                        /\ task'[u].cancelled = task[u].cancelled
    BY <1>7 DEF TaskFollowUp, TaskAnswered, TaskSampleFailed, TypeInv, TaskTyped, TaskType
  <2>2. PICK p \in {"drain", "stop", "after", "flush"} : Goto(t, p)
    BY <1>7 DEF TaskFollowUp, TaskAnswered, TaskSampleFailed
  <2> QED
    BY <1>4, <1>7, <2>1, <2>2 DEF TaskFollowUp, TaskAnswered, TaskSampleFailed
<1>8. CASE TaskStop(t) \/ TaskStopBlocked(t) \/ TaskAfterTurn(t)
  <2>1. PICK p \in {"after", "drain", "prepare", "flush"} : Goto(t, p)
    BY <1>8 DEF TaskStop, TaskStopBlocked, TaskAfterTurn
  <2> QED
    BY <1>4, <1>8, <2>1 DEF TaskStop, TaskStopBlocked, TaskAfterTurn
<1> QED
  BY <1>1, <1>2, <1>3, <1>5, <1>6, <1>7, <1>8 DEF RunStep

LEMMA ReviewFinishes ==
  ASSUME TypeInv, ReviewInv, NEW t \in Turn, FinishStep(t)
  PROVE  ReviewInv'
<1> USE DEF RegularPoint, LeftPoint, FinishPoint
<1>1. CASE FinishTake(t) \/ FinishClear(t)
  <2>1. \A u \in Turn : /\ task'[u].kind = task[u].kind
                        /\ u # t => task'[u].cancelled = task[u].cancelled
    BY <1>1 DEF FinishTake, FinishClear, TypeInv, TaskTyped, TaskType, NewTask
  <2>2. PICK p \in {"done", "finish:record", "finish:idle"} :
          Goto(t, p) /\ (p = "finish:record" => pc[t] = "finish:take")
    BY <1>1 DEF FinishTake, FinishClear
  <2>3. slot'.task \in {slot.task, NoTurn} /\ UNCHANGED <<abort, sent>>
        /\ pc[t] \in {"finish:take", "finish:clear"}
    BY <1>1 DEF FinishTake, FinishClear, NoSlot, TypeInv, SlotTyped, SlotType
  <2>4. /\ pc'[t] = p /\ pc'[Loop] = pc[Loop]
        /\ \A u \in Turn \ {t} : pc'[u] = pc[u]
    BY <2>2, Actors DEF Goto, TypeInv, PcTyped
  <2>5. \A u \in Turn : Ends(u)' = Ends(u) /\ HasLeft(u)' = HasLeft(u)
    BY <2>3 DEF Ends, HasLeft
  <2> QED
    BY <2>1, <2>2, <2>3, <2>4, <2>5, ReviewFrame
<1>2. CASE FinishRecord(t)
  BY <1>2, ReviewRunsSilently DEF FinishRecord, MustHaveLeft
<1>3. CASE FinishEvent(t)
  <2>1. \A u \in Turn : HasLeft(u)' = HasLeft(u) /\ (u # t => sent'[u] = sent[u])
    BY <1>3 DEF FinishEvent, Emit, HasLeft, TypeInv, SentTyped, EventName
  <2>2. task[t].kind = "Review" => HasLeft(t)
    BY <1>3 DEF FinishEvent, ReviewInv, ReviewLeaves, MustHaveLeft
  <2>3. Goto(t, "finish:clear") /\ UNCHANGED <<slot, abort, task>> /\ pc[t] = "finish:event"
    BY <1>3 DEF FinishEvent
  <2> QED
    BY <2>1, <2>2, <2>3, ReviewRuns
<1>4. CASE FinishIdle(t) \/ FinishWake(t)
  <2>1. PICK p \in {"try:check", "finish:wake", "maybe:check"} : Goto(t, p)
    BY <1>4 DEF FinishIdle, FinishWake
  <2> QED
    BY <1>4, <2>1, ReviewActorFrame, Actors DEF FinishIdle, FinishWake, AbortPoint
<1> QED
  BY <1>1, <1>2, <1>3, <1>4 DEF FinishStep

LEMMA ReviewStep ==
  ASSUME TypeInv, ReviewInv, [Next]_vars
  PROVE  ReviewInv'
<1>1. CASE UNCHANGED vars
  BY <1>1, ReviewStays DEF vars
<1>2. CASE LoopStep
  BY <1>2, ReviewAborts, ReviewStarts, Actors DEF LoopStep
<1>3. ASSUME NEW t \in Turn, TaskStep(t) PROVE ReviewInv'
  BY <1>3, ReviewTaskRuns, ReviewFinishes, ReviewStarts, Actors DEF TaskStep
<1> QED
  BY <1>1, <1>2, <1>3, ReviewRequests, ReviewStarts, Actors DEF Next

LEMMA ReviewInit == Init => ReviewInv
<1> SUFFICES ASSUME Init PROVE ReviewInv
  OBVIOUS
<1>1. sent = [t \in Turn |-> [e \in EventName |-> 0]]
  BY DEF Init
<1>2. \A t \in Turn : Ends(t) = 0
  <2> SUFFICES ASSUME NEW t \in Turn PROVE Ends(t) = 0
    OBVIOUS
  <2>1. sent[t]["TurnComplete"] = 0 /\ sent[t]["TurnAborted"] = 0
    BY <1>1 DEF EventName
  <2> QED
    BY <2>1 DEF Ends
<1>3. pc[Loop] = "idle" /\ slot.task = NoTurn /\ abort.victim = NoTurn
  BY Actors DEF Init, NoSlot
<1>4. \A t \in Turn : pc[t] = "unused"
  BY Actors DEF Init
<1>5. \A t \in Turn : ~MustHaveLeft(t)
  <2> SUFFICES ASSUME NEW t \in Turn PROVE ~MustHaveLeft(t)
    OBVIOUS
  <2>1. pc[t] = "unused" /\ Ends(t) = 0
    BY <1>2, <1>4
  <2> QED
    BY <1>3, <2>1 DEF MustHaveLeft, LeftPoint, FinishPoint
<1> QED
  BY <1>2, <1>3, <1>4, <1>5, Actors
  DEF ReviewInv, UnusedIsUnused, ReviewLeaves, RegularPoint, AbortPoint

(* ExitedReviewMode is sent before the turn of the review is reported      *)
(* over, by ReviewTask::run or ReviewTask::abort, in every session.        *)
THEOREM ReviewsAreLeft == Spec => []ReviewModeLeft
<1>1. TypeInv /\ ReviewInv /\ [Next]_vars => (TypeInv /\ ReviewInv)'
  BY TypeStep, ReviewStep
<1>2. Init => TypeInv /\ ReviewInv
  BY TypeInit, ReviewInit
<1>3. ReviewInv => ReviewModeLeft
  BY DEF ReviewInv, ReviewLeaves, MustHaveLeft, HasLeft, ReviewModeLeft
<1> QED
  BY <1>1, <1>2, <1>3, PTL DEF Spec

-----------------------------------------------------------------------------
(* Where an item is                                                        *)

(* The requests that bring an item, as opposed to naming one that another  *)
(* request brings; and sessions in which every item is brought once.       *)
Carrier == {"UserInput", "Steer", "Review", "Shell", "InjectIfRunning", "InjectOrRecord",
            "QueueMail", "TriggerMail", "StageMail", "IdleStart"}

ItemsBroughtOnce ==
    \A W \in Workloads : \A o, p \in W :
        o.op \in Carrier /\ p.op \in Carrier /\ o.item = p.item => o = p

(* The places of an item: a kind of place, and which place of that kind.   *)
At(i, k, x) ==
    \/ k = "todo" /\ x \in todo /\ x.op \in Carrier /\ x.item = i
    \/ k = "mailbox" /\ x = NoTurn /\ i \in mailbox
    \/ k = "staged" /\ x = NoTurn /\ i \in staged
    \/ k = "call" /\ x \in Actor /\ i \in call[x].items
    \/ k = "task" /\ x \in Turn /\ i \in task[x].items
    \/ k = "state" /\ x \in TurnStateId /\ i \in turnState[x].pending
    \/ k = "recorded" /\ <<i, x>> \in recorded

OnePlace == \A i, k, x, l, y : At(i, k, x) /\ At(i, l, y) => k = l /\ x = y

(* Items only go, or go to place X of kind K from a place they leave.      *)
LEMMA ItemsMove ==
  ASSUME OnePlace, NEW K, NEW X,
         todo' \subseteq todo \/ (K = "todo" /\ todo' \subseteq todo \cup {X}),
         K = "mailbox" \/ mailbox' \subseteq mailbox,
         K = "staged" \/ staged' \subseteq staged,
         \A a \in Actor : (K = "call" /\ X = a) \/ call'[a].items \subseteq call[a].items,
         \A t \in Turn : (K = "task" /\ X = t) \/ task'[t].items \subseteq task[t].items,
         \A ts \in TurnStateId : \/ K = "state" /\ X = ts
                                 \/ turnState'[ts].pending \subseteq turnState[ts].pending,
         \A i, t : <<i, t>> \in recorded' => \/ K = "recorded" /\ X = t
                                             \/ <<i, t>> \in recorded,
         K \in {"mailbox", "staged"} => X = NoTurn,
         \A i : At(i, K, X)' => \/ At(i, K, X)
                                \/ \E k, x : At(i, k, x) /\ ~At(i, k, x)'
  PROVE  OnePlace'
<1>1. ASSUME NEW i, NEW k, NEW x, At(i, k, x)' PROVE At(i, k, x) \/ (k = K /\ x = X)
  BY <1>1 DEF At
<1> SUFFICES ASSUME NEW i, NEW k, NEW x, NEW l, NEW y, At(i, k, x)', At(i, l, y)'
             PROVE  k = l /\ x = y
  BY DEF OnePlace
<1>2. CASE At(i, k, x) /\ At(i, l, y)
  BY <1>2 DEF OnePlace
<1>3. ASSUME NEW m, NEW z, At(i, m, z)', At(i, K, X)' PROVE m = K /\ z = X
  <2>1. CASE At(i, K, X)
    BY <1>1, <1>3, <2>1 DEF OnePlace
  <2>2. CASE ~At(i, K, X)
    <3>1. PICK n, w : At(i, n, w) /\ ~At(i, n, w)'
      BY <1>3, <2>2
    <3>2. CASE At(i, m, z)
      <4>1. n = m /\ w = z
        BY <3>1, <3>2 DEF OnePlace
      <4> QED
        BY <1>3, <3>1, <4>1 DEF At
    <3> QED
      BY <1>1, <1>3, <3>2
  <2> QED
    BY <2>1, <2>2
<1>4. CASE k = K /\ x = X
  BY <1>3, <1>4 DEF At
<1>5. CASE l = K /\ y = X
  BY <1>3, <1>5 DEF At
<1> QED
  BY <1>1, <1>2, <1>4, <1>5

(* Nothing arrives anywhere.                                               *)
LEMMA ItemsStay ==
  ASSUME OnePlace, todo' \subseteq todo, mailbox' \subseteq mailbox,
         staged' \subseteq staged, recorded' \subseteq recorded,
         \A a \in Actor : call'[a].items \subseteq call[a].items,
         \A t \in Turn : task'[t].items \subseteq task[t].items,
         \A ts \in TurnStateId : turnState'[ts].pending \subseteq turnState[ts].pending
  PROVE  OnePlace'
<1>1. \A i, k, x : At(i, k, x)' => At(i, k, x)
  BY DEF At
<1> QED
  BY <1>1 DEF OnePlace

(* A request gives its item to the TurnState in the slot.                  *)
LEMMA RequestAdds ==
  ASSUME TypeInv, OnePlace, NEW o \in todo, NEW turn, Take(o), o.op \in Carrier,
         slot # NoSlot, AddToSlot(o.item, turn), UNCHANGED <<call, task, recorded>>
  PROVE  OnePlace'
<1>1. slot.ts \in TurnStateId
  BY DEF TypeInv, SlotTyped
<1> DEFINE ts == slot.ts
<1>2. /\ ts \in TurnStateId
      /\ turnState'[ts].pending = turnState[ts].pending \cup {o.item}
      /\ \A x \in TurnStateId \ {ts} : turnState'[x] = turnState[x]
      /\ UNCHANGED <<mailbox, staged>> /\ todo' = todo \ {o}
  BY <1>1 DEF AddToSlot, Take, TypeInv, QueuesTyped, QueueType
<1> HIDE DEF ts
<1>3. PICK X : X = ts
  OBVIOUS
<1>4. \A i : At(i, "state", X)' => \/ At(i, "state", X)
                                   \/ \E k, x : At(i, k, x) /\ ~At(i, k, x)'
  <2>1. At(o.item, "todo", o) /\ ~At(o.item, "todo", o)'
    BY <1>2 DEF At
  <2> QED
    BY <1>2, <1>3, <2>1 DEF At
<1> QED
  BY <1>2, <1>3, <1>4, ItemsMove

(* A request becomes the input of a new turn.                              *)
LEMMA RequestStarts ==
  ASSUME TypeInv, OnePlace, NEW o \in todo, NEW t \in Turn, NEW kind \in TaskKind,
         Take(o), o.op \in Carrier, task' = [task EXCEPT ![t] = NewTask(kind, {o.item})],
         \A a \in Actor : call'[a].items = call[a].items,
         UNCHANGED <<queueVars, recorded>>
  PROVE  OnePlace'
<1>1. /\ task'[t].items = {o.item}
      /\ \A u \in Turn \ {t} : task'[u] = task[u]
      /\ todo' = todo \ {o} /\ UNCHANGED <<turnState, mailbox, staged>>
  BY DEF Take, NewTask, TypeInv, TaskTyped, queueVars
<1>2. \A i : At(i, "task", t)' => \E k, x : At(i, k, x) /\ ~At(i, k, x)'
  <2>1. At(o.item, "todo", o) /\ ~At(o.item, "todo", o)'
    BY <1>1 DEF At
  <2> QED
    BY <1>1, <2>1 DEF At
<1> QED
  BY <1>1, <1>2, ItemsMove

LEMMA RequestItems ==
  ASSUME TypeInv, OnePlace, NEW o \in todo, Request(o)
  PROVE  OnePlace'
<1> USE DEF Carrier
<1>t. TypeInv'
  BY TypeStep DEF Next
<1>i. o.item \in Item /\ o.op \in OpName
  BY DEF TypeInv, TodoTyped
<1>1. CASE Steer(o)
  <2>1. CASE Steerable /\ AddToSlot(o.item, slot.task)
    <3>1. slot # NoSlot
      BY <2>1 DEF Steerable, SteerTarget, NoSlot
    <3> QED
      BY <1>1, <2>1, <3>1, RequestAdds DEF Steer
  <2>2. CASE UNCHANGED <<queueVars, accepted>>
    BY <1>1, <2>2, ItemsStay DEF Steer, Take, queueVars
  <2> QED
    BY <1>1, <2>1, <2>2 DEF Steer
<1>2. CASE CancelSteer(o)
  <2>1. \A ts \in TurnStateId : turnState'[ts].pending \subseteq turnState[ts].pending
    BY <1>2 DEF CancelSteer, TypeInv, QueuesTyped, QueueType
  <2> QED
    BY <1>2, <2>1, ItemsStay DEF CancelSteer, Take
<1>3. CASE Inject(o)
  <2>1. CASE slot # NoSlot /\ AddToSlot(o.item, NoTurn) /\ UNCHANGED recorded
    BY <1>3, <2>1, RequestAdds DEF Inject
  <2>2. CASE UNCHANGED <<queueVars, recorded>>
    BY <1>3, <2>2, ItemsStay DEF Inject, Take, queueVars
  <2>3. CASE recorded' = recorded \cup {<<o.item, NoTurn>>} /\ UNCHANGED queueVars
    <3>1. todo' = todo \ {o} /\ UNCHANGED <<turnState, mailbox, staged, call, task>>
      BY <1>3, <2>3 DEF Inject, Take, queueVars
    <3>2. At(o.item, "todo", o) /\ ~At(o.item, "todo", o)'
      BY <1>3, <3>1 DEF At, Inject
    <3>3. \A i : At(i, "recorded", NoTurn)' => \/ At(i, "recorded", NoTurn)
                                               \/ \E k, x : At(i, k, x) /\ ~At(i, k, x)'
      BY <2>3, <3>2 DEF At
    <3>4. \A i, t : <<i, t>> \in recorded' => NoTurn = t \/ <<i, t>> \in recorded
      BY <2>3
    <3> QED
      BY <3>1, <3>3, <3>4, ItemsMove
  <2> QED
    BY <1>3, <2>1, <2>2, <2>3 DEF Inject
<1>4. CASE LoopUserInput(o)
  <2>1. CASE Steerable /\ AddToSlot(o.item, slot.task) /\ UNCHANGED <<pc, call, task>>
    <3>1. slot # NoSlot
      BY <2>1 DEF Steerable, SteerTarget, NoSlot
    <3> QED
      BY <1>4, <2>1, <3>1, RequestAdds DEF LoopUserInput
  <2>2. CASE UNCHANGED <<queueVars, accepted, pc, call, task>>
    BY <1>4, <2>2, ItemsStay DEF LoopUserInput, Take, queueVars
  <2>3. ASSUME NEW t \in Turn, NewTurn(Loop, t, "Regular", {o.item}, "route"),
               UNCHANGED <<queueVars, accepted>>
        PROVE  OnePlace'
    <3>1. \A a \in Actor : call'[a].items = call[a].items
      BY <2>3 DEF NewTurn, TypeInv, CallTyped, CallType
    <3> QED
      BY <1>4, <2>3, <3>1, RequestStarts DEF LoopUserInput, NewTurn, TaskKind
  <2> QED
    BY <1>4, <2>1, <2>2, <2>3 DEF LoopUserInput
<1>5. CASE LoopSpawn(o)
  <2>1. ASSUME NEW t \in Turn, Take(o),
               task' = [task EXCEPT ![t] =
                          NewTask(o.op, IF o.op = "Review" THEN {o.item} ELSE {})],
               call' = [call EXCEPT ![Loop].turn = t, ![Loop].ret = "idle"]
        PROVE  OnePlace'
    <3>1. \A a \in Actor : call'[a].items = call[a].items
      BY <2>1, Actors DEF TypeInv, CallTyped, CallType
    <3>2. CASE o.op = "Review"
      <4>1. task' = [task EXCEPT ![t] = NewTask("Review", {o.item})]
        BY <2>1, <3>2
      <4> QED
        BY <1>5, <2>1, <3>1, <3>2, <4>1, RequestStarts DEF LoopSpawn, TaskKind, itemVars
    <3>3. CASE o.op # "Review"
      <4>1. \A u \in Turn : task'[u].items \subseteq task[u].items
        BY <2>1, <3>3 DEF NewTask, TypeInv, TaskTyped
      <4> QED
        BY <1>5, <2>1, <3>1, <4>1, ItemsStay DEF LoopSpawn, Take, queueVars, itemVars
    <3> QED
      BY <3>2, <3>3
  <2>2. CASE /\ o.op = "Shell" /\ UNCHANGED <<task, call>>
             /\ todo' = (todo \ {o}) \cup {[op |-> "InjectOrRecord", item |-> o.item]}
    <3> DEFINE X == [op |-> "InjectOrRecord", item |-> o.item]
    <3>1. X.op = "InjectOrRecord" /\ X.item = o.item
      OBVIOUS
    <3>2. todo' = (todo \ {o}) \cup {X} /\ o # X
      BY <2>2, <3>1
    <3> HIDE DEF X
    <3>3. At(o.item, "todo", o) /\ ~At(o.item, "todo", o)'
      BY <2>2, <3>2 DEF At
    <3>4. \A i : At(i, "todo", X)' => \E k, x : At(i, k, x) /\ ~At(i, k, x)'
      BY <3>1, <3>3 DEF At
    <3>5. UNCHANGED <<turnState, mailbox, staged, call, task, recorded>>
      BY <1>5, <2>2 DEF LoopSpawn, queueVars, itemVars
    <3> QED
      BY <3>2, <3>4, <3>5, ItemsMove
  <2> QED
    BY <1>5, <2>1, <2>2 DEF LoopSpawn
<1>6. CASE LoopMail(o)
  <2>1. /\ todo' = todo \ {o} /\ mailbox' = mailbox \cup {o.item}
        /\ UNCHANGED <<turnState, staged, task, recorded>>
        /\ \A a \in Actor : call'[a].items = call[a].items
    BY <1>6 DEF LoopMail, Take, TypeInv, CallTyped, CallType
  <2>2. At(o.item, "todo", o) /\ ~At(o.item, "todo", o)'
    BY <1>6, <2>1 DEF At, LoopMail
  <2>3. \A i : At(i, "mailbox", NoTurn)' => \/ At(i, "mailbox", NoTurn)
                                            \/ \E k, x : At(i, k, x) /\ ~At(i, k, x)'
    BY <2>1, <2>2 DEF At
  <2> QED
    BY <2>1, <2>3, ItemsMove
<1>7. CASE LoopStage(o)
  <2>1. /\ todo' = todo \ {o} /\ staged' = staged \cup {o.item}
        /\ UNCHANGED <<turnState, mailbox, task, call, recorded>>
    BY <1>7 DEF LoopStage, Take
  <2>2. At(o.item, "todo", o) /\ ~At(o.item, "todo", o)'
    BY <1>7, <2>1 DEF At, LoopStage
  <2>3. \A i : At(i, "staged", NoTurn)' => \/ At(i, "staged", NoTurn)
                                           \/ \E k, x : At(i, k, x) /\ ~At(i, k, x)'
    BY <2>1, <2>2 DEF At
  <2> QED
    BY <2>1, <2>3, ItemsMove
<1>8. CASE LoopRelease(o)
  <2>1. /\ todo' \subseteq todo
        /\ mailbox' = mailbox \cup (staged \cap {o.item}) /\ staged' = staged \ {o.item}
        /\ UNCHANGED <<turnState, task, call, recorded>>
    BY <1>8 DEF LoopRelease, Take, itemVars
  <2>2. \A i : At(i, "mailbox", NoTurn)' =>
          \/ At(i, "mailbox", NoTurn)
          \/ At(i, "staged", NoTurn) /\ ~At(i, "staged", NoTurn)'
    BY <2>1 DEF At
  <2> QED
    BY <2>1, <2>2, ItemsMove
<1>9. CASE LoopStartPendingWork(o) \/ LoopInterrupt(o)
  <2>1. \A a \in Actor : call'[a].items = call[a].items
    BY <1>9 DEF LoopStartPendingWork, LoopInterrupt, TypeInv, CallTyped, CallType
  <2> QED
    BY <1>9, <2>1, ItemsStay
    DEF LoopStartPendingWork, LoopInterrupt, Take, queueVars, itemVars
<1>10. CASE ExtIdleStart(o)
  <2>1. /\ todo' = todo \ {o} /\ Ext \in Actor
        /\ call'[Ext].items = {o.item}
        /\ \A a \in Actor \ {Ext} : call'[a] = call[a]
        /\ UNCHANGED <<turnState, mailbox, staged, task, recorded>>
    BY <1>10, Actors
    DEF ExtIdleStart, Take, TypeInv, CallTyped, CallType, queueVars, itemVars
  <2>2. At(o.item, "todo", o) /\ ~At(o.item, "todo", o)'
    BY <1>10, <2>1 DEF At, ExtIdleStart
  <2>3. \A i : At(i, "call", Ext)' => \E k, x : At(i, k, x) /\ ~At(i, k, x)'
    BY <2>1, <2>2 DEF At
  <2> QED
    BY <2>1, <2>3, ItemsMove
<1> QED
  BY <1>1, <1>2, <1>3, <1>4, <1>5, <1>6, <1>7, <1>8, <1>9, <1>10 DEF Request

(* get_pending_input takes what it returns out of the queues.              *)
LEMMA DrainTakes ==
  ASSUME TypeInv, DrainPendingInput
  PROVE  /\ mailbox' \subseteq mailbox /\ staged' = staged
         /\ \A ts \in TurnStateId : turnState'[ts].pending \subseteq turnState[ts].pending
         /\ \A i \in PendingInput :
              \/ i \in mailbox /\ i \notin mailbox'
              \/ \E ts \in TurnStateId : /\ i \in turnState[ts].pending
                                         /\ i \notin turnState'[ts].pending
<1>1. slot # NoSlot => slot.ts \in TurnStateId
  BY DEF TypeInv, SlotTyped
<1>2. CASE ~AcceptsMailbox
  BY <1>2 DEF DrainPendingInput, PendingInput
<1>3. CASE AcceptsMailbox /\ slot = NoSlot
  BY <1>3 DEF DrainPendingInput, PendingInput, SlotPending
<1>4. CASE AcceptsMailbox /\ slot # NoSlot
  <2>1. mailbox' = {} /\ turnState' = [turnState EXCEPT ![slot.ts].pending = {}]
        /\ staged' = staged
    BY <1>4 DEF DrainPendingInput
  <2>2. /\ turnState'[slot.ts].pending = {}
        /\ \A ts \in TurnStateId \ {slot.ts} : turnState'[ts] = turnState[ts]
    BY <1>1, <1>4, <2>1 DEF TypeInv, QueuesTyped, QueueType
  <2>3. PendingInput = turnState[slot.ts].pending \cup mailbox
    BY <1>4 DEF PendingInput, SlotPending
  <2> QED
    BY <1>1, <1>4, <2>1, <2>2, <2>3
<1> QED
  BY <1>2, <1>3, <1>4

LEMMA StartItems ==
  ASSUME TypeInv, OnePlace, NEW a \in Actor, StartStep(a)
  PROVE  OnePlace'
<1> USE DEF queueVars, itemVars
<1>1. CASE MaybeCheck(a)
  BY <1>1, ItemsStay DEF MaybeCheck
<1>2. ASSUME NEW t \in Turn, NEW p, NewTurn(a, t, "Regular", {}, p),
             UNCHANGED <<todo, queueVars, recorded>>
      PROVE  OnePlace'
  <2>1. \A b \in Actor : call'[b].items = call[b].items
    BY <1>2 DEF NewTurn, TypeInv, CallTyped, CallType
  <2>2. \A u \in Turn : task'[u].items \subseteq task[u].items
    BY <1>2 DEF NewTurn, NewTask, TypeInv, TaskTyped
  <2> QED
    BY <1>2, <2>1, <2>2, ItemsStay
<1>3. CASE MaybeReserve(a)
  <2>1. CASE UNCHANGED <<slot, call, task>>
    BY <1>3, <2>1, ItemsStay DEF MaybeReserve
  <2>2. CASE \E t \in Turn : NewTurn(a, t, "Regular", {}, "start:take")
    BY <1>2, <1>3, <2>2 DEF MaybeReserve
  <2> QED
    BY <1>3, <2>1, <2>2 DEF MaybeReserve
<1>4. CASE StartTake(a)
  <2>1. /\ call'[a].items = PendingInput
        /\ \A b \in Actor \ {a} : call'[b] = call[b]
        /\ UNCHANGED <<todo, task, recorded>> /\ DrainPendingInput
    BY <1>4 DEF StartTake, TypeInv, CallTyped, CallType
  <2>2. \A i : At(i, "call", a)' => \E k, x : At(i, k, x) /\ ~At(i, k, x)'
    <3> SUFFICES ASSUME NEW i, At(i, "call", a)'
                 PROVE  \E k, x : At(i, k, x) /\ ~At(i, k, x)'
      OBVIOUS
    <3>1. i \in PendingInput
      BY <2>1 DEF At
    <3>2. CASE i \in mailbox /\ i \notin mailbox'
      <4>1. At(i, "mailbox", NoTurn) /\ ~At(i, "mailbox", NoTurn)'
        BY <3>2 DEF At
      <4> QED
        BY <4>1
    <3>3. ASSUME NEW ts \in TurnStateId, i \in turnState[ts].pending,
                 i \notin turnState'[ts].pending
          PROVE  \E k, x : At(i, k, x) /\ ~At(i, k, x)'
      <4>1. At(i, "state", ts) /\ ~At(i, "state", ts)'
        BY <3>3 DEF At
      <4> QED
        BY <4>1
    <3> QED
      BY <2>1, <3>1, <3>2, <3>3, DrainTakes
  <2> QED
    BY <2>1, <2>2, DrainTakes, ItemsMove
<1>5. ASSUME NEW ts \in TurnStateId, call' = [call EXCEPT ![a].items = {}],
             turnState' = [turnState EXCEPT ![ts].pending = @ \cup call[a].items],
             UNCHANGED <<todo, mailbox, staged, task, recorded>>
      PROVE  OnePlace'
  <2>1. /\ call'[a].items = {}
        /\ \A b \in Actor \ {a} : call'[b] = call[b]
        /\ turnState'[ts].pending = turnState[ts].pending \cup call[a].items
        /\ \A x \in TurnStateId \ {ts} : turnState'[x] = turnState[x]
    BY <1>5 DEF TypeInv, CallTyped, CallType, QueuesTyped, QueueType
  <2>2. \A i : At(i, "state", ts)' => \/ At(i, "state", ts)
                                      \/ At(i, "call", a) /\ ~At(i, "call", a)'
    BY <2>1 DEF At
  <2> QED
    BY <1>5, <2>1, <2>2, ItemsMove
<1>6. CASE StartAttach(a)
  <2>1. call[a].turn \in Turn
    BY <1>6 DEF StartAttach, StartPoint, TypeInv, StartKnows
  <2>2. PICK ts \in TurnStateId :
          turnState' = [turnState EXCEPT ![ts].pending = @ \cup call[a].items]
    BY <1>6, <2>1, TurnStateIds DEF StartAttach, TypeInv, SlotTyped
  <2> QED
    BY <1>5, <1>6, <2>2 DEF StartAttach
<1>7. CASE TryExtend(a)
  <2>1. <<call[a].turn, "reserve">> \in TurnStateId
    BY <1>7, TurnStateIds DEF TryExtend, TryPoint, TypeInv, StartKnows
  <2> QED
    BY <1>5, <1>7, <2>1 DEF TryExtend
<1>8. ASSUME \A b \in Actor : call'[b].items \subseteq call[b].items,
             UNCHANGED <<todo, turnState, mailbox, staged, task, recorded>>
      PROVE  OnePlace'
  BY <1>8, ItemsStay
<1>9. CASE StartInstall(a) \/ TryCheck(a)
  <2>1. \A b \in Actor : call'[b].items \subseteq call[b].items
    BY <1>9 DEF StartInstall, TryCheck, TypeInv, CallTyped, CallType
  <2> QED
    BY <1>8, <1>9, <2>1 DEF StartInstall, TryCheck
<1>10. CASE TryReserve(a)
  <2>1. CASE UNCHANGED task /\ call' = [call EXCEPT ![a].items = {}]
    <3>1. \A b \in Actor : call'[b].items \subseteq call[b].items
      BY <2>1 DEF TypeInv, CallTyped, CallType
    <3> QED
      BY <1>8, <1>10, <2>1, <3>1 DEF TryReserve
  <2>2. CASE \E t \in Turn : NewTurn(a, t, "Regular", {}, "try:recheck")
    BY <1>2, <1>10, <2>2 DEF TryReserve
  <2> QED
    BY <1>10, <2>1, <2>2 DEF TryReserve
<1>11. ASSUME NEW p, GiveUpReservation(a, p) PROVE OnePlace'
  <2>1. \A b \in Actor : call'[b].items \subseteq call[b].items
    BY <1>11 DEF GiveUpReservation, TypeInv, CallTyped, CallType
  <2> QED
    BY <1>8, <1>11, <2>1 DEF GiveUpReservation
<1>12. CASE TryRecheck(a) \/ TryRoute(a) \/ TryClaim(a)
  BY <1>11, <1>12, ItemsStay DEF TryRecheck, TryRoute, TryClaim
<1> QED
  BY <1>1, <1>3, <1>4, <1>6, <1>7, <1>9, <1>10, <1>12 DEF StartStep

LEMMA LoopItems ==
  ASSUME TypeInv, OnePlace,
         LoopRouted \/ AbortTake \/ AbortCancel \/ AbortKill \/ AbortEvent \/ AbortClear
  PROVE  OnePlace'
<1> USE DEF queueVars, itemVars
<1>1. CASE LoopRouted
  <2>1. /\ \A b \in Actor : call'[b].items = call[b].items
        /\ \A u \in Turn : task'[u].items \subseteq task[u].items
    BY <1>1 DEF LoopRouted, TypeInv, CallTyped, CallType, TaskTyped, TaskType
  <2> QED
    BY <1>1, <2>1, ItemsStay DEF LoopRouted
<1>2. CASE AbortTake \/ AbortEvent
  BY <1>2, ItemsStay DEF AbortTake, AbortEvent
<1>3. CASE AbortCancel \/ AbortKill
  <2>1. \A u \in Turn : task'[u].items \subseteq task[u].items
    BY <1>3 DEF AbortCancel, AbortKill, NewTask, TypeInv, TaskTyped, TaskType
  <2> QED
    BY <1>3, <2>1, ItemsStay DEF AbortCancel, AbortKill
<1>4. CASE AbortClear
  <2>1. \A ts \in TurnStateId : turnState'[ts].pending \subseteq turnState[ts].pending
    BY <1>4 DEF AbortClear, NewTurnState, TypeInv, QueuesTyped
  <2> QED
    BY <1>4, <2>1, ItemsStay DEF AbortClear
<1> QED
  BY <1>1, <1>2, <1>3, <1>4

(* Items are recorded out of a task's hands, past the hooks.               *)
LEMMA RecordTakes ==
  ASSUME TypeInv, OnePlace, NEW t \in Turn, NEW next, RecordInputs(t, task[t].items, next),
         task'[t].items = {}, \A u \in Turn \ {t} : task'[u] = task[u],
         UNCHANGED <<todo, turnState, mailbox, staged, call>>
  PROVE  OnePlace'
<1>1. PICK some \in SUBSET task[t].items : recorded' = recorded \cup (some \X {t})
  BY DEF RecordInputs
<1>2. \A i : At(i, "recorded", t)' => \/ At(i, "recorded", t)
                                      \/ At(i, "task", t) /\ ~At(i, "task", t)'
  BY <1>1 DEF At
<1>3. \A i, u : <<i, u>> \in recorded' => t = u \/ <<i, u>> \in recorded
  BY <1>1
<1> QED
  BY <1>2, <1>3, ItemsMove

LEMMA TaskItems ==
  ASSUME TypeInv, OnePlace, NEW t \in Turn, RunStep(t)
  PROVE  OnePlace'
<1> USE DEF queueVars, itemVars
<1>1. CASE TaskBegin(t) \/ TaskStop(t) \/ TaskAfterTurn(t) \/ TaskCheckCancelled(t)
  BY <1>1, ItemsStay DEF TaskBegin, TaskStop, TaskAfterTurn, TaskCheckCancelled
<1>2. CASE TaskWork(t) \/ TaskPrepareFailed(t) \/ TaskAnswered(t) \/ TaskSampleFailed(t)
  <2>1. \A u \in Turn : task'[u].items \subseteq task[u].items
    BY <1>2 DEF TaskWork, TaskPrepareFailed, TaskAnswered, TaskSampleFailed, TypeInv,
                TaskTyped, TaskType
  <2> QED
    BY <1>2, <2>1, ItemsStay
    DEF TaskWork, TaskPrepareFailed, TaskAnswered, TaskSampleFailed
<1>3. CASE TaskPrepare(t) \/ TaskRecord(t)
  <2>1. task'[t].items = {} /\ \A u \in Turn \ {t} : task'[u] = task[u]
    BY <1>3 DEF TaskPrepare, TaskRecord, TypeInv, TaskTyped, TaskType
  <2>2. PICK next : RecordInputs(t, task[t].items, next)
    BY <1>3 DEF TaskPrepare, TaskRecord
  <2> QED
    BY <1>3, <2>1, <2>2, RecordTakes DEF TaskPrepare, TaskRecord
<1>4. CASE TaskDrain(t)
  <2>1. CASE UNCHANGED <<task, queueVars>>
    BY <1>4, <2>1, ItemsStay DEF TaskDrain
  <2>2. CASE task' = [task EXCEPT ![t].items = PendingInput] /\ DrainPendingInput
    <3>1. /\ task'[t].items = PendingInput
          /\ \A u \in Turn \ {t} : task'[u] = task[u]
          /\ UNCHANGED <<todo, call, recorded>>
      BY <1>4, <2>2 DEF TaskDrain, TypeInv, TaskTyped, TaskType
    <3>2. \A i : At(i, "task", t)' => \E k, x : At(i, k, x) /\ ~At(i, k, x)'
      <4> SUFFICES ASSUME NEW i, At(i, "task", t)'
                   PROVE  \E k, x : At(i, k, x) /\ ~At(i, k, x)'
        OBVIOUS
      <4>1. i \in PendingInput
        BY <3>1 DEF At
      <4>2. CASE i \in mailbox /\ i \notin mailbox'
        <5>1. At(i, "mailbox", NoTurn) /\ ~At(i, "mailbox", NoTurn)'
          BY <4>2 DEF At
        <5> QED
          BY <5>1
      <4>3. ASSUME NEW ts \in TurnStateId, i \in turnState[ts].pending,
                   i \notin turnState'[ts].pending
            PROVE  \E k, x : At(i, k, x) /\ ~At(i, k, x)'
        <5>1. At(i, "state", ts) /\ ~At(i, "state", ts)'
          BY <4>3 DEF At
        <5> QED
          BY <5>1
      <4> QED
        BY <2>2, <4>1, <4>2, <4>3, DrainTakes
    <3> QED
      BY <2>2, <3>1, <3>2, DrainTakes, ItemsMove
  <2> QED
    BY <1>4, <2>1, <2>2 DEF TaskDrain
<1>5. CASE TaskStream(t) \/ TaskFollowUp(t) \/ TaskStopBlocked(t)
  <2>1. \A ts \in TurnStateId : turnState'[ts].pending = turnState[ts].pending
    BY <1>5
    DEF TaskStream, TaskFollowUp, TaskStopBlocked, AcceptMailbox, DeferMailbox, TypeInv,
        QueuesTyped, QueueType
  <2>2. \A u \in Turn : task'[u].items = task[u].items
    BY <1>5 DEF TaskStream, TaskFollowUp, TaskStopBlocked, TypeInv, TaskTyped, TaskType
  <2> QED
    BY <1>5, <2>1, <2>2, ItemsStay DEF TaskStream, TaskFollowUp, TaskStopBlocked
<1> QED
  BY <1>1, <1>2, <1>3, <1>4, <1>5 DEF RunStep

LEMMA FinishItems ==
  ASSUME TypeInv, OnePlace, NEW t \in Turn, FinishStep(t)
  PROVE  OnePlace'
<1> USE DEF queueVars, itemVars
<1>1. CASE FinishTake(t) \/ FinishClear(t)
  <2>1. \A u \in Turn : task'[u].items \subseteq task[u].items
    BY <1>1 DEF FinishTake, FinishClear, NewTask, TypeInv, TaskTyped, TaskType
  <2>2. \A ts \in TurnStateId : turnState'[ts].pending \subseteq turnState[ts].pending
    BY <1>1 DEF FinishTake, FinishClear, NewTurnState, TypeInv, QueuesTyped
  <2> QED
    BY <1>1, <2>1, <2>2, ItemsStay DEF FinishTake, FinishClear
<1>2. CASE FinishRecord(t)
  <2> DEFINE ts == task[t].ts
  <2>1. ts \in TurnStateId
    BY <1>2 DEF FinishRecord, FinishPoint, TypeInv, FinishKnows
  <2>2. /\ turnState'[ts].pending = {}
        /\ \A x \in TurnStateId \ {ts} : turnState'[x] = turnState[x]
        /\ UNCHANGED <<todo, mailbox, staged, call, task>>
    BY <1>2, <2>1 DEF FinishRecord, TypeInv, QueuesTyped, QueueType
  <2>3. PICK some \in SUBSET turnState[ts].pending : recorded' = recorded \cup (some \X {t})
    BY <1>2 DEF FinishRecord
  <2> HIDE DEF ts
  <2>4. PICK X : X = ts
    OBVIOUS
  <2>5. \A i : At(i, "recorded", t)' => \/ At(i, "recorded", t)
                                        \/ At(i, "state", X) /\ ~At(i, "state", X)'
    BY <2>1, <2>2, <2>3, <2>4 DEF At
  <2>6. \A i, u : <<i, u>> \in recorded' => t = u \/ <<i, u>> \in recorded
    BY <2>3
  <2>7. \A x \in TurnStateId : turnState'[x].pending \subseteq turnState[x].pending
    BY <2>1, <2>2
  <2> QED
    BY <2>2, <2>5, <2>6, <2>7, ItemsMove
<1>3. CASE FinishEvent(t)
  BY <1>3, ItemsStay DEF FinishEvent
<1>4. CASE FinishWake(t)
  <2>1. \A a \in Actor : call'[a].items = call[a].items
    BY <1>4 DEF FinishWake, TypeInv, CallTyped, CallType
  <2> QED
    BY <1>4, <2>1, ItemsStay DEF FinishWake
<1>5. CASE FinishIdle(t)
  <2>1. CASE UNCHANGED <<todo, call>>
    BY <1>5, <2>1, ItemsStay DEF FinishIdle
  <2>2. ASSUME NEW o \in todo, o.op = "IdleStart", Take(o),
               call' = [call EXCEPT ![t].items = {o.item}, ![t].ret = "finish:wake"]
        PROVE  OnePlace'
    <3>1. /\ todo' = todo \ {o} /\ t \in Actor
          /\ call'[t].items = {o.item}
          /\ \A a \in Actor \ {t} : call'[a] = call[a]
          /\ UNCHANGED <<turnState, mailbox, staged, task, recorded>>
      BY <1>5, <2>2, Actors DEF FinishIdle, Take, TypeInv, CallTyped, CallType
    <3>2. At(o.item, "todo", o) /\ ~At(o.item, "todo", o)'
      BY <2>2, <3>1 DEF At, Carrier
    <3>3. \A i : At(i, "call", t)' => \E k, x : At(i, k, x) /\ ~At(i, k, x)'
      BY <3>1, <3>2 DEF At
    <3> QED
      BY <3>1, <3>3, ItemsMove
  <2> QED
    BY <1>5, <2>1, <2>2 DEF FinishIdle
<1> QED
  BY <1>1, <1>2, <1>3, <1>4, <1>5 DEF FinishStep

LEMMA ItemStep ==
  ASSUME TypeInv, OnePlace, [Next]_vars
  PROVE  OnePlace'
<1>1. CASE UNCHANGED vars
  BY <1>1, ItemsStay DEF vars, queueVars, itemVars
<1>2. CASE LoopStep
  BY <1>2, LoopItems, StartItems, Actors DEF LoopStep
<1>3. ASSUME NEW t \in Turn, TaskStep(t) PROVE OnePlace'
  BY <1>3, TaskItems, FinishItems, StartItems, Actors DEF TaskStep
<1> QED
  BY <1>1, <1>2, <1>3, RequestItems, StartItems, Actors DEF Next

LEMMA ItemInit ==
  ASSUME ItemsBroughtOnce, Init
  PROVE  OnePlace
<1>1. \A i, k, x : At(i, k, x) => k = "todo" /\ x \in todo /\ x.op \in Carrier /\ x.item = i
  <2> SUFFICES ASSUME NEW i, NEW k, NEW x, At(i, k, x), k # "todo" PROVE FALSE
    BY DEF At
  <2>1. /\ mailbox = {} /\ staged = {} /\ recorded = {}
        /\ \A a \in Actor : call[a].items = {}
        /\ \A t \in Turn : task[t].items = {}
        /\ \A ts \in TurnStateId : turnState[ts].pending = {}
    BY DEF Init, NewTask, NewTurnState
  <2> QED
    BY <2>1 DEF At
<1>2. \A o, p \in todo :
        o.op \in Carrier /\ p.op \in Carrier /\ o.item = p.item => o = p
  BY DEF Init, ItemsBroughtOnce
<1> QED
  BY <1>1, <1>2 DEF OnePlace

(* Where an item is held, it is in a place.                                *)
LEMMA HeldSomewhere ==
  ASSUME TypeInv, NEW i \in Held
  PROVE  \E k, x : At(i, k, x) /\ k # "recorded"
<1>1. CASE i \in mailbox \/ i \in staged
  <2>1. At(i, "mailbox", NoTurn) \/ At(i, "staged", NoTurn)
    BY <1>1 DEF At
  <2> QED
    BY <2>1
<1>2. ASSUME NEW a \in Actor, i \in call[a].items
      PROVE  \E k, x : At(i, k, x) /\ k # "recorded"
  <2>1. At(i, "call", a)
    BY <1>2 DEF At
  <2> QED
    BY <2>1
<1>3. ASSUME NEW t \in Turn, i \in task[t].items
      PROVE  \E k, x : At(i, k, x) /\ k # "recorded"
  <2>1. At(i, "task", t)
    BY <1>3 DEF At
  <2> QED
    BY <2>1
<1>4. ASSUME NEW ts \in ReachableTurnState \ {NoTurnState}, i \in turnState[ts].pending
      PROVE  \E k, x : At(i, k, x) /\ k # "recorded"
  <2>1. ts \in TurnStateId
    BY <1>4
    DEF ReachableTurnState, TypeInv, SlotTyped, FinishKnows, FinishPoint, LoopKnows, NoSlot
  <2>2. At(i, "state", ts)
    BY <1>4, <2>1 DEF At
  <2> QED
    BY <2>2
<1> QED
  BY <1>1, <1>2, <1>3, <1>4 DEF Held

(* Where every item is brought by one request, each is recorded once, by   *)
(* one turn, and is in no queue after that: get_pending_input and          *)
(* take_pending_input take what they return, whoever races them.           *)
THEOREM ItemsAreRecordedOnce ==
  ASSUME ItemsBroughtOnce
  PROVE  Spec => []RecordedOnce
<1>1. TypeInv /\ OnePlace /\ [Next]_vars => (TypeInv /\ OnePlace)'
  BY TypeStep, ItemStep
<1>2. Init => TypeInv /\ OnePlace
  BY TypeInit, ItemInit
<1>3. TypeInv /\ OnePlace => RecordedOnce
  <2> SUFFICES ASSUME TypeInv, OnePlace PROVE RecordedOnce
    OBVIOUS
  <2>1. \A p \in recorded : p = <<p[1], p[2]>> /\ At(p[1], "recorded", p[2])
    BY DEF At, TypeInv, ItemsTyped
  <2>2. \A p, q \in recorded : p[1] = q[1] => p = q
    BY <2>1 DEF OnePlace
  <2>3. ItemsIn(recorded) \cap Held = {}
    <3> SUFFICES ASSUME NEW p \in recorded, p[1] \in Held PROVE FALSE
      BY DEF ItemsIn
    <3> QED
      BY <2>1, HeldSomewhere DEF OnePlace
  <2> QED
    BY <2>2, <2>3 DEF RecordedOnce
<1> QED
  BY <1>1, <1>2, <1>3, PTL DEF Spec

-----------------------------------------------------------------------------
(* Whose TurnState is whose                                                *)

(* Where the loop starts every turn, a turn's TurnState is the one that    *)
(* start_task attaches to the empty slot, in the slot, in the hands of the *)
(* finishing task and in those of the aborting loop.                       *)
OwnState(t) == <<t, "attach">>

OwnStates ==
    /\ slot.task # NoTurn => slot.ts = OwnState(slot.task)
    /\ \A t \in Turn : pc[t] \in FinishPoint => task[t].ts = OwnState(t)
    /\ pc[Loop] \in AbortPoint => abort.ts = OwnState(abort.victim) /\ slot = NoSlot
    /\ pc[Loop] \in {"start:take", "start:attach"} => slot = NoSlot
    /\ pc[Loop] = "start:install" => slot.ts = OwnState(call[Loop].turn)

(* Steps that leave the slot alone and take nobody to one of these points. *)
LEMMA OwnFrame ==
  ASSUME OwnStates, slot' = slot,
         \A t \in Turn : pc'[t] \in FinishPoint =>
           pc[t] \in FinishPoint /\ task'[t].ts = task[t].ts,
         pc'[Loop] \in AbortPoint => pc[Loop] \in AbortPoint /\ abort' = abort,
         pc'[Loop] \in {"start:take", "start:attach"} =>
           pc[Loop] \in {"start:take", "start:attach"} \cup AbortPoint,
         pc'[Loop] = "start:install" =>
           pc[Loop] = "start:install" /\ call'[Loop].turn = call[Loop].turn
  PROVE  OwnStates'
BY DEF OwnStates, OwnState

LEMMA OwnRequests ==
  ASSUME TypeInv, OwnStates, NEW o \in todo, Request(o)
  PROVE  OwnStates'
<1> USE DEF FinishPoint, AbortPoint
<1>1. CASE Steer(o) \/ CancelSteer(o) \/ Inject(o) \/ LoopStage(o) \/ LoopRelease(o)
  BY <1>1, OwnFrame DEF Steer, CancelSteer, Inject, LoopStage, LoopRelease
<1>2. CASE LoopMail(o) \/ LoopStartPendingWork(o) \/ LoopInterrupt(o)
  <2>1. pc'[Loop] \in {"idle", "maybe:check", "abort:take"}
        /\ \A t \in Turn : pc'[t] = pc[t]
    BY <1>2, Actors
    DEF LoopMail, LoopStartPendingWork, LoopInterrupt, Goto, TypeInv, PcTyped
  <2>2. UNCHANGED <<slot, task>>
    BY <1>2 DEF LoopMail, LoopStartPendingWork, LoopInterrupt
  <2> QED
    BY <2>1, <2>2, OwnFrame
<1>3. CASE ExtIdleStart(o)
  <2>1. pc'[Loop] = pc[Loop] /\ \A t \in Turn : pc'[t] = pc[t]
    BY <1>3, Actors DEF ExtIdleStart, Goto, TypeInv, PcTyped
  <2>2. UNCHANGED <<slot, task, abort>> /\ call'[Loop] = call[Loop]
    BY <1>3, Actors DEF ExtIdleStart, TypeInv, CallTyped
  <2> QED
    BY <2>1, <2>2, OwnFrame
<1>4. CASE LoopUserInput(o) \/ LoopSpawn(o)
  <2>1. CASE UNCHANGED <<pc, call, task>>
    BY <1>4, <2>1, OwnFrame DEF LoopUserInput, LoopSpawn
  <2>2. ASSUME NEW t \in Turn, pc[t] = "unused", NEW x,
               NEW p \in {"route", "abort:take"},
               pc' = [pc EXCEPT ![t] = "queued", ![Loop] = p],
               task' = [task EXCEPT ![t] = x]
        PROVE  OwnStates'
    <3>1. pc'[Loop] = p /\ pc'[t] = "queued" /\ \A u \in Turn \ {t} : pc'[u] = pc[u]
      BY <2>2, Actors DEF TypeInv, PcTyped
    <3>2. \A u \in Turn \ {t} : task'[u] = task[u]
      BY <2>2 DEF TypeInv, TaskTyped
    <3>3. slot' = slot
      BY <1>4 DEF LoopUserInput, LoopSpawn
    <3> QED
      BY <3>1, <3>2, <3>3, OwnFrame
  <2>3. CASE LoopUserInput(o)
    BY <2>1, <2>2, <2>3 DEF LoopUserInput, NewTurn, FreshTurn
  <2>4. CASE LoopSpawn(o)
    BY <2>1, <2>2, <2>4 DEF LoopSpawn, FreshTurn
  <2> QED
    BY <1>4, <2>3, <2>4
<1> QED
  BY <1>1, <1>2, <1>3, <1>4 DEF Request

(* The loop aborts and starts; a finishing task can only look for mail.    *)
LEMMA OwnStarts ==
  ASSUME LoopStartsAlone, TypeInv, LoopInv, OwnStates, NEW a \in Actor, StartStep(a)
  PROVE  OwnStates'
<1> USE DEF FinishPoint, AbortPoint
<1>r. call[a].ret \in {"idle", "exited", "finish:wake", "done"}
  BY CallFields DEF TypeInv, CallTyped
<1>1. CASE MaybeCheck(a)
  <2>1. pc'[a] = call[a].ret /\ \A b \in Actor \ {a} : pc'[b] = pc[b]
    BY <1>1, NoTriggerMail DEF MaybeCheck, Return, Goto, TypeInv, PcTyped
  <2>2. UNCHANGED <<slot, call, abort, task>>
    BY <1>1 DEF MaybeCheck
  <2> QED
    BY <1>r, <2>1, <2>2, OwnFrame, Actors
<1>2. pc[a] \in StartPoint => a = Loop
  BY DEF LoopInv, OthersDoNotStart, Over, RunPoint, StartPoint, Actor
<1>3. CASE StartTake(a)
  <2>1. a = Loop /\ pc[Loop] = "start:take" /\ pc'[Loop] = "start:attach"
        /\ \A t \in Turn : pc'[t] = pc[t]
    BY <1>2, <1>3, Actors DEF StartTake, Goto, StartPoint, TypeInv, PcTyped
  <2>2. UNCHANGED <<slot, task, abort>>
    BY <1>3 DEF StartTake
  <2> QED
    BY <2>1, <2>2, OwnFrame
<1>4. CASE StartAttach(a)
  <2>1. a = Loop /\ pc[Loop] = "start:attach" /\ pc'[Loop] = "start:install"
        /\ \A t \in Turn : pc'[t] = pc[t]
    BY <1>2, <1>4, Actors DEF StartAttach, Goto, StartPoint, TypeInv, PcTyped
  <2>2. slot = NoSlot
    BY <2>1 DEF OwnStates
  <2>3. slot'.ts = OwnState(call[Loop].turn) /\ slot'.task = NoTurn
        /\ UNCHANGED <<task, abort>>
    BY <1>4, <2>1, <2>2 DEF StartAttach, NoSlot, OwnState
  <2>4. call'[Loop].turn = call[Loop].turn
    BY <1>4, <2>1, Actors DEF StartAttach, TypeInv, CallTyped, CallType
  <2> QED
    BY <2>1, <2>3, <2>4 DEF OwnStates, OwnState
<1>5. CASE StartInstall(a)
  <2> DEFINE t == call[Loop].turn
  <2>1. a = Loop /\ pc[Loop] = "start:install" /\ t \in Turn
    BY <1>2, <1>5 DEF StartInstall, StartPoint, TypeInv, StartKnows
  <2>2. slot.task = NoTurn /\ slot.ts = OwnState(t)
    BY <2>1 DEF LoopInv, LoopOwnsSlot, StartPoint, OwnStates
  <2>3. slot # NoSlot
    BY <2>1, <2>2, Actors DEF NoSlot, OwnState, TurnStateId
  <2>4. slot'.task = t /\ slot'.ts = OwnState(t) /\ UNCHANGED <<task, abort>>
    BY <1>5, <2>1, <2>2, <2>3 DEF StartInstall
  <2>5. /\ pc'[Loop] = call[Loop].ret
        /\ \A u \in Turn : pc'[u] = pc[u] \/ pc'[u] \in {"begin", "dropped"}
    BY <1>5, <2>1, Actors DEF StartInstall
  <2> HIDE DEF t
  <2> QED
    BY <1>r, <2>1, <2>4, <2>5 DEF OwnStates, OwnState
<1> QED
  BY <1>1, <1>3, <1>4, <1>5, NeverReserves DEF StartStep

LEMMA OwnAborts ==
  ASSUME TypeInv, LoopInv, OwnStates,
         LoopRouted \/ AbortTake \/ AbortCancel \/ AbortKill \/ AbortEvent \/ AbortClear
  PROVE  OwnStates'
<1> USE DEF FinishPoint, AbortPoint
<1>r. call[Loop].ret \in {"idle", "exited", "finish:wake", "done"}
  BY CallFields, Actors DEF TypeInv, CallTyped
<1>1. CASE LoopRouted
  <2> DEFINE t == call[Loop].turn
  <2>1. t \in Turn /\ pc[Loop] = "route"
    BY <1>1 DEF LoopRouted, TypeInv, LoopKnows
  <2>2. /\ pc'[Loop] \in {"idle", "abort:take"}
        /\ \A u \in Turn : pc'[u] = pc[u] \/ pc'[u] = "rejected"
    BY <1>1, <2>1, Actors DEF LoopRouted, Goto, TypeInv, PcTyped
  <2>3. slot' = slot /\ \A u \in Turn : task'[u].ts = task[u].ts
    BY <1>1, <2>1 DEF LoopRouted, TypeInv, TaskTyped, TaskType
  <2> QED
    BY <2>2, <2>3, OwnFrame
<1>2. CASE AbortTake
  <2>1. /\ slot' = NoSlot /\ task' = task /\ call' = call
        /\ \A u \in Turn : pc'[u] = pc[u]
        /\ pc'[Loop] \in {"abort:cancel", "start:take"} \cup {call[Loop].ret}
        /\ pc'[Loop] = "abort:cancel" => slot.task # NoTurn
    BY <1>r, <1>2, Actors DEF AbortTake, Goto, TypeInv, PcTyped
  <2>2. slot.task # NoTurn => abort'.ts = OwnState(slot.task) /\ abort'.victim = slot.task
    BY <1>2 DEF AbortTake, TypeInv, AbortTyped, AbortType, OwnStates
  <2>3. slot'.task = NoTurn
    BY <2>1 DEF NoSlot
  <2> QED
    BY <1>r, <2>1, <2>2, <2>3 DEF OwnStates, OwnState
<1>3. CASE AbortCancel \/ AbortKill \/ AbortEvent
  <2>1. /\ pc[Loop] \in AbortPoint /\ UNCHANGED <<slot, abort>>
        /\ abort.victim \in Turn
    BY <1>3 DEF AbortCancel, AbortKill, AbortEvent, TypeInv, LoopKnows
  <2>2. /\ pc'[Loop] \in AbortPoint
        /\ \A u \in Turn : pc'[u] = pc[u] \/ pc'[u] \in {"dropped", "killed"}
    BY <1>3, <2>1, Actors DEF AbortCancel, AbortKill, AbortEvent, Goto, TypeInv, PcTyped
  <2>3. \A u \in Turn : pc'[u] \in FinishPoint => task'[u].ts = task[u].ts
    <3>1. CASE AbortCancel \/ AbortEvent
      BY <3>1 DEF AbortCancel, AbortEvent, TypeInv, TaskTyped, TaskType
    <3>2. CASE AbortKill
      <4>1. pc'[abort.victim] \in {"done", "killed"}
        BY <2>1, <3>2, Actors DEF AbortKill, TypeInv, PcTyped
      <4>2. \A u \in Turn \ {abort.victim} : task'[u] = task[u]
        BY <3>2 DEF AbortKill, TypeInv, TaskTyped
      <4> QED
        BY <4>1, <4>2
    <3> QED
      BY <1>3, <3>1, <3>2
  <2> QED
    BY <2>1, <2>2, <2>3, OwnFrame
<1>4. CASE AbortClear
  <2>1. /\ pc[Loop] \in AbortPoint /\ UNCHANGED <<slot, task, call>>
        /\ pc'[Loop] \in {"start:take", "maybe:check"}
        /\ \A u \in Turn : pc'[u] = pc[u]
    BY <1>4, Actors DEF AbortClear, Goto, TypeInv, PcTyped
  <2> QED
    BY <2>1, OwnFrame
<1> QED
  BY <1>1, <1>2, <1>3, <1>4

LEMMA OwnTasks ==
  ASSUME TypeInv, LoopInv, OwnStates, NEW t \in Turn, RunStep(t) \/ FinishStep(t)
  PROVE  OwnStates'
<1> USE DEF FinishPoint, AbortPoint
<1>0. ASSUME NEW p, Goto(t, p)
      PROVE  /\ pc'[t] = p /\ pc'[Loop] = pc[Loop]
             /\ \A u \in Turn \ {t} : pc'[u] = pc[u]
  BY <1>0, Actors DEF Goto, TypeInv, PcTyped
<1>1. ASSUME UNCHANGED <<slot, call, abort>>, NEW p, Goto(t, p),
             \A u \in Turn : task'[u].ts = task[u].ts,
             p \in FinishPoint => pc[t] \in FinishPoint
      PROVE  OwnStates'
  BY <1>0, <1>1, OwnFrame
<1>2. CASE TaskStream(t)
  BY <1>2, OwnFrame DEF TaskStream
<1>3. CASE RunStep(t) /\ ~TaskStream(t)
  <2>1. UNCHANGED <<slot, call, abort>>
    BY <1>3
    DEF RunStep, TaskBegin, TaskWork, TaskPrepare, TaskPrepareFailed, TaskDrain, TaskRecord,
        TaskFollowUp, TaskAnswered, TaskSampleFailed, TaskStop, TaskStopBlocked,
        TaskAfterTurn, TaskCheckCancelled
  <2>2. PICK p \in RunPoint \cup {"done"} : Goto(t, p)
    BY <1>3
    DEF RunStep, TaskBegin, TaskWork, TaskPrepare, TaskPrepareFailed, TaskDrain, TaskRecord,
        TaskFollowUp, TaskAnswered, TaskSampleFailed, TaskStop, TaskStopBlocked,
        TaskAfterTurn, TaskCheckCancelled, RecordInputs, RunPoint
  <2>3. \A u \in Turn : task'[u].ts = task[u].ts
    <3>1. CASE TaskBegin(t) \/ TaskStop(t) \/ TaskStopBlocked(t) \/ TaskAfterTurn(t)
               \/ TaskCheckCancelled(t)
      BY <3>1 DEF TaskBegin, TaskStop, TaskStopBlocked, TaskAfterTurn, TaskCheckCancelled
    <3>2. CASE TaskWork(t) \/ TaskPrepare(t) \/ TaskPrepareFailed(t) \/ TaskRecord(t)
      BY <3>2
      DEF TaskWork, TaskPrepare, TaskPrepareFailed, TaskRecord, TypeInv, TaskTyped, TaskType
    <3>3. CASE TaskDrain(t) \/ TaskFollowUp(t) \/ TaskAnswered(t) \/ TaskSampleFailed(t)
      BY <3>3
      DEF TaskDrain, TaskFollowUp, TaskAnswered, TaskSampleFailed, TypeInv, TaskTyped,
          TaskType
    <3> QED
      BY <1>3, <3>1, <3>2, <3>3 DEF RunStep
  <2> QED
    BY <1>1, <2>1, <2>2, <2>3 DEF RunPoint
<1>4. CASE FinishTake(t)
  <2>1. CASE slot.task = NoTurn /\ Goto(t, "done") /\ UNCHANGED <<slot, task>>
    BY <1>1, <1>4, <2>1 DEF FinishTake
  <2>2. CASE slot.task # NoTurn /\ Goto(t, "finish:record")
             /\ slot' = [slot EXCEPT !.task = NoTurn]
             /\ task' = [task EXCEPT ![t].ts = slot.ts]
    <3>1. pc[t] = "finish:take" /\ UNCHANGED <<call, abort>>
      BY <1>4 DEF FinishTake
    <3>2. slot # NoSlot
      BY <2>2 DEF NoSlot
    <3>3. slot.task = t
      BY <3>1, <3>2
      DEF LoopInv, SlotHoldsRunningTask, Running, RunPoint, Aborting, OwnStates
    <3>4. pc[Loop] \notin AbortPoint \cup {"start:take", "start:attach", "start:install"}
      BY <2>2, <3>2 DEF OwnStates, LoopInv, LoopOwnsSlot, StartPoint
    <3>5. slot'.task = NoTurn /\ task'[t].ts = OwnState(t)
          /\ \A u \in Turn \ {t} : task'[u] = task[u]
      BY <2>2, <3>3 DEF OwnStates, TypeInv, SlotTyped, SlotType, TaskTyped, TaskType
    <3> QED
      BY <1>0, <2>2, <3>4, <3>5 DEF OwnStates, OwnState
  <2> QED
    BY <1>4, <2>1, <2>2 DEF FinishTake
<1>5. CASE FinishRecord(t) \/ FinishEvent(t)
  BY <1>1, <1>5 DEF FinishRecord, FinishEvent
<1>6. CASE FinishClear(t)
  <2>1. /\ pc[t] = "finish:clear" /\ UNCHANGED <<call, abort>>
        /\ \A u \in Turn \ {t} : task'[u] = task[u]
    BY <1>6 DEF FinishClear, TypeInv, TaskTyped
  <2>2. PICK p \in {"done", "finish:idle"} : Goto(t, p)
    BY <1>6 DEF FinishClear
  <2>3. CASE slot' = slot
    BY <1>0, <2>1, <2>2, <2>3, OwnFrame
  <2>4. CASE slot' = NoSlot /\ slot.ts = task[t].ts
    <3>1. slot.ts = OwnState(t)
      BY <2>1, <2>4 DEF OwnStates
    <3>2. pc[Loop] # "start:install"
      <4> SUFFICES ASSUME pc[Loop] = "start:install" PROVE FALSE
        OBVIOUS
      <4>1. call[Loop].turn = t
        BY <3>1 DEF OwnStates, OwnState
      <4>2. pc[t] = "queued"
        BY <4>1 DEF LoopInv, NextTurnWaits, StartPoint
      <4> QED
        BY <2>1, <4>2
    <3>3. slot'.task = NoTurn
      BY <2>4 DEF NoSlot
    <3> QED
      BY <1>0, <2>1, <2>2, <2>4, <3>2, <3>3 DEF OwnStates, OwnState
  <2> QED
    BY <1>6, <2>3, <2>4 DEF FinishClear
<1>7. CASE FinishIdle(t) \/ FinishWake(t)
  <2>1. PICK p \in {"try:check", "finish:wake", "maybe:check"} : Goto(t, p)
    BY <1>7 DEF FinishIdle, FinishWake
  <2>2. UNCHANGED <<slot, abort, task>> /\ call'[Loop] = call[Loop]
    BY <1>7, Actors DEF FinishIdle, FinishWake, TypeInv, CallTyped
  <2> QED
    BY <1>0, <2>1, <2>2, OwnFrame
<1> QED
  BY <1>2, <1>3, <1>4, <1>5, <1>6, <1>7 DEF FinishStep

LEMMA OwnStep ==
  ASSUME LoopStartsAlone, TypeInv, LoopInv, OwnStates, [Next]_vars
  PROVE  OwnStates'
<1>1. CASE UNCHANGED vars
  BY <1>1, OwnFrame DEF vars
<1>2. CASE LoopStep
  BY <1>2, OwnAborts, OwnStarts, Actors DEF LoopStep
<1>3. ASSUME NEW t \in Turn, TaskStep(t) PROVE OwnStates'
  BY <1>3, OwnTasks, OwnStarts, Actors DEF TaskStep
<1> QED
  BY <1>1, <1>2, <1>3, OwnRequests, OwnStarts, Actors DEF Next

LEMMA OwnInit == Init => OwnStates
<1> SUFFICES ASSUME Init PROVE OwnStates
  OBVIOUS
<1>1. slot.task = NoTurn /\ pc[Loop] = "idle" /\ \A t \in Turn : pc[t] = "unused"
  BY Actors DEF Init, NoSlot
<1> QED
  BY <1>1 DEF OwnStates, FinishPoint, AbortPoint

-----------------------------------------------------------------------------
(* Where steered input goes                                                *)

(* Input accepted for turn t is in the TurnState of t, in the hands of its *)
(* task, or recorded by it.                                                *)
Fits(k, x, t) == (k \in {"task", "recorded"} /\ x = t) \/ (k = "state" /\ x = OwnState(t))

SteerInv ==
    \A i : \A t \in Turn : <<i, t>> \in accepted =>
        \A k, x : At(i, k, x) => Fits(k, x, t)

(* Items only go, or go to place X of kind K, where what was accepted for  *)
(* a turn may be.                                                          *)
LEMMA SteerMoves ==
  ASSUME SteerInv, NEW K, NEW X,
         todo' \subseteq todo \/ (K = "todo" /\ todo' \subseteq todo \cup {X}),
         K = "mailbox" \/ mailbox' \subseteq mailbox,
         K = "staged" \/ staged' \subseteq staged,
         \A a \in Actor : (K = "call" /\ X = a) \/ call'[a].items \subseteq call[a].items,
         \A t \in Turn : (K = "task" /\ X = t) \/ task'[t].items \subseteq task[t].items,
         \A ts \in TurnStateId : \/ K = "state" /\ X = ts
                                 \/ turnState'[ts].pending \subseteq turnState[ts].pending,
         \A i, t : <<i, t>> \in recorded' => \/ K = "recorded" /\ X = t
                                             \/ <<i, t>> \in recorded,
         K \in {"mailbox", "staged"} => X = NoTurn,
         \A i : At(i, K, X)' => \/ At(i, K, X)
                                \/ \A t \in Turn : <<i, t>> \in accepted => Fits(K, X, t),
         \A i : \A t \in Turn : <<i, t>> \in accepted' => <<i, t>> \in accepted
  PROVE  SteerInv'
<1>1. ASSUME NEW i, NEW k, NEW x, At(i, k, x)' PROVE At(i, k, x) \/ (k = K /\ x = X)
  BY <1>1 DEF At
<1>2. SUFFICES ASSUME NEW i, NEW t \in Turn, <<i, t>> \in accepted', NEW k, NEW x,
                      At(i, k, x)'
               PROVE  Fits(k, x, t)
  BY DEF SteerInv, Fits, OwnState
<1>3. <<i, t>> \in accepted
  BY <1>2
<1>4. CASE At(i, k, x)
  BY <1>3, <1>4 DEF SteerInv
<1>5. CASE k = K /\ x = X /\ ~At(i, k, x)
  BY <1>2, <1>3, <1>5
<1> QED
  BY <1>1, <1>2, <1>4, <1>5

(* Nothing arrives anywhere.                                               *)
LEMMA SteerStays ==
  ASSUME SteerInv, todo' \subseteq todo, mailbox' \subseteq mailbox,
         staged' \subseteq staged, recorded' \subseteq recorded,
         \A a \in Actor : call'[a].items \subseteq call[a].items,
         \A t \in Turn : task'[t].items \subseteq task[t].items,
         \A ts \in TurnStateId : turnState'[ts].pending \subseteq turnState[ts].pending,
         \A i : \A t \in Turn : <<i, t>> \in accepted' => <<i, t>> \in accepted
  PROVE  SteerInv'
<1>1. \A i, k, x : At(i, k, x)' => At(i, k, x)
  BY DEF At
<1> QED
  BY <1>1 DEF SteerInv, Fits, OwnState

(* What is still on its way to a turn was not accepted for one.            *)
LEMMA Unsteered ==
  ASSUME SteerInv, NEW i, NEW k \in {"todo", "mailbox", "staged", "call"}, NEW x,
         At(i, k, x), NEW t \in Turn
  PROVE  <<i, t>> \notin accepted
BY DEF SteerInv, Fits

(* A request gives its item to the slot, for the slot's task or for none.  *)
LEMMA SteerAdds ==
  ASSUME TypeInv, OnePlace, OwnStates, SteerInv, NEW o \in todo, NEW turn,
         Take(o), o.op \in Carrier, slot # NoSlot, turn \in {slot.task, NoTurn},
         AddToSlot(o.item, turn), UNCHANGED <<call, task, recorded>>
  PROVE  SteerInv'
<1>1. slot.ts \in TurnStateId
  BY DEF TypeInv, SlotTyped
<1> DEFINE ts == slot.ts
<1>2. /\ ts \in TurnStateId
      /\ turnState'[ts].pending = turnState[ts].pending \cup {o.item}
      /\ \A x \in TurnStateId \ {ts} : turnState'[x] = turnState[x]
      /\ UNCHANGED <<mailbox, staged>> /\ todo' = todo \ {o}
      /\ accepted' = accepted \cup {<<o.item, turn>>}
  BY <1>1 DEF AddToSlot, Take, TypeInv, QueuesTyped, QueueType
<1>3. turn \in Turn => ts = OwnState(turn)
  BY Actors DEF OwnStates
<1> HIDE DEF ts
<1>4. At(o.item, "todo", o) /\ ~At(o.item, "todo", o)'
  BY <1>2 DEF At
<1>5. SUFFICES ASSUME NEW i, NEW t \in Turn, <<i, t>> \in accepted', NEW k, NEW x,
                      At(i, k, x)'
               PROVE  Fits(k, x, t)
  BY DEF SteerInv, Fits, OwnState
<1>6. At(i, k, x) \/ (i = o.item /\ k = "state" /\ x = ts)
  BY <1>2, <1>5 DEF At
<1>7. CASE <<i, t>> \in accepted
  <2>1. i # o.item
    BY <1>4, <1>7, Unsteered
  <2> QED
    BY <1>6, <1>7, <2>1 DEF SteerInv
<1>8. CASE i = o.item /\ t = turn
  <2>1. ~At(i, k, x)
    BY <1>4, <1>5, <1>8 DEF OnePlace
  <2> QED
    BY <1>3, <1>6, <1>8, <2>1 DEF Fits
<1> QED
  BY <1>2, <1>5, <1>7, <1>8

LEMMA SteerRequests ==
  ASSUME TypeInv, OnePlace, OwnStates, SteerInv, NEW o \in todo, Request(o)
  PROVE  SteerInv'
<1> USE DEF Carrier
<1>i. NoTurn \notin Turn
  BY Actors
<1>s. ASSUME o.op \in Carrier, Take(o)
      PROVE  /\ todo' = todo \ {o} /\ At(o.item, "todo", o)
             /\ \A t \in Turn : <<o.item, t>> \notin accepted
  <2>1. At(o.item, "todo", o)
    BY <1>s DEF At
  <2> QED
    BY <1>s, <2>1, Unsteered DEF Take
<1>1. CASE Steer(o) \/ LoopUserInput(o)
  <2>1. CASE Steerable /\ AddToSlot(o.item, slot.task) /\ UNCHANGED <<call, task>>
    <3>1. slot # NoSlot
      BY <2>1 DEF Steerable, SteerTarget, NoSlot
    <3> QED
      BY <1>1, <2>1, <3>1, SteerAdds DEF Steer, LoopUserInput
  <2>2. CASE UNCHANGED <<queueVars, accepted, call, task>>
    BY <1>1, <2>2, SteerStays DEF Steer, LoopUserInput, Take, queueVars
  <2>3. ASSUME NEW t \in Turn, NewTurn(Loop, t, "Regular", {o.item}, "route"),
               UNCHANGED <<queueVars, accepted>>, LoopUserInput(o)
        PROVE  SteerInv'
    <3>1. /\ \A a \in Actor : call'[a].items = call[a].items
          /\ task'[t].items = {o.item}
          /\ \A u \in Turn \ {t} : task'[u] = task[u]
      BY <2>3 DEF NewTurn, NewTask, TypeInv, CallTyped, CallType, TaskTyped
    <3>2. \A i : At(i, "task", t)' => i = o.item
      BY <3>1 DEF At
    <3>3. /\ todo' = todo \ {o} /\ \A u \in Turn : <<o.item, u>> \notin accepted
          /\ UNCHANGED <<turnState, mailbox, staged, recorded, accepted>>
      BY <1>s, <2>3 DEF LoopUserInput, queueVars
    <3> QED
      BY <3>1, <3>2, <3>3, SteerMoves
  <2> QED
    BY <1>1, <2>1, <2>2, <2>3 DEF Steer, LoopUserInput
<1>2. CASE CancelSteer(o)
  <2>1. \A ts \in TurnStateId : turnState'[ts].pending \subseteq turnState[ts].pending
    BY <1>2 DEF CancelSteer, TypeInv, QueuesTyped, QueueType
  <2>2. accepted' \subseteq accepted
    BY <1>2 DEF CancelSteer
  <2> QED
    BY <1>2, <2>1, <2>2, SteerStays DEF CancelSteer, Take
<1>3. CASE Inject(o)
  <2>1. CASE slot # NoSlot /\ AddToSlot(o.item, NoTurn) /\ UNCHANGED recorded
    BY <1>3, <2>1, SteerAdds DEF Inject
  <2>2. CASE UNCHANGED <<queueVars, accepted, recorded>>
    BY <1>3, <2>2, SteerStays DEF Inject, Take, queueVars
  <2>3. CASE /\ recorded' = recorded \cup {<<o.item, NoTurn>>} /\ UNCHANGED queueVars
             /\ accepted' = accepted \cup {<<o.item, NoTurn>>}
    <3>1. /\ todo' = todo \ {o} /\ UNCHANGED <<turnState, mailbox, staged, call, task>>
          /\ \A t \in Turn : <<o.item, t>> \notin accepted
      BY <1>s, <1>3, <2>3 DEF Inject, queueVars
    <3>2. \A i : At(i, "recorded", NoTurn)' => At(i, "recorded", NoTurn) \/ i = o.item
      BY <2>3 DEF At
    <3>3. \A i, t : <<i, t>> \in recorded' => NoTurn = t \/ <<i, t>> \in recorded
      BY <2>3
    <3>4. \A i : \A t \in Turn : <<i, t>> \in accepted' => <<i, t>> \in accepted
      BY <1>i, <2>3
    <3> QED
      BY <3>1, <3>2, <3>3, <3>4, SteerMoves
  <2> QED
    BY <1>3, <2>1, <2>2, <2>3 DEF Inject
<1>4. CASE LoopSpawn(o)
  <2>1. ASSUME NEW t \in Turn, Take(o),
               task' = [task EXCEPT ![t] =
                          NewTask(o.op, IF o.op = "Review" THEN {o.item} ELSE {})],
               call' = [call EXCEPT ![Loop].turn = t, ![Loop].ret = "idle"]
        PROVE  SteerInv'
    <3>1. \A a \in Actor : call'[a].items = call[a].items
      BY <2>1, Actors DEF TypeInv, CallTyped, CallType
    <3>2. /\ task'[t].items = IF o.op = "Review" THEN {o.item} ELSE {}
          /\ \A u \in Turn \ {t} : task'[u] = task[u]
      BY <2>1 DEF NewTask, TypeInv, TaskTyped
    <3>3. /\ todo' \subseteq todo
          /\ UNCHANGED <<turnState, mailbox, staged, recorded, accepted>>
      BY <1>4, <2>1 DEF LoopSpawn, Take, queueVars, itemVars
    <3>4. o.op = "Review" => \A u \in Turn : <<o.item, u>> \notin accepted
      BY <1>s, <2>1
    <3>5. \A i : At(i, "task", t)' => \A u \in Turn : <<i, u>> \notin accepted
      BY <3>2, <3>4 DEF At
    <3> QED
      BY <3>1, <3>2, <3>3, <3>5, SteerMoves
  <2>2. CASE /\ o.op = "Shell" /\ UNCHANGED <<task, call>>
             /\ todo' = (todo \ {o}) \cup {[op |-> "InjectOrRecord", item |-> o.item]}
    <3> DEFINE X == [op |-> "InjectOrRecord", item |-> o.item]
    <3>1. X.item = o.item /\ todo' = (todo \ {o}) \cup {X}
      BY <2>2
    <3> HIDE DEF X
    <3>2. \A i : At(i, "todo", X)' => i = o.item
      BY <3>1 DEF At
    <3>3. \A u \in Turn : <<o.item, u>> \notin accepted
      <4>1. At(o.item, "todo", o)
        BY <2>2 DEF At
      <4> QED
        BY <4>1, Unsteered
    <3>4. UNCHANGED <<turnState, mailbox, staged, call, task, recorded, accepted>>
      BY <1>4, <2>2 DEF LoopSpawn, queueVars, itemVars
    <3> QED
      BY <3>1, <3>2, <3>3, <3>4, SteerMoves
  <2> QED
    BY <1>4, <2>1, <2>2 DEF LoopSpawn
<1>5. CASE LoopMail(o) \/ LoopStage(o)
  <2>1. PICK K \in {"mailbox", "staged"} :
          /\ K = "mailbox" \/ mailbox' = mailbox
          /\ K = "staged" \/ staged' = staged
          /\ \A i : At(i, K, NoTurn)' => At(i, K, NoTurn) \/ i = o.item
    <3>1. CASE LoopMail(o)
      <4>1. mailbox' = mailbox \cup {o.item} /\ staged' = staged
        BY <3>1 DEF LoopMail
      <4>2. \A i : At(i, "mailbox", NoTurn)' => At(i, "mailbox", NoTurn) \/ i = o.item
        BY <4>1 DEF At
      <4> QED
        BY <4>1, <4>2
    <3>2. CASE LoopStage(o)
      <4>1. staged' = staged \cup {o.item} /\ mailbox' = mailbox
        BY <3>2 DEF LoopStage
      <4>2. \A i : At(i, "staged", NoTurn)' => At(i, "staged", NoTurn) \/ i = o.item
        BY <4>1 DEF At
      <4> QED
        BY <4>1, <4>2
    <3> QED
      BY <1>5, <3>1, <3>2
  <2>2. /\ todo' \subseteq todo /\ \A t \in Turn : <<o.item, t>> \notin accepted
        /\ UNCHANGED <<turnState, task, recorded>>
        /\ \A a \in Actor : call'[a].items = call[a].items
    BY <1>s, <1>5 DEF LoopMail, LoopStage, Take, TypeInv, CallTyped, CallType
  <2>3. \A i : \A t \in Turn : <<i, t>> \in accepted' => <<i, t>> \in accepted
    BY <1>i, <1>5 DEF LoopMail, LoopStage
  <2> QED
    BY <2>1, <2>2, <2>3, SteerMoves
<1>6. CASE LoopRelease(o)
  <2>1. /\ todo' \subseteq todo
        /\ mailbox' = mailbox \cup (staged \cap {o.item}) /\ staged' = staged \ {o.item}
        /\ UNCHANGED <<turnState, task, call, recorded, accepted>>
    BY <1>6 DEF LoopRelease, Take, itemVars
  <2>2. \A i : At(i, "mailbox", NoTurn)' => At(i, "mailbox", NoTurn) \/ At(i, "staged", NoTurn)
    BY <2>1 DEF At
  <2>3. \A i : At(i, "staged", NoTurn) => \A t \in Turn : <<i, t>> \notin accepted
    BY Unsteered
  <2> QED
    BY <2>1, <2>2, <2>3, SteerMoves
<1>7. CASE LoopStartPendingWork(o) \/ LoopInterrupt(o)
  <2>1. \A a \in Actor : call'[a].items = call[a].items
    BY <1>7 DEF LoopStartPendingWork, LoopInterrupt, TypeInv, CallTyped, CallType
  <2> QED
    BY <1>7, <2>1, SteerStays
    DEF LoopStartPendingWork, LoopInterrupt, Take, queueVars, itemVars
<1>8. CASE ExtIdleStart(o)
  <2>1. /\ Ext \in Actor /\ call'[Ext].items = {o.item}
        /\ \A a \in Actor \ {Ext} : call'[a] = call[a]
        /\ UNCHANGED <<turnState, mailbox, staged, task, recorded, accepted>>
    BY <1>8, Actors
    DEF ExtIdleStart, TypeInv, CallTyped, CallType, queueVars, itemVars
  <2>2. todo' \subseteq todo /\ \A t \in Turn : <<o.item, t>> \notin accepted
    BY <1>s, <1>8 DEF ExtIdleStart
  <2>3. \A i : At(i, "call", Ext)' => i = o.item
    BY <2>1 DEF At
  <2> QED
    BY <2>1, <2>2, <2>3, SteerMoves
<1> QED
  BY <1>1, <1>2, <1>3, <1>4, <1>5, <1>6, <1>7, <1>8 DEF Request

(* The loop takes mail for the turn it starts, and gives it to the turn.   *)
LEMMA SteerStarts ==
  ASSUME LoopStartsAlone, TypeInv, LoopInv, OwnStates, SteerInv, NEW a \in Actor,
         StartStep(a)
  PROVE  SteerInv'
<1> USE DEF queueVars, itemVars
<1>1. CASE MaybeCheck(a)
  BY <1>1, SteerStays DEF MaybeCheck
<1>2. CASE StartTake(a)
  <2>1. a = Loop /\ pc[Loop] = "start:take"
    BY <1>2, Actors DEF StartTake, LoopInv, OthersDoNotStart, Over, RunPoint, Actor
  <2>2. slot = NoSlot
    BY <2>1 DEF OwnStates
  <2>3. /\ call'[a].items \subseteq mailbox
        /\ \A b \in Actor \ {a} : call'[b] = call[b]
        /\ UNCHANGED <<todo, turnState, staged, task, recorded, accepted>>
        /\ mailbox' \subseteq mailbox
    BY <1>2, <2>2
    DEF StartTake, PendingInput, SlotPending, DrainPendingInput, TypeInv, CallTyped, CallType
  <2>4. \A i : At(i, "call", a)' => At(i, "mailbox", NoTurn)
    BY <2>3 DEF At
  <2>5. \A i : At(i, "mailbox", NoTurn) => \A t \in Turn : <<i, t>> \notin accepted
    BY Unsteered
  <2> QED
    BY <2>3, <2>4, <2>5, SteerMoves
<1>3. CASE StartAttach(a)
  <2>1. call[a].turn \in Turn
    BY <1>3 DEF StartAttach, StartPoint, TypeInv, StartKnows
  <2>2. PICK ts \in TurnStateId :
          turnState' = [turnState EXCEPT ![ts].pending = @ \cup call[a].items]
    BY <1>3, <2>1, TurnStateIds DEF StartAttach, TypeInv, SlotTyped
  <2>c. \A b \in Actor : call'[b].items \subseteq call[b].items
    BY <1>3 DEF StartAttach, TypeInv, CallTyped, CallType
  <2>3. /\ turnState'[ts].pending = turnState[ts].pending \cup call[a].items
        /\ \A x \in TurnStateId \ {ts} : turnState'[x] = turnState[x]
    BY <2>2 DEF TypeInv, QueuesTyped, QueueType
  <2>u. UNCHANGED <<todo, mailbox, staged, task, recorded, accepted>>
    BY <1>3 DEF StartAttach
  <2>4. \A i : At(i, "state", ts)' => At(i, "state", ts) \/ At(i, "call", a)
    BY <2>3 DEF At
  <2>5. \A i : At(i, "call", a) => \A t \in Turn : <<i, t>> \notin accepted
    BY Unsteered
  <2> QED
    BY <2>c, <2>3, <2>u, <2>4, <2>5, SteerMoves
<1>4. CASE StartInstall(a)
  <2>1. \A b \in Actor : call'[b].items \subseteq call[b].items
    BY <1>4 DEF StartInstall, TypeInv, CallTyped, CallType
  <2> QED
    BY <1>4, <2>1, SteerStays DEF StartInstall
<1> QED
  BY <1>1, <1>2, <1>3, <1>4, NeverReserves DEF StartStep

(* The input of a new turn is accepted, for that turn, when it is spawned. *)
LEMMA SteerLoop ==
  ASSUME TypeInv, OnePlace, SteerInv,
         LoopRouted \/ AbortTake \/ AbortCancel \/ AbortKill \/ AbortEvent \/ AbortClear
  PROVE  SteerInv'
<1> USE DEF queueVars, itemVars
<1>1. CASE LoopRouted
  <2> DEFINE t == call[Loop].turn
  <2>1. /\ \A b \in Actor : call'[b].items = call[b].items
        /\ \A u \in Turn : task'[u].items \subseteq task[u].items
        /\ UNCHANGED <<todo, turnState, mailbox, staged, recorded>> /\ t \in Turn
        /\ accepted' \subseteq accepted \cup (task[t].items \X {t})
    BY <1>1
    DEF LoopRouted, TypeInv, CallTyped, CallType, TaskTyped, TaskType, LoopKnows
  <2> HIDE DEF t
  <2>2. \A i, k, x : At(i, k, x)' => At(i, k, x)
    BY <2>1 DEF At
  <2>3. SUFFICES ASSUME NEW i, NEW u \in Turn, <<i, u>> \in accepted', NEW k, NEW x,
                        At(i, k, x)
                 PROVE  Fits(k, x, u)
    BY <2>2 DEF SteerInv, Fits, OwnState
  <2>4. CASE <<i, u>> \in accepted
    BY <2>3, <2>4 DEF SteerInv
  <2>5. CASE i \in task[t].items /\ u = t
    <3>1. At(i, "task", t)
      BY <2>1, <2>5 DEF At
    <3> QED
      BY <2>3, <2>5, <3>1 DEF OnePlace, Fits
  <2> QED
    BY <2>1, <2>3, <2>4, <2>5
<1>2. CASE AbortTake \/ AbortEvent
  BY <1>2, SteerStays DEF AbortTake, AbortEvent
<1>3. CASE AbortCancel \/ AbortKill
  <2>1. \A u \in Turn : task'[u].items \subseteq task[u].items
    BY <1>3 DEF AbortCancel, AbortKill, NewTask, TypeInv, TaskTyped, TaskType
  <2> QED
    BY <1>3, <2>1, SteerStays DEF AbortCancel, AbortKill
<1>4. CASE AbortClear
  <2>1. \A ts \in TurnStateId : turnState'[ts].pending \subseteq turnState[ts].pending
    BY <1>4 DEF AbortClear, NewTurnState, TypeInv, QueuesTyped
  <2> QED
    BY <1>4, <2>1, SteerStays DEF AbortClear
<1> QED
  BY <1>1, <1>2, <1>3, <1>4

(* A running task takes from its own TurnState, which run_turn does not    *)
(* check, and from the mailbox; it records what it took.                   *)
LEMMA SteerRuns ==
  ASSUME TypeInv, LoopInv, OwnStates, SteerInv, NEW t \in Turn, RunStep(t)
  PROVE  SteerInv'
<1> USE DEF queueVars, itemVars
<1>1. CASE TaskBegin(t) \/ TaskStop(t) \/ TaskAfterTurn(t) \/ TaskCheckCancelled(t)
  BY <1>1, SteerStays DEF TaskBegin, TaskStop, TaskAfterTurn, TaskCheckCancelled
<1>2. CASE TaskWork(t) \/ TaskPrepareFailed(t) \/ TaskAnswered(t) \/ TaskSampleFailed(t)
  <2>1. \A u \in Turn : task'[u].items \subseteq task[u].items
    BY <1>2 DEF TaskWork, TaskPrepareFailed, TaskAnswered, TaskSampleFailed, TypeInv,
                TaskTyped, TaskType
  <2> QED
    BY <1>2, <2>1, SteerStays
    DEF TaskWork, TaskPrepareFailed, TaskAnswered, TaskSampleFailed
<1>3. CASE TaskPrepare(t) \/ TaskRecord(t)
  <2>1. /\ task'[t].items = {} /\ \A u \in Turn \ {t} : task'[u] = task[u]
        /\ UNCHANGED <<todo, turnState, mailbox, staged, call, accepted>>
    BY <1>3 DEF TaskPrepare, TaskRecord, TypeInv, TaskTyped, TaskType
  <2>2. PICK some \in SUBSET task[t].items : recorded' = recorded \cup (some \X {t})
    BY <1>3 DEF TaskPrepare, TaskRecord, RecordInputs
  <2>3. \A i : At(i, "recorded", t)' => At(i, "recorded", t) \/ At(i, "task", t)
    BY <2>2 DEF At
  <2>4. \A i : At(i, "task", t) =>
          \A u \in Turn : <<i, u>> \in accepted => Fits("recorded", t, u)
    BY DEF SteerInv, Fits
  <2>5. \A i, u : <<i, u>> \in recorded' => t = u \/ <<i, u>> \in recorded
    BY <2>2
  <2> QED
    BY <2>1, <2>3, <2>4, <2>5, SteerMoves
<1>4. CASE TaskDrain(t)
  <2>1. CASE UNCHANGED <<task, queueVars>>
    BY <1>4, <2>1, SteerStays DEF TaskDrain
  <2>2. CASE task' = [task EXCEPT ![t].items = PendingInput] /\ DrainPendingInput
    <3>1. /\ task'[t].items = PendingInput
          /\ \A u \in Turn \ {t} : task'[u] = task[u]
          /\ UNCHANGED <<todo, call, recorded, accepted>>
      BY <1>4, <2>2 DEF TaskDrain, TypeInv, TaskTyped, TaskType
    <3>2. slot = NoSlot \/ slot.ts = OwnState(t)
      <4>1. Running(t)
        BY <1>4 DEF TaskDrain, Running, RunPoint
      <4>2. slot.task = t \/ Aborting(t)
        BY <4>1 DEF LoopInv, SlotHoldsRunningTask
      <4>3. slot.task = t => slot.ts = OwnState(t)
        BY Actors DEF OwnStates
      <4>4. Aborting(t) => slot = NoSlot
        BY DEF OwnStates, Aborting
      <4> QED
        BY <4>2, <4>3, <4>4
    <3>3. \A i \in PendingInput : i \in mailbox \/ i \in turnState[OwnState(t)].pending
      BY <3>2 DEF PendingInput, SlotPending
    <3>4. \A i : At(i, "task", t)' => At(i, "mailbox", NoTurn) \/ At(i, "state", OwnState(t))
      BY <3>1, <3>3, TurnStateIds DEF At, OwnState
    <3>5. \A i : At(i, "mailbox", NoTurn) => \A u \in Turn : <<i, u>> \notin accepted
      BY Unsteered
    <3>6. \A i : At(i, "state", OwnState(t)) =>
            \A u \in Turn : <<i, u>> \in accepted => Fits("task", t, u)
      BY DEF SteerInv, Fits, OwnState
    <3> QED
      BY <2>2, <3>1, <3>4, <3>5, <3>6, DrainTakes, SteerMoves
  <2> QED
    BY <1>4, <2>1, <2>2 DEF TaskDrain
<1>5. CASE TaskStream(t) \/ TaskFollowUp(t) \/ TaskStopBlocked(t)
  <2>1. \A ts \in TurnStateId : turnState'[ts].pending = turnState[ts].pending
    BY <1>5
    DEF TaskStream, TaskFollowUp, TaskStopBlocked, AcceptMailbox, DeferMailbox, TypeInv,
        QueuesTyped, QueueType
  <2>2. \A u \in Turn : task'[u].items = task[u].items
    BY <1>5 DEF TaskStream, TaskFollowUp, TaskStopBlocked, TypeInv, TaskTyped, TaskType
  <2> QED
    BY <1>5, <2>1, <2>2, SteerStays DEF TaskStream, TaskFollowUp, TaskStopBlocked
<1> QED
  BY <1>1, <1>2, <1>3, <1>4, <1>5 DEF RunStep

LEMMA SteerFinishes ==
  ASSUME TypeInv, OwnStates, SteerInv, NEW t \in Turn, FinishStep(t)
  PROVE  SteerInv'
<1> USE DEF queueVars, itemVars
<1>1. CASE FinishTake(t) \/ FinishClear(t)
  <2>1. \A u \in Turn : task'[u].items \subseteq task[u].items
    BY <1>1 DEF FinishTake, FinishClear, NewTask, TypeInv, TaskTyped, TaskType
  <2>2. \A ts \in TurnStateId : turnState'[ts].pending \subseteq turnState[ts].pending
    BY <1>1 DEF FinishTake, FinishClear, NewTurnState, TypeInv, QueuesTyped
  <2> QED
    BY <1>1, <2>1, <2>2, SteerStays DEF FinishTake, FinishClear
<1>2. CASE FinishRecord(t)
  <2>1. task[t].ts = OwnState(t)
    BY <1>2 DEF FinishRecord, OwnStates, FinishPoint
  <2>2. /\ \A x \in TurnStateId : turnState'[x].pending \subseteq turnState[x].pending
        /\ UNCHANGED <<todo, mailbox, staged, call, task, accepted>>
    BY <1>2 DEF FinishRecord, TypeInv, QueuesTyped, QueueType
  <2>3. PICK some \in SUBSET turnState[OwnState(t)].pending :
          recorded' = recorded \cup (some \X {t})
    BY <1>2, <2>1 DEF FinishRecord
  <2>4. \A i : At(i, "recorded", t)' => At(i, "recorded", t) \/ At(i, "state", OwnState(t))
    BY <2>3, TurnStateIds DEF At, OwnState
  <2>5. \A i : At(i, "state", OwnState(t)) =>
          \A u \in Turn : <<i, u>> \in accepted => Fits("recorded", t, u)
    BY DEF SteerInv, Fits, OwnState
  <2>6. \A i, u : <<i, u>> \in recorded' => t = u \/ <<i, u>> \in recorded
    BY <2>3
  <2> QED
    BY <2>2, <2>4, <2>5, <2>6, SteerMoves
<1>3. CASE FinishEvent(t)
  BY <1>3, SteerStays DEF FinishEvent
<1>4. CASE FinishWake(t)
  <2>1. \A a \in Actor : call'[a].items = call[a].items
    BY <1>4 DEF FinishWake, TypeInv, CallTyped, CallType
  <2> QED
    BY <1>4, <2>1, SteerStays DEF FinishWake
<1>5. CASE FinishIdle(t)
  <2>1. CASE UNCHANGED <<todo, call>>
    BY <1>5, <2>1, SteerStays DEF FinishIdle
  <2>2. ASSUME NEW o \in todo, o.op = "IdleStart", Take(o),
               call' = [call EXCEPT ![t].items = {o.item}, ![t].ret = "finish:wake"]
        PROVE  SteerInv'
    <3>1. /\ t \in Actor /\ call'[t].items = {o.item}
          /\ \A a \in Actor \ {t} : call'[a] = call[a]
      BY <2>2, Actors DEF TypeInv, CallTyped, CallType
    <3>2. /\ todo' \subseteq todo
          /\ UNCHANGED <<turnState, mailbox, staged, task, recorded, accepted>>
      BY <1>5, <2>2 DEF FinishIdle, Take
    <3>3. \A u \in Turn : <<o.item, u>> \notin accepted
      <4>1. At(o.item, "todo", o)
        BY <2>2 DEF At, Carrier
      <4> QED
        BY <4>1, Unsteered
    <3>4. \A i : At(i, "call", t)' => i = o.item
      BY <3>1 DEF At
    <3> QED
      BY <3>1, <3>2, <3>3, <3>4, SteerMoves
  <2> QED
    BY <1>5, <2>1, <2>2 DEF FinishIdle
<1> QED
  BY <1>1, <1>2, <1>3, <1>4, <1>5 DEF FinishStep

LEMMA SteerStep ==
  ASSUME LoopStartsAlone, TypeInv, LoopInv, OnePlace, OwnStates, SteerInv, [Next]_vars
  PROVE  SteerInv'
<1>1. CASE UNCHANGED vars
  BY <1>1, SteerStays DEF vars, queueVars, itemVars
<1>2. CASE LoopStep
  BY <1>2, SteerLoop, SteerStarts, Actors DEF LoopStep
<1>3. ASSUME NEW t \in Turn, TaskStep(t) PROVE SteerInv'
  BY <1>3, SteerRuns, SteerFinishes, SteerStarts, Actors DEF TaskStep
<1> QED
  BY <1>1, <1>2, <1>3, SteerRequests, SteerStarts, Actors DEF Next

(* Where the loop starts every turn and every item is brought by one       *)
(* request, user input is recorded by the turn whose id steer_input        *)
(* returned, although run_turn drains whatever turn is in the slot: that   *)
(* slot is the task's own, or is empty because the task is being aborted.  *)
THEOREM InputIsSteeredIntoItsTurn ==
  ASSUME LoopStartsAlone, ItemsBroughtOnce
  PROVE  Spec => []SteeredIntoItsTurn
<1> DEFINE Inv == TypeInv /\ LoopInv /\ OnePlace /\ OwnStates /\ SteerInv
<1>1. Inv /\ [Next]_vars => Inv'
  BY TypeStep, SlotStep, ItemStep, OwnStep, SteerStep
<1>2. Init => Inv
  BY TypeInit, SlotInit, ItemInit, OwnInit DEF SteerInv, Init
<1>3. Inv => SteeredIntoItsTurn
  <2> SUFFICES ASSUME TypeInv, SteerInv, NEW p \in accepted, NEW q \in recorded,
                      p[1] = q[1], p[2] # NoTurn
               PROVE  p[2] = q[2]
    BY DEF SteeredIntoItsTurn
  <2>1. p[2] \in Turn /\ p = <<p[1], p[2]>> /\ q = <<q[1], q[2]>>
    BY DEF TypeInv, ItemsTyped
  <2>2. At(q[1], "recorded", q[2])
    BY <2>1 DEF At
  <2>3. Fits("recorded", q[2], p[2])
    BY <2>1, <2>2 DEF SteerInv
  <2> QED
    BY <2>3 DEF Fits
<1> HIDE DEF Inv
<1> QED
  BY <1>1, <1>2, <1>3, PTL DEF Spec

-----------------------------------------------------------------------------
(* Nothing is lost: whose hands are full                                   *)

(* A task holds items only before it records them; only regular tasks run  *)
(* turns; the loop holds items only between its two steps on the queue.    *)
HandPoint == {"queued", "begin", "prepare", "work", "record"}

Hand(t) ==
    /\ task[t].items # {} => pc[t] \in HandPoint
    /\ pc[t] \in RegularPoint => task[t].kind = "Regular"
    /\ pc[t] = "work" => task[t].kind # "Regular"

HandsInv ==
    /\ \A t \in Turn : Hand(t)
    /\ pc[Loop] # "start:attach" => call[Loop].items = {}

LEMMA HandsFrame ==
  ASSUME HandsInv,
         \A t \in Turn : \/ Hand(t)'
                         \/ /\ pc'[t] = pc[t] /\ task'[t].kind = task[t].kind
                            /\ task'[t].items \subseteq task[t].items,
         pc'[Loop] # "start:attach" => call'[Loop].items = {}
  PROVE  HandsInv'
<1>1. ASSUME NEW t \in Turn PROVE Hand(t)'
  BY <1>1 DEF HandsInv, Hand
<1> QED
  BY <1>1 DEF HandsInv

LEMMA HandsRequests ==
  ASSUME TypeInv, LoopInv, HandsInv, NEW o \in todo, Request(o)
  PROVE  HandsInv'
<1>l. pc[Loop] = "idle" => call[Loop].items = {}
  BY DEF HandsInv
<1>1. CASE Steer(o) \/ CancelSteer(o) \/ Inject(o) \/ LoopStage(o) \/ LoopRelease(o)
  <2>1. UNCHANGED <<pc, task, call>>
    BY <1>1 DEF Steer, CancelSteer, Inject, LoopStage, LoopRelease
  <2> QED
    BY <2>1 DEF HandsInv, Hand
<1>2. CASE LoopMail(o) \/ LoopStartPendingWork(o) \/ LoopInterrupt(o)
  <2>1. pc[Loop] = "idle" /\ task' = task /\ \A t \in Turn : pc'[t] = pc[t]
    BY <1>2, Actors
    DEF LoopMail, LoopStartPendingWork, LoopInterrupt, Goto, TypeInv, PcTyped
  <2>2. call'[Loop].items = call[Loop].items
    BY <1>2, Actors
    DEF LoopMail, LoopStartPendingWork, LoopInterrupt, TypeInv, CallTyped, CallType
  <2> QED
    BY <1>l, <2>1, <2>2, HandsFrame
<1>3. CASE ExtIdleStart(o)
  BY <1>3 DEF ExtIdleStart, LoopInv, StartsOnly
<1>4. CASE LoopUserInput(o) \/ LoopSpawn(o)
  <2>1. CASE UNCHANGED <<pc, call, task>>
    BY <2>1 DEF HandsInv, Hand
  <2>2. ASSUME NEW t \in Turn, NEW p, p # "start:attach",
               pc' = [pc EXCEPT ![t] = "queued", ![Loop] = p],
               \A u \in Turn \ {t} : task'[u] = task[u],
               call'[Loop].items = call[Loop].items
        PROVE  HandsInv'
    <3>1. pc'[t] = "queued" /\ \A u \in Turn \ {t} : pc'[u] = pc[u]
      BY <2>2, Actors DEF TypeInv, PcTyped
    <3>2. pc[Loop] = "idle"
      BY <1>4 DEF LoopUserInput, LoopSpawn
    <3>3. Hand(t)'
      BY <3>1 DEF Hand, HandPoint, RegularPoint
    <3> QED
      BY <1>l, <2>2, <3>1, <3>2, <3>3, HandsFrame
  <2>3. CASE LoopUserInput(o)
    <3>1. ASSUME NEW t \in Turn, NewTurn(Loop, t, "Regular", {o.item}, "route")
          PROVE  HandsInv'
      <4>1. /\ call'[Loop].items = call[Loop].items
            /\ \A u \in Turn \ {t} : task'[u] = task[u]
        BY <3>1, Actors DEF NewTurn, TypeInv, CallTyped, CallType, TaskTyped
      <4> QED
        BY <2>2, <3>1, <4>1 DEF NewTurn
    <3> QED
      BY <2>1, <2>3, <3>1 DEF LoopUserInput
  <2>4. CASE LoopSpawn(o)
    <3>1. ASSUME NEW t \in Turn, NEW x,
                 pc' = [pc EXCEPT ![t] = "queued", ![Loop] = "abort:take"],
                 task' = [task EXCEPT ![t] = x],
                 call' = [call EXCEPT ![Loop].turn = t, ![Loop].ret = "idle"]
          PROVE  HandsInv'
      <4>1. /\ call'[Loop].items = call[Loop].items
            /\ \A u \in Turn \ {t} : task'[u] = task[u]
        BY <3>1, Actors DEF TypeInv, CallTyped, CallType, TaskTyped
      <4> QED
        BY <2>2, <3>1, <4>1
    <3> QED
      BY <2>1, <2>4, <3>1 DEF LoopSpawn
  <2> QED
    BY <1>4, <2>3, <2>4
<1> QED
  BY <1>1, <1>2, <1>3, <1>4 DEF Request

LEMMA HandsStarts ==
  ASSUME LoopStartsAlone, TypeInv, LoopInv, HandsInv, NEW a \in Actor, StartStep(a)
  PROVE  HandsInv'
<1>r. call[a].ret \in {"idle", "exited", "finish:wake", "done"}
  BY CallFields DEF TypeInv, CallTyped
<1>a. pc[a] \in StartPoint => a = Loop
  BY DEF LoopInv, OthersDoNotStart, Over, RunPoint, StartPoint, Actor
<1>1. CASE MaybeCheck(a)
  <2>1. pc'[a] = call[a].ret /\ \A b \in Actor \ {a} : pc'[b] = pc[b]
    BY <1>1, NoTriggerMail DEF MaybeCheck, Return, Goto, TypeInv, PcTyped
  <2>2. UNCHANGED <<call, task>> /\ pc[a] = "maybe:check"
    BY <1>1 DEF MaybeCheck
  <2>3. a \in Turn => Hand(a)'
    BY <1>r, <2>1, <2>2 DEF HandsInv, Hand, HandPoint, RegularPoint
  <2> QED
    BY <1>r, <2>1, <2>2, <2>3, HandsFrame, Actors DEF HandsInv
<1>2. CASE StartTake(a)
  <2>1. a = Loop /\ task' = task /\ pc'[Loop] = "start:attach"
        /\ \A t \in Turn : pc'[t] = pc[t]
    BY <1>a, <1>2, Actors DEF StartTake, Goto, StartPoint, TypeInv, PcTyped
  <2> QED
    BY <2>1, HandsFrame
<1>3. CASE StartAttach(a)
  <2>1. a = Loop /\ task' = task /\ \A t \in Turn : pc'[t] = pc[t]
    BY <1>a, <1>3, Actors DEF StartAttach, Goto, StartPoint, TypeInv, PcTyped
  <2>2. call'[Loop].items = {}
    BY <1>3, <2>1, Actors DEF StartAttach, TypeInv, CallTyped, CallType
  <2> QED
    BY <2>1, <2>2, HandsFrame
<1>4. CASE StartInstall(a)
  <2>1. a = Loop /\ pc[Loop] = "start:install" /\ task' = task
    BY <1>a, <1>4 DEF StartInstall, StartPoint
  <2>t. PICK t \in Turn : t = call[Loop].turn
    BY <2>1, Actors DEF StartPoint, TypeInv, StartKnows
  <2>2. slot.task = NoTurn
    BY <2>1 DEF LoopInv, LoopOwnsSlot, StartPoint
  <2>3. pc'[t] = "begin" /\ \A u \in Turn \ {t} : pc'[u] = pc[u]
    BY <1>4, <2>1, <2>2, <2>t, Actors DEF StartInstall
  <2>4. call'[Loop].items = {}
    BY <1>4, <2>1, Actors DEF StartInstall, HandsInv, TypeInv, CallTyped, CallType
  <2>5. Hand(t)'
    BY <2>3 DEF Hand, HandPoint, RegularPoint
  <2> QED
    BY <2>1, <2>3, <2>4, <2>5, HandsFrame
<1> QED
  BY <1>1, <1>2, <1>3, <1>4, NeverReserves DEF StartStep

LEMMA HandsLoop ==
  ASSUME TypeInv, LoopInv, HandsInv,
         LoopRouted \/ AbortTake \/ AbortCancel \/ AbortKill \/ AbortEvent \/ AbortClear
  PROVE  HandsInv'
<1> USE DEF AbortPoint
<1>l. pc[Loop] # "start:attach" => call[Loop].items = {}
  BY DEF HandsInv
<1>r. call[Loop].ret \in {"idle", "exited"}
  BY DEF LoopInv, OthersDoNotStart
<1>1. CASE LoopRouted
  <2>1. pc[Loop] = "route"
    BY <1>1 DEF LoopRouted
  <2>t. PICK t \in Turn : t = call[Loop].turn
    BY <2>1 DEF TypeInv, LoopKnows
  <2>2. call'[Loop].items = call[Loop].items
    BY <1>1, Actors DEF LoopRouted, TypeInv, CallTyped, CallType
  <2>3. CASE Goto(Loop, "abort:take") /\ UNCHANGED task
    <3>1. \A u \in Turn : pc'[u] = pc[u]
      BY <2>3, Actors DEF Goto, TypeInv, PcTyped
    <3> QED
      BY <1>l, <2>1, <2>2, <2>3, <3>1, HandsFrame
  <2>4. CASE /\ pc' = [pc EXCEPT ![Loop] = "idle", ![t] = "rejected"]
             /\ task' = [task EXCEPT ![t].items = {}]
    <3>1. /\ pc'[t] = "rejected" /\ task'[t].items = {}
          /\ \A u \in Turn \ {t} : pc'[u] = pc[u] /\ task'[u] = task[u]
      BY <2>1, <2>4, Actors DEF TypeInv, PcTyped, TaskTyped, TaskType
    <3>2. Hand(t)'
      BY <3>1 DEF Hand, RegularPoint
    <3> QED
      BY <1>l, <2>1, <2>2, <3>1, <3>2, HandsFrame
  <2> QED
    BY <1>1, <2>3, <2>4, <2>t DEF LoopRouted
<1>2. CASE AbortTake \/ AbortEvent \/ AbortClear
  <2>1. UNCHANGED <<call, task>> /\ \A t \in Turn : pc'[t] = pc[t]
    BY <1>2, Actors DEF AbortTake, AbortEvent, AbortClear, Goto, TypeInv, PcTyped
  <2>2. pc[Loop] # "start:attach"
    BY <1>2 DEF AbortTake, AbortEvent, AbortClear
  <2> QED
    BY <1>l, <2>1, <2>2, HandsFrame
<1>3. CASE AbortCancel
  <2>1. pc[Loop] = "abort:cancel" /\ call' = call /\ abort.victim \in Turn
    BY <1>3 DEF AbortCancel, TypeInv, LoopKnows
  <2>2. \A t \in Turn : pc'[t] = pc[t]
    BY <1>3, <2>1, Actors DEF AbortCancel, LoopInv, VictimNotCancelled, TypeInv, PcTyped
  <2>3. \A t \in Turn : task'[t].kind = task[t].kind /\ task'[t].items = task[t].items
    BY <1>3 DEF AbortCancel, TypeInv, TaskTyped, TaskType
  <2> QED
    BY <1>l, <2>1, <2>2, <2>3, HandsFrame
<1>4. CASE AbortKill
  <2>1. pc[Loop] = "abort:kill" /\ call' = call
    BY <1>4 DEF AbortKill
  <2>v. PICK v \in Turn : v = abort.victim
    BY <2>1 DEF TypeInv, LoopKnows
  <2>2. pc'[v] \in {"done", "killed"} /\ task'[v].items = {}
    BY <1>4, <2>v, Actors DEF AbortKill, NewTask, TypeInv, PcTyped, TaskTyped
  <2>3. \A u \in Turn \ {v} : pc'[u] = pc[u] /\ task'[u] = task[u]
    BY <1>4, <2>v, Actors DEF AbortKill, TypeInv, PcTyped, TaskTyped
  <2>4. Hand(v)'
    BY <2>2 DEF Hand, RegularPoint
  <2> QED
    BY <1>l, <2>1, <2>3, <2>4, HandsFrame
<1> QED
  BY <1>1, <1>2, <1>3, <1>4

LEMMA HandsTasks ==
  ASSUME TypeInv, LoopInv, HandsInv, NEW t \in Turn, RunStep(t) \/ FinishStep(t)
  PROVE  HandsInv'
<1> USE DEF HandPoint, RegularPoint
<1>h. Hand(t)
  BY DEF HandsInv
<1>0. ASSUME NEW p, Goto(t, p)
      PROVE  pc'[t] = p /\ pc'[Loop] = pc[Loop] /\ \A u \in Turn \ {t} : pc'[u] = pc[u]
  BY <1>0, Actors DEF Goto, TypeInv, PcTyped
<1>1. ASSUME NEW p, Goto(t, p), \A u \in Turn \ {t} : task'[u] = task[u], Hand(t)',
             call'[Loop].items = call[Loop].items
      PROVE  HandsInv'
  BY <1>0, <1>1, HandsFrame DEF HandsInv
<1>2. CASE TaskStream(t)
  <2>1. UNCHANGED <<pc, task, call>>
    BY <1>2 DEF TaskStream
  <2> QED
    BY <2>1 DEF HandsInv, Hand
<1>3. CASE TaskBegin(t)
  <2>1. PICK p : Goto(t, p) /\ p = IF task[t].kind = "Regular" THEN "prepare" ELSE "work"
    BY <1>3 DEF TaskBegin
  <2>2. UNCHANGED <<task, call>>
    BY <1>3 DEF TaskBegin
  <2>3. Hand(t)'
    BY <1>0, <2>1, <2>2 DEF Hand
  <2> QED
    BY <1>1, <2>1, <2>2, <2>3
<1>4. CASE TaskWork(t) \/ TaskPrepare(t) \/ TaskPrepareFailed(t) \/ TaskRecord(t)
  <2>1. /\ task'[t].items = {} /\ task'[t].kind = task[t].kind
        /\ \A u \in Turn \ {t} : task'[u] = task[u]
    BY <1>4
    DEF TaskWork, TaskPrepare, TaskPrepareFailed, TaskRecord, TypeInv, TaskTyped, TaskType
  <2>2. PICK p \in {"flush", "after", "drain", "sample"} :
          Goto(t, p) /\ (pc[t] = "work" => p = "flush")
    BY <1>4 DEF TaskWork, TaskPrepare, TaskPrepareFailed, TaskRecord, RecordInputs
  <2>3. pc[t] \in {"work", "prepare", "record"} /\ call' = call
    BY <1>4 DEF TaskWork, TaskPrepare, TaskPrepareFailed, TaskRecord
  <2>4. Hand(t)'
    BY <1>h, <1>0, <2>1, <2>2, <2>3 DEF Hand
  <2> QED
    BY <1>1, <2>1, <2>2, <2>3, <2>4
<1>5. CASE TaskDrain(t)
  <2>1. task'[t].kind = task[t].kind /\ \A u \in Turn \ {t} : task'[u] = task[u]
    BY <1>5 DEF TaskDrain, TypeInv, TaskTyped, TaskType
  <2>2. Goto(t, "record") /\ pc[t] = "drain" /\ call' = call
    BY <1>5 DEF TaskDrain
  <2>3. Hand(t)'
    BY <1>h, <1>0, <2>1, <2>2 DEF Hand
  <2> QED
    BY <1>1, <2>1, <2>2, <2>3
<1>6. CASE \/ TaskFollowUp(t) \/ TaskAnswered(t) \/ TaskSampleFailed(t) \/ TaskStop(t)
           \/ TaskStopBlocked(t) \/ TaskAfterTurn(t) \/ TaskCheckCancelled(t)
  <2>1. CASE TaskFollowUp(t) \/ TaskAnswered(t) \/ TaskSampleFailed(t)
    <3>1. /\ task'[t].kind = task[t].kind /\ task'[t].items = task[t].items
          /\ \A u \in Turn \ {t} : task'[u] = task[u]
      BY <2>1 DEF TaskFollowUp, TaskAnswered, TaskSampleFailed, TypeInv, TaskTyped, TaskType
    <3>2. PICK p \in {"drain", "stop", "after", "flush"} : Goto(t, p)
      BY <2>1 DEF TaskFollowUp, TaskAnswered, TaskSampleFailed
    <3>3. pc[t] = "sample" /\ call' = call
      BY <2>1 DEF TaskFollowUp, TaskAnswered, TaskSampleFailed
    <3>4. Hand(t)'
      BY <1>h, <1>0, <3>1, <3>2, <3>3 DEF Hand
    <3> QED
      BY <1>1, <3>1, <3>2, <3>3, <3>4
  <2>2. CASE TaskStop(t) \/ TaskStopBlocked(t) \/ TaskAfterTurn(t) \/ TaskCheckCancelled(t)
    <3>1. PICK p \in {"drain", "after", "prepare", "flush", "done", "finish:take"} :
            Goto(t, p) /\ (pc[t] = "flush" => p \in {"done", "finish:take"})
      BY <2>2 DEF TaskStop, TaskStopBlocked, TaskAfterTurn, TaskCheckCancelled
    <3>2. pc[t] \in {"stop", "after", "flush"} /\ UNCHANGED <<call, task>>
      BY <2>2 DEF TaskStop, TaskStopBlocked, TaskAfterTurn, TaskCheckCancelled
    <3>3. Hand(t)'
      BY <1>h, <1>0, <3>1, <3>2 DEF Hand
    <3> QED
      BY <1>1, <3>1, <3>2, <3>3
  <2> QED
    BY <1>6, <2>1, <2>2
<1>7. CASE FinishStep(t)
  <2>1. pc[t] \notin HandPoint
    BY <1>7 DEF FinishStep, FinishTake, FinishRecord, FinishEvent, FinishClear, FinishIdle,
                FinishWake
  <2>2. PICK p \in {"done", "finish:record", "finish:event", "finish:clear", "finish:idle",
                    "finish:wake", "try:check", "maybe:check"} : Goto(t, p)
    BY <1>7 DEF FinishStep, FinishTake, FinishRecord, FinishEvent, FinishClear, FinishIdle,
                FinishWake
  <2>3. \A u \in Turn \ {t} : task'[u] = task[u]
    BY <1>7 DEF FinishStep, FinishTake, FinishRecord, FinishEvent, FinishClear, FinishIdle,
                FinishWake, TypeInv, TaskTyped
  <2>4. task'[t].items = {}
    <3>1. task[t].items = {}
      BY <1>h, <2>1 DEF Hand
    <3> QED
      BY <1>7, <3>1
      DEF FinishStep, FinishTake, FinishRecord, FinishEvent, FinishClear, FinishIdle,
          FinishWake, NewTask, TypeInv, TaskTyped, TaskType
  <2>5. call'[Loop].items = call[Loop].items
    BY <1>7, Actors
    DEF FinishStep, FinishTake, FinishRecord, FinishEvent, FinishClear, FinishIdle,
        FinishWake, TypeInv, CallTyped
  <2>6. Hand(t)'
    BY <1>0, <2>2, <2>4 DEF Hand
  <2> QED
    BY <1>1, <2>2, <2>3, <2>5, <2>6
<1> QED
  BY <1>2, <1>3, <1>4, <1>5, <1>6, <1>7 DEF RunStep

LEMMA HandsStep ==
  ASSUME LoopStartsAlone, TypeInv, LoopInv, HandsInv, [Next]_vars
  PROVE  HandsInv'
<1>1. CASE UNCHANGED vars
  BY <1>1 DEF vars, HandsInv, Hand
<1>2. CASE LoopStep
  BY <1>2, HandsLoop, HandsStarts, Actors DEF LoopStep
<1>3. ASSUME NEW t \in Turn, TaskStep(t) PROVE HandsInv'
  BY <1>3, HandsTasks, HandsStarts, Actors DEF TaskStep
<1> QED
  BY <1>1, <1>2, <1>3, HandsRequests, HandsStarts, Actors DEF Next

-----------------------------------------------------------------------------
(* Nothing is lost: what comes late                                        *)

Precious == UserItem \cup TriggerMail \cup QueueMail

Injected == {"InjectIfRunning", "InjectOrRecord", "Shell"}

(* What is injected may be dropped, so it has to be told apart from what   *)
(* users and agents send.                                                  *)
InjectedApart == \A o \in Op : o.op \in Injected => o.item \notin Precious

LatePoint == {"finish:event", "finish:clear"}

(* A slot without a task belongs to the loop that fills it or to the task  *)
(* that finishes; past its last look at the queue that task's TurnState    *)
(* has nothing precious.                                                   *)
LateInv ==
    /\ \A o \in todo : o.op \in Injected => o.item \notin Precious
    /\ slot # NoSlot /\ slot.task = NoTurn =>
         \/ pc[Loop] = "start:install"
         \/ \E t \in Turn : pc[t] \in FinishPoint /\ slot.ts = OwnState(t)
    /\ \A t \in Turn : pc[t] \in LatePoint =>
         \A i \in turnState[OwnState(t)].pending : i \notin Precious

LEMMA LateFrame ==
  ASSUME LateInv,
         \A o \in todo' : o.op \in Injected => o \in todo \/ o.item \notin Precious,
         slot' \in {slot, NoSlot},
         pc[Loop] = "start:install" => pc'[Loop] = "start:install",
         \A t \in Turn : pc[t] \in FinishPoint => pc'[t] \in FinishPoint,
         \A t \in Turn : pc'[t] \in LatePoint =>
           /\ pc[t] \in LatePoint
           /\ \A i \in turnState'[OwnState(t)].pending :
                i \in turnState[OwnState(t)].pending \/ i \notin Precious
  PROVE  LateInv'
<1>1. \A o \in todo' : o.op \in Injected => o.item \notin Precious
  BY DEF LateInv
<1>2. slot' # NoSlot /\ slot'.task = NoTurn =>
        \/ pc'[Loop] = "start:install"
        \/ \E t \in Turn : pc'[t] \in FinishPoint /\ slot'.ts = OwnState(t)
  BY DEF LateInv
<1>3. \A t \in Turn : pc'[t] \in LatePoint =>
        \A i \in turnState'[OwnState(t)].pending : i \notin Precious
  BY DEF LateInv
<1> QED
  BY <1>1, <1>2, <1>3 DEF LateInv, OwnState

(* Input for the slot's task comes in time.                                *)
LEMMA AddsInTime ==
  ASSUME TypeInv, LoopInv, OwnStates, NEW i, NEW turn, AddToSlot(i, turn),
         slot # NoSlot, slot.task # NoTurn \/ i \notin Precious,
         NEW t \in Turn, pc[t] \in LatePoint
  PROVE  \A j \in turnState'[OwnState(t)].pending :
           j \in turnState[OwnState(t)].pending \/ j \notin Precious
<1>1. slot.ts \in TurnStateId
  BY DEF TypeInv, SlotTyped
<1>2. /\ turnState'[slot.ts].pending = turnState[slot.ts].pending \cup {i}
      /\ \A ts \in TurnStateId \ {slot.ts} : turnState'[ts] = turnState[ts]
  BY <1>1 DEF AddToSlot, TypeInv, QueuesTyped, QueueType
<1>3. slot.task # NoTurn => slot.ts # OwnState(t)
  <2> SUFFICES ASSUME slot.task # NoTurn, slot.ts = OwnState(t) PROVE FALSE
    OBVIOUS
  <2>1. slot.task = t
    BY DEF OwnStates, OwnState
  <2> QED
    BY <2>1 DEF LoopInv, SlotHoldsRunningTask, Running, RunPoint, LatePoint
<1>4. OwnState(t) \in TurnStateId
  BY TurnStateIds DEF OwnState
<1> QED
  BY <1>1, <1>2, <1>3, <1>4

LEMMA LateRequests ==
  ASSUME TypeInv, LoopInv, OwnStates, LateInv, NEW o \in todo, Request(o)
  PROVE  LateInv'
<1> USE DEF LatePoint, FinishPoint
<1>1. ASSUME todo' \subseteq todo, UNCHANGED <<pc, slot>>,
             UNCHANGED turnState
             \/ \E turn : /\ AddToSlot(o.item, turn) /\ slot # NoSlot
                          /\ slot.task # NoTurn \/ o.item \notin Precious
      PROVE  LateInv'
  <2>1. CASE UNCHANGED turnState
    BY <1>1, <2>1, LateFrame
  <2>2. ASSUME NEW turn, AddToSlot(o.item, turn), slot # NoSlot,
               slot.task # NoTurn \/ o.item \notin Precious
        PROVE  LateInv'
    <3>1. \A t \in Turn : pc[t] \in LatePoint =>
            \A i \in turnState'[OwnState(t)].pending :
              i \in turnState[OwnState(t)].pending \/ i \notin Precious
      BY <2>2, AddsInTime
    <3> QED
      BY <1>1, <3>1, LateFrame
  <2> QED
    BY <1>1, <2>1, <2>2
<1>2. CASE Steer(o) \/ Inject(o)
  <2>1. Steer(o) =>
          \/ Steerable /\ AddToSlot(o.item, slot.task)
          \/ UNCHANGED turnState
    BY DEF Steer, queueVars
  <2>2. Inject(o) => \/ slot # NoSlot /\ AddToSlot(o.item, NoTurn) /\ o.item \notin Precious
                     \/ UNCHANGED turnState
    BY DEF Inject, queueVars, LateInv, Injected
  <2>3. Steerable => slot # NoSlot /\ slot.task # NoTurn
    BY DEF Steerable, SteerTarget, NoSlot
  <2>4. todo' \subseteq todo /\ UNCHANGED <<pc, slot>>
    BY <1>2 DEF Steer, Inject, Take
  <2> QED
    BY <1>1, <1>2, <2>1, <2>2, <2>3, <2>4
<1>3. CASE CancelSteer(o) \/ LoopStage(o) \/ LoopRelease(o)
  <2>1. \A ts \in TurnStateId : turnState'[ts].pending \subseteq turnState[ts].pending
    BY <1>3 DEF CancelSteer, LoopStage, LoopRelease, TypeInv, QueuesTyped, QueueType
  <2>2. todo' \subseteq todo /\ UNCHANGED <<pc, slot>>
    BY <1>3 DEF CancelSteer, LoopStage, LoopRelease, Take
  <2>3. \A t \in Turn : OwnState(t) \in TurnStateId
    BY TurnStateIds DEF OwnState
  <2> QED
    BY <2>1, <2>2, <2>3, LateFrame
<1>4. ASSUME UNCHANGED <<slot, turnState>>,
             \A x \in todo' : x.op \in Injected => x \in todo \/ x.item \notin Precious,
             pc[Loop] = "idle",
             \A t \in Turn : pc'[t] = pc[t] \/ (pc[t] = "unused" /\ pc'[t] = "queued")
      PROVE  LateInv'
  BY <1>4, LateFrame
<1>5. CASE LoopMail(o) \/ LoopStartPendingWork(o) \/ LoopInterrupt(o)
  <2>1. \A t \in Turn : pc'[t] = pc[t]
    BY <1>5, Actors
    DEF LoopMail, LoopStartPendingWork, LoopInterrupt, Goto, TypeInv, PcTyped
  <2>2. UNCHANGED <<slot, turnState>> /\ todo' \subseteq todo /\ pc[Loop] = "idle"
    BY <1>5 DEF LoopMail, LoopStartPendingWork, LoopInterrupt, Take, queueVars
  <2> QED
    BY <1>4, <2>1, <2>2
<1>6. CASE ExtIdleStart(o)
  BY <1>6 DEF ExtIdleStart, LoopInv, StartsOnly
<1>7. CASE LoopUserInput(o)
  <2>1. CASE Steerable /\ AddToSlot(o.item, slot.task) /\ UNCHANGED pc
    <3>1. slot # NoSlot /\ slot.task # NoTurn
      BY <2>1 DEF Steerable, SteerTarget, NoSlot
    <3> QED
      BY <1>1, <1>7, <2>1, <3>1 DEF LoopUserInput, Take
  <2>2. CASE UNCHANGED <<turnState, pc>>
    BY <1>1, <1>7, <2>2 DEF LoopUserInput, Take
  <2>3. ASSUME NEW t \in Turn, NewTurn(Loop, t, "Regular", {o.item}, "route"),
               UNCHANGED turnState
        PROVE  LateInv'
    <3>1. \A u \in Turn : pc'[u] = pc[u] \/ (pc[u] = "unused" /\ pc'[u] = "queued")
      BY <2>3, Actors DEF NewTurn, FreshTurn, TypeInv, PcTyped
    <3> QED
      BY <1>4, <1>7, <2>3, <3>1 DEF LoopUserInput, Take
  <2> QED
    BY <1>7, <2>1, <2>2, <2>3 DEF LoopUserInput, queueVars
<1>8. CASE LoopSpawn(o)
  <2>1. UNCHANGED <<slot, turnState>> /\ pc[Loop] = "idle"
    BY <1>8 DEF LoopSpawn, queueVars
  <2>2. \A x \in todo' : x.op \in Injected => x \in todo \/ x.item \notin Precious
    BY <1>8 DEF LoopSpawn, Take, LateInv, Injected
  <2>3. \A u \in Turn : pc'[u] = pc[u] \/ (pc[u] = "unused" /\ pc'[u] = "queued")
    BY <1>8, Actors DEF LoopSpawn, FreshTurn, TypeInv, PcTyped
  <2> QED
    BY <1>4, <2>1, <2>2, <2>3
<1> QED
  BY <1>2, <1>3, <1>5, <1>6, <1>7, <1>8 DEF Request

LEMMA LateStarts ==
  ASSUME LoopStartsAlone, TypeInv, LoopInv, OwnStates, LateInv, NEW a \in Actor, StartStep(a)
  PROVE  LateInv'
<1> USE DEF LatePoint, FinishPoint
<1>r. call[a].ret \in {"idle", "exited", "finish:wake", "done"}
  BY CallFields DEF TypeInv, CallTyped
<1>a. pc[a] \in StartPoint => a = Loop
  BY DEF LoopInv, OthersDoNotStart, Over, RunPoint, StartPoint, Actor
<1>s. \A t \in Turn : OwnState(t) \in TurnStateId
  BY TurnStateIds DEF OwnState
<1>1. CASE MaybeCheck(a)
  <2>1. pc'[a] = call[a].ret /\ \A b \in Actor \ {a} : pc'[b] = pc[b]
    BY <1>1, NoTriggerMail DEF MaybeCheck, Return, Goto, TypeInv, PcTyped
  <2>2. UNCHANGED <<todo, slot, turnState>> /\ pc[a] = "maybe:check"
    BY <1>1 DEF MaybeCheck, queueVars
  <2>3. /\ pc[Loop] = "start:install" => pc'[Loop] = "start:install"
        /\ \A t \in Turn : pc[t] \in FinishPoint => pc'[t] \in FinishPoint
        /\ \A t \in Turn : pc'[t] \in LatePoint => pc[t] \in LatePoint
    BY <1>r, <2>1, <2>2, Actors
  <2> QED
    BY <2>2, <2>3, LateFrame
<1>2. CASE StartTake(a)
  <2>1. /\ a = Loop /\ pc[Loop] = "start:take" /\ \A t \in Turn : pc'[t] = pc[t]
        /\ UNCHANGED <<todo, slot>> /\ DrainPendingInput
    BY <1>a, <1>2, Actors DEF StartTake, Goto, StartPoint, TypeInv, PcTyped
  <2>2. \A ts \in TurnStateId : turnState'[ts].pending \subseteq turnState[ts].pending
    BY <2>1, DrainTakes
  <2>3. UNCHANGED <<todo, slot>>
    BY <2>1
  <2> QED
    BY <1>s, <2>1, <2>2, <2>3, LateFrame
<1>3. CASE StartAttach(a)
  <2>1. a = Loop /\ pc[Loop] = "start:attach" /\ pc'[Loop] = "start:install"
        /\ todo' = todo /\ \A t \in Turn : pc'[t] = pc[t]
    BY <1>a, <1>3, Actors DEF StartAttach, Goto, StartPoint, TypeInv, PcTyped
  <2>2. slot = NoSlot
    BY <2>1 DEF OwnStates
  <2>t. PICK t \in Turn : t = call[Loop].turn
    BY <2>1 DEF TypeInv, StartKnows, StartPoint
  <2>3. pc[t] = "queued"
    BY <2>1, <2>t DEF LoopInv, NextTurnWaits, StartPoint
  <2>4. turnState' = [turnState EXCEPT ![OwnState(t)].pending = @ \cup call[Loop].items]
    BY <1>3, <2>1, <2>2, <2>t DEF StartAttach, OwnState
  <2>5. \A u \in Turn : pc[u] \in LatePoint => turnState'[OwnState(u)] = turnState[OwnState(u)]
    BY <1>s, <2>3, <2>4 DEF OwnState, TypeInv, QueuesTyped
  <2> QED
    BY <2>1, <2>5 DEF LateInv, OwnState
<1>4. CASE StartInstall(a)
  <2>1. a = Loop /\ pc[Loop] = "start:install" /\ UNCHANGED <<todo, turnState>>
    BY <1>a, <1>4 DEF StartInstall, StartPoint, queueVars
  <2>t. PICK t \in Turn : t = call[Loop].turn
    BY <2>1, Actors DEF StartPoint, TypeInv, StartKnows
  <2>2. slot.task = NoTurn
    BY <2>1 DEF LoopInv, LoopOwnsSlot, StartPoint
  <2>3. pc'[t] = "begin" /\ \A u \in Turn \ {t} : pc'[u] = pc[u]
    BY <1>4, <2>1, <2>2, <2>t, Actors DEF StartInstall
  <2>4. slot'.task # NoTurn
    BY <1>4, <2>1, <2>t, Actors DEF StartInstall
  <2> QED
    BY <2>1, <2>3, <2>4 DEF LateInv, OwnState
<1> QED
  BY <1>1, <1>2, <1>3, <1>4, NeverReserves DEF StartStep

LEMMA LateLoop ==
  ASSUME TypeInv, LoopInv, LateInv,
         LoopRouted \/ AbortTake \/ AbortCancel \/ AbortKill \/ AbortEvent \/ AbortClear
  PROVE  LateInv'
<1> USE DEF LatePoint, FinishPoint
<1>1. \A t \in Turn : pc'[t] = pc[t] \/ (pc[t] \notin FinishPoint /\ pc'[t] \notin FinishPoint)
  <2>1. CASE AbortTake \/ AbortEvent \/ AbortClear
    BY <2>1, Actors DEF AbortTake, AbortEvent, AbortClear, Goto, TypeInv, PcTyped
  <2>2. CASE LoopRouted
    <3>1. PICK t \in Turn : t = call[Loop].turn
      BY <2>2 DEF LoopRouted, TypeInv, LoopKnows
    <3>2. pc[t] = "queued"
      BY <2>2, <3>1 DEF LoopRouted, LoopInv, NextTurnWaits
    <3>3. \A u \in Turn : pc'[u] = pc[u] \/ (u = t /\ pc'[u] = "rejected")
      BY <2>2, <3>1, Actors DEF LoopRouted, Goto, TypeInv, PcTyped
    <3> QED
      BY <3>2, <3>3
  <2>3. CASE AbortCancel
    BY <2>3, Actors DEF AbortCancel, LoopInv, VictimNotCancelled, TypeInv, PcTyped
  <2>4. CASE AbortKill
    <3>1. PICK v \in Turn : v = abort.victim
      BY <2>4 DEF AbortKill, TypeInv, LoopKnows, AbortPoint
    <3>2. pc[v] \in RunPoint \cup {"done"}
      BY <2>4, <3>1 DEF AbortKill, LoopInv, LoopOwnsSlot, Running
    <3>3. \A u \in Turn : pc'[u] = pc[u] \/ (u = v /\ pc'[u] \in {"killed", "done"})
      BY <2>4, <3>1, Actors DEF AbortKill, TypeInv, PcTyped
    <3> QED
      BY <3>2, <3>3 DEF RunPoint
  <2> QED
    BY <2>1, <2>2, <2>3, <2>4
<1>2. slot' \in {slot, NoSlot} /\ todo' = todo /\ pc[Loop] # "start:install"
  BY DEF LoopRouted, AbortTake, AbortCancel, AbortKill, AbortEvent, AbortClear
<1>3. \A ts \in TurnStateId : turnState'[ts].pending \subseteq turnState[ts].pending
  <2>1. CASE AbortClear
    BY <2>1 DEF AbortClear, NewTurnState, TypeInv, QueuesTyped
  <2>2. CASE ~AbortClear
    BY <2>2 DEF LoopRouted, AbortTake, AbortCancel, AbortKill, AbortEvent, queueVars
  <2> QED
    BY <2>1, <2>2
<1>4. \A t \in Turn : OwnState(t) \in TurnStateId
  BY TurnStateIds DEF OwnState
<1> QED
  BY <1>1, <1>2, <1>3, <1>4, LateFrame

(* A running task adds to no queue, and runs on or is over.                *)
LEMMA RunShape ==
  ASSUME TypeInv, NEW t \in Turn, RunStep(t)
  PROVE  /\ UNCHANGED <<todo, slot, call, abort, accepted>>
         /\ pc[t] \in RunPoint /\ pc'[t] \in RunPoint \cup {"done"}
         /\ \A a \in Actor \ {t} : pc'[a] = pc[a]
         /\ \A ts \in TurnStateId : turnState'[ts].pending \subseteq turnState[ts].pending
<1>1. UNCHANGED <<todo, slot, call, abort, accepted>> /\ pc[t] \in RunPoint
  BY DEF RunStep, TaskBegin, TaskWork, TaskPrepare, TaskPrepareFailed, TaskDrain, TaskRecord,
         TaskStream, TaskFollowUp, TaskAnswered, TaskSampleFailed, TaskStop, TaskStopBlocked,
         TaskAfterTurn, TaskCheckCancelled, itemVars, RunPoint
<1>2. CASE TaskStream(t)
  <2>1. \A ts \in TurnStateId : turnState'[ts].pending = turnState[ts].pending
    BY <1>2 DEF TaskStream, AcceptMailbox, DeferMailbox, TypeInv, QueuesTyped, QueueType
  <2> QED
    BY <1>1, <1>2, <2>1 DEF TaskStream
<1>3. CASE ~TaskStream(t)
  <2>1. PICK p \in RunPoint \cup {"done"} : Goto(t, p)
    BY <1>3
    DEF RunStep, TaskBegin, TaskWork, TaskPrepare, TaskPrepareFailed, TaskDrain, TaskRecord,
        TaskFollowUp, TaskAnswered, TaskSampleFailed, TaskStop, TaskStopBlocked,
        TaskAfterTurn, TaskCheckCancelled, RecordInputs, RunPoint
  <2>2. pc'[t] = p /\ \A a \in Actor \ {t} : pc'[a] = pc[a]
    BY <2>1, Actors DEF Goto, TypeInv, PcTyped
  <2>3. \A ts \in TurnStateId : turnState'[ts].pending \subseteq turnState[ts].pending
    <3>1. CASE TaskDrain(t)
      BY <3>1, DrainTakes DEF TaskDrain, queueVars
    <3>2. CASE TaskFollowUp(t) \/ TaskStopBlocked(t)
      BY <3>2 DEF TaskFollowUp, TaskStopBlocked, AcceptMailbox, TypeInv, QueuesTyped, QueueType
    <3>3. CASE ~TaskDrain(t) /\ ~TaskFollowUp(t) /\ ~TaskStopBlocked(t)
      BY <1>3, <3>3
      DEF RunStep, TaskBegin, TaskWork, TaskPrepare, TaskPrepareFailed, TaskRecord,
          TaskAnswered, TaskSampleFailed, TaskStop, TaskAfterTurn, TaskCheckCancelled,
          queueVars
    <3> QED
      BY <3>1, <3>2, <3>3
  <2> QED
    BY <1>1, <2>2, <2>3
<1> QED
  BY <1>2, <1>3

LEMMA LateTasks ==
  ASSUME LoopStartsAlone, TypeInv, LoopInv, OwnStates, LateInv, NEW t \in Turn,
         RunStep(t) \/ FinishStep(t)
  PROVE  LateInv'
<1> USE DEF LatePoint, FinishPoint
<1>s. \A u \in Turn : OwnState(u) \in TurnStateId
  BY TurnStateIds DEF OwnState
<1>0. ASSUME NEW p, Goto(t, p)
      PROVE  pc'[t] = p /\ pc'[Loop] = pc[Loop] /\ \A u \in Turn \ {t} : pc'[u] = pc[u]
  BY <1>0, Actors DEF Goto, TypeInv, PcTyped
<1>1. CASE RunStep(t)
  <2>1. /\ \A u \in Turn : pc[u] \in FinishPoint => pc'[u] \in FinishPoint
        /\ \A u \in Turn : pc'[u] \in LatePoint => pc[u] \in LatePoint
        /\ pc'[Loop] = pc[Loop] /\ UNCHANGED <<todo, slot>>
    BY <1>1, RunShape, Actors DEF RunPoint
  <2> QED
    BY <1>1, <1>s, <2>1, RunShape, LateFrame
<1>2. CASE FinishTake(t)
  <2>1. pc[t] = "finish:take" /\ UNCHANGED <<todo, turnState>>
    BY <1>2 DEF FinishTake, queueVars
  <2>2. CASE Goto(t, "done") /\ UNCHANGED slot
    BY <1>0, <2>1, <2>2, LateFrame
  <2>3. CASE slot.task # NoTurn /\ Goto(t, "finish:record")
             /\ slot' = [slot EXCEPT !.task = NoTurn]
    <3>1. slot # NoSlot
      BY <2>3 DEF NoSlot
    <3>2. slot.task = t
      <4>1. Running(t)
        BY <2>1 DEF Running, RunPoint
      <4> QED
        BY <3>1, <4>1 DEF LoopInv, SlotHoldsRunningTask, Aborting, OwnStates
    <3>3. slot'.ts = OwnState(t)
      BY <2>3, <3>2 DEF OwnStates, TypeInv, SlotTyped, SlotType
    <3> QED
      BY <1>0, <2>1, <2>3, <3>3 DEF LateInv, OwnState
  <2> QED
    BY <1>2, <2>2, <2>3 DEF FinishTake
<1>3. CASE FinishRecord(t)
  <2>1. task[t].ts = OwnState(t)
    BY <1>3 DEF FinishRecord, OwnStates
  <2>2. /\ turnState'[OwnState(t)].pending = {}
        /\ \A x \in TurnStateId \ {OwnState(t)} : turnState'[x] = turnState[x]
        /\ UNCHANGED <<todo, slot>> /\ Goto(t, "finish:event") /\ pc[t] = "finish:record"
    BY <1>3, <1>s, <2>1 DEF FinishRecord, TypeInv, QueuesTyped, QueueType
  <2>3. \A u \in Turn : pc'[u] \in LatePoint =>
          \A i \in turnState'[OwnState(u)].pending : i \notin Precious
    BY <1>0, <1>s, <2>2 DEF LateInv
  <2>4. \A u \in Turn : pc[u] \in FinishPoint => pc'[u] \in FinishPoint
    BY <1>0, <2>2
  <2> QED
    BY <1>0, <2>2, <2>3, <2>4 DEF LateInv, OwnState
<1>4. CASE FinishEvent(t)
  <2>1. /\ UNCHANGED <<todo, slot, turnState>> /\ Goto(t, "finish:clear")
        /\ pc[t] = "finish:event"
    BY <1>4 DEF FinishEvent, queueVars
  <2> QED
    BY <1>0, <2>1, LateFrame
<1>5. CASE FinishClear(t)
  <2>1. pc[t] = "finish:clear" /\ task[t].ts = OwnState(t) /\ todo' = todo
    BY <1>5 DEF FinishClear, OwnStates
  <2>2. CASE slot' = NoSlot /\ Goto(t, "finish:idle")
             /\ turnState' = [turnState EXCEPT ![slot.ts] = NewTurnState]
    <3>1. \A x \in TurnStateId : turnState'[x].pending \subseteq turnState[x].pending
      BY <2>2 DEF NewTurnState, TypeInv, QueuesTyped
    <3>2. \A u \in Turn : pc'[u] \in LatePoint =>
            \A i \in turnState'[OwnState(u)].pending : i \notin Precious
      BY <1>0, <1>s, <2>2, <3>1 DEF LateInv
    <3> QED
      BY <2>1, <2>2, <3>2 DEF LateInv, OwnState
  <2>3. CASE /\ ~(slot.task = NoTurn /\ slot.ts = task[t].ts)
             /\ Goto(t, "done") /\ UNCHANGED <<slot, turnState>>
    <3>1. \A u \in Turn : pc'[u] \in LatePoint => pc[u] \in LatePoint
      BY <1>0, <2>3
    <3>2. \A u \in Turn : pc[u] \in FinishPoint /\ slot.task = NoTurn /\ slot.ts = OwnState(u)
            => pc'[u] \in FinishPoint
      BY <1>0, <2>1, <2>3
    <3> QED
      BY <1>0, <2>1, <2>3, <3>1, <3>2 DEF LateInv, OwnState
  <2> QED
    BY <1>5, <2>2, <2>3 DEF FinishClear
<1>6. CASE FinishIdle(t) \/ FinishWake(t)
  <2>1. PICK p \in {"try:check", "finish:wake", "maybe:check"} : Goto(t, p)
    BY <1>6 DEF FinishIdle, FinishWake
  <2>2. /\ UNCHANGED <<slot, turnState>> /\ todo' \subseteq todo
        /\ pc[t] \in {"finish:idle", "finish:wake"}
    BY <1>6 DEF FinishIdle, FinishWake, queueVars, Take
  <2> QED
    BY <1>0, <2>1, <2>2, LateFrame
<1> QED
  BY <1>1, <1>2, <1>3, <1>4, <1>5, <1>6 DEF FinishStep

LEMMA LateStep ==
  ASSUME LoopStartsAlone, TypeInv, LoopInv, OwnStates, LateInv, [Next]_vars
  PROVE  LateInv'
<1>1. CASE UNCHANGED vars
  BY <1>1, LateFrame DEF vars, queueVars
<1>2. CASE LoopStep
  BY <1>2, LateLoop, LateStarts, Actors DEF LoopStep
<1>3. ASSUME NEW t \in Turn, TaskStep(t) PROVE LateInv'
  BY <1>3, LateTasks, LateStarts, Actors DEF TaskStep
<1> QED
  BY <1>1, <1>2, <1>3, LateRequests, LateStarts, Actors DEF Next

-----------------------------------------------------------------------------
(* Nothing is lost: what is accepted                                       *)

(* An item is accepted once, when its request is served or, if it starts a *)
(* turn, when that is spawned; the input of a review is never accepted.    *)
Unspawned(t) == task[t].kind # "Regular" \/ (pc[Loop] = "route" /\ call[Loop].turn = t)

NewsInv ==
    /\ \A i, t, u : <<i, t>> \in accepted /\ <<i, u>> \in accepted => t = u
    /\ \A o \in todo : o.op \in Carrier => \A t : <<o.item, t>> \notin accepted
    /\ \A t \in Turn : Unspawned(t) => \A i \in task[t].items : \A u : <<i, u>> \notin accepted
    /\ pc[Loop] = "route" => task[call[Loop].turn].kind = "Regular"

LEMMA NewsFrame ==
  ASSUME NewsInv, accepted' \subseteq accepted,
         \A o \in todo' : o.op \in Carrier => o \in todo \/ \A t : <<o.item, t>> \notin accepted,
         \A t \in Turn : Unspawned(t)' => \A i \in task'[t].items :
           \/ Unspawned(t) /\ i \in task[t].items
           \/ \A u : <<i, u>> \notin accepted,
         pc'[Loop] = "route" => task'[call'[Loop].turn].kind = "Regular"
  PROVE  NewsInv'
<1>1. ASSUME NEW t \in Turn, Unspawned(t)', NEW i \in task'[t].items, NEW u
      PROVE  <<i, u>> \notin accepted'
  BY <1>1 DEF NewsInv
<1>2. \A o \in todo' : o.op \in Carrier => \A t : <<o.item, t>> \notin accepted'
  BY DEF NewsInv
<1>3. \A i, t, u : <<i, t>> \in accepted' /\ <<i, u>> \in accepted' => t = u
  BY DEF NewsInv
<1> QED
  BY <1>1, <1>2, <1>3 DEF NewsInv

(* Tasks and the loop's choice of one stay as they are, or lose items.     *)
LEMMA NewsStays ==
  ASSUME NewsInv, accepted' = accepted, todo' \subseteq todo,
         \A t \in Turn : /\ task'[t].kind = task[t].kind
                         /\ task'[t].items \subseteq task[t].items,
         pc'[Loop] = "route" =>
           pc[Loop] = "route" /\ call'[Loop].turn = call[Loop].turn,
         pc[Loop] = "route" => call[Loop].turn \in Turn
  PROVE  NewsInv'
<1>1. \A t \in Turn : Unspawned(t)' => Unspawned(t)
  BY DEF Unspawned
<1>2. pc'[Loop] = "route" => task'[call'[Loop].turn].kind = "Regular"
  BY DEF NewsInv
<1> QED
  BY <1>1, <1>2, NewsFrame

(* A request is served: its item is accepted.                              *)
LEMMA NewsAccepts ==
  ASSUME OnePlace, NewsInv, NEW o \in todo, NEW turn, o.op \in Carrier, todo' = todo \ {o},
         accepted' = accepted \cup {<<o.item, turn>>}, task' = task,
         \A t \in Turn : Unspawned(t)' => Unspawned(t),
         pc'[Loop] = "route" => task'[call'[Loop].turn].kind = "Regular"
  PROVE  NewsInv'
<1>1. At(o.item, "todo", o)
  BY DEF At
<1>2. \A t : <<o.item, t>> \notin accepted
  BY DEF NewsInv
<1>3. ASSUME NEW x \in todo', x.op \in Carrier, NEW t PROVE <<x.item, t>> \notin accepted'
  <2>1. At(x.item, "todo", x)
    BY <1>3 DEF At
  <2>2. x.item # o.item
    BY <1>1, <1>3, <2>1 DEF OnePlace
  <2> QED
    BY <1>3, <2>2 DEF NewsInv
<1>4. ASSUME NEW t \in Turn, Unspawned(t)', NEW i \in task'[t].items, NEW u
      PROVE  <<i, u>> \notin accepted'
  <2>1. At(i, "task", t)
    BY <1>4 DEF At
  <2>2. i # o.item
    BY <1>1, <2>1 DEF OnePlace
  <2> QED
    BY <1>4, <2>2 DEF NewsInv
<1>5. \A i, t, u : <<i, t>> \in accepted' /\ <<i, u>> \in accepted' => t = u
  BY <1>2 DEF NewsInv
<1> QED
  BY <1>3, <1>4, <1>5 DEF NewsInv

LEMMA NewsRequests ==
  ASSUME TypeInv, LoopInv, OnePlace, NewsInv, NEW o \in todo, Request(o)
  PROVE  NewsInv'
<1> USE DEF Carrier
<1>r. pc[Loop] = "route" => call[Loop].turn \in Turn
  BY DEF TypeInv, LoopKnows
<1>1. ASSUME UNCHANGED <<pc, call, task>>, o.op \in Carrier, Take(o),
             UNCHANGED accepted \/ \E turn : accepted' = accepted \cup {<<o.item, turn>>}
      PROVE  NewsInv'
  <2>1. \A t \in Turn : Unspawned(t)' => Unspawned(t)
    BY <1>1 DEF Unspawned
  <2>2. pc'[Loop] = "route" => task'[call'[Loop].turn].kind = "Regular"
    BY <1>1 DEF NewsInv
  <2>3. todo' = todo \ {o}
    BY <1>1 DEF Take
  <2>4. CASE UNCHANGED accepted
    BY <1>1, <1>r, <2>3, <2>4, NewsStays
  <2>5. ASSUME NEW turn, accepted' = accepted \cup {<<o.item, turn>>} PROVE NewsInv'
    BY <1>1, <2>1, <2>2, <2>3, <2>5, NewsAccepts
  <2> QED
    BY <1>1, <2>4, <2>5
<1>2. CASE Steer(o)
  BY <1>1, <1>2 DEF Steer, AddToSlot
<1>3. CASE Inject(o)
  BY <1>1, <1>3 DEF Inject, AddToSlot
<1>4. CASE LoopStage(o)
  BY <1>1, <1>4 DEF LoopStage
<1>5. CASE CancelSteer(o) \/ LoopRelease(o)
  <2>1. /\ UNCHANGED <<pc, call, task>> /\ todo' \subseteq todo
        /\ accepted' \subseteq accepted
    BY <1>5 DEF CancelSteer, LoopRelease, Take, itemVars
  <2>2. \A t \in Turn : Unspawned(t)' => Unspawned(t)
    BY <2>1 DEF Unspawned
  <2>3. pc'[Loop] = "route" => task'[call'[Loop].turn].kind = "Regular"
    BY <2>1 DEF NewsInv
  <2> QED
    BY <2>1, <2>2, <2>3, NewsFrame
<1>6. CASE LoopMail(o)
  <2>1. pc'[Loop] # "route" /\ task' = task
    BY <1>6, Actors DEF LoopMail, Goto, TypeInv, PcTyped
  <2>2. \A t \in Turn : Unspawned(t)' => Unspawned(t)
    BY <2>1 DEF Unspawned
  <2>3. todo' = todo \ {o} /\ accepted' = accepted \cup {<<o.item, NoTurn>>}
    BY <1>6 DEF LoopMail, Take
  <2> QED
    BY <1>6, <2>1, <2>2, <2>3, NewsAccepts DEF LoopMail
<1>7. CASE LoopStartPendingWork(o) \/ LoopInterrupt(o)
  <2>1. /\ pc'[Loop] # "route" /\ task' = task /\ accepted' = accepted
        /\ todo' \subseteq todo
    BY <1>7, Actors
    DEF LoopStartPendingWork, LoopInterrupt, Goto, Take, itemVars, TypeInv, PcTyped
  <2> QED
    BY <1>r, <2>1, NewsStays
<1>8. CASE ExtIdleStart(o)
  BY <1>8 DEF ExtIdleStart, LoopInv, StartsOnly
<1>9. ASSUME o.op \in Carrier, NEW t \in Turn, Take(o), NEW kind, NEW p,
             NEW input \in SUBSET {o.item},
             task' = [task EXCEPT ![t] = NewTask(kind, input)],
             p = "route" => kind = "Regular", accepted' = accepted, pc'[Loop] = p,
             call'[Loop].turn = t
      PROVE  NewsInv'
  <2>1. /\ task'[t].items \subseteq {o.item} /\ task'[t].kind = kind
        /\ \A u \in Turn \ {t} : task'[u] = task[u]
    BY <1>9 DEF NewTask, TypeInv, TaskTyped
  <2>2. \A u : <<o.item, u>> \notin accepted
    BY <1>9 DEF NewsInv
  <2>3. \A u \in Turn \ {t} : Unspawned(u)' => Unspawned(u)
    BY <1>9, <2>1 DEF Unspawned
  <2> QED
    BY <1>9, <2>1, <2>2, <2>3, NewsFrame DEF Take
<1>10. CASE LoopUserInput(o)
  <2>1. CASE UNCHANGED <<pc, call, task>>
    BY <1>1, <1>10, <2>1 DEF LoopUserInput, AddToSlot
  <2>2. ASSUME NEW t \in Turn, NewTurn(Loop, t, "Regular", {o.item}, "route"),
               UNCHANGED accepted
        PROVE  NewsInv'
    <3>1. pc'[Loop] = "route" /\ call'[Loop].turn = t
      BY <2>2, Actors DEF NewTurn, TypeInv, PcTyped, CallTyped, CallType
    <3>2. task' = [task EXCEPT ![t] = NewTask("Regular", {o.item})] /\ Take(o)
          /\ o.op \in Carrier
      BY <1>10, <2>2 DEF NewTurn, LoopUserInput
    <3> QED
      BY <1>9, <2>2, <3>1, <3>2
  <2> QED
    BY <1>10, <2>1, <2>2 DEF LoopUserInput
<1>11. CASE LoopSpawn(o)
  <2>1. ASSUME NEW t \in Turn, Take(o),
               pc' = [pc EXCEPT ![t] = "queued", ![Loop] = "abort:take"],
               task' = [task EXCEPT ![t] =
                          NewTask(o.op, IF o.op = "Review" THEN {o.item} ELSE {})],
               call' = [call EXCEPT ![Loop].turn = t, ![Loop].ret = "idle"]
        PROVE  NewsInv'
    <3>1. pc'[Loop] = "abort:take" /\ accepted' = accepted /\ todo' \subseteq todo
      BY <1>11, <2>1, Actors DEF LoopSpawn, itemVars, Take, TypeInv, PcTyped
    <3>2. /\ task'[t].items = IF o.op = "Review" THEN {o.item} ELSE {}
          /\ \A u \in Turn \ {t} : task'[u] = task[u]
      BY <2>1 DEF NewTask, TypeInv, TaskTyped
    <3>3. o.op = "Review" => \A u : <<o.item, u>> \notin accepted
      BY DEF NewsInv
    <3>4. \A u \in Turn \ {t} : Unspawned(u)' => Unspawned(u)
      BY <3>1, <3>2 DEF Unspawned
    <3> QED
      BY <3>1, <3>2, <3>3, <3>4, NewsFrame
  <2>2. CASE /\ o.op = "Shell" /\ UNCHANGED <<pc, task, call>>
             /\ todo' = (todo \ {o}) \cup {[op |-> "InjectOrRecord", item |-> o.item]}
    <3>1. \A u : <<o.item, u>> \notin accepted
      BY <2>2 DEF NewsInv
    <3>2. \A x \in todo' : x \in todo \/ \A t : <<x.item, t>> \notin accepted
      BY <2>2, <3>1
    <3>3. \A t \in Turn : Unspawned(t)' => Unspawned(t)
      BY <2>2 DEF Unspawned
    <3>4. pc'[Loop] = "route" => task'[call'[Loop].turn].kind = "Regular"
      BY <2>2 DEF NewsInv
    <3> QED
      BY <1>11, <2>2, <3>2, <3>3, <3>4, NewsFrame DEF LoopSpawn, itemVars
  <2> QED
    BY <1>11, <2>1, <2>2 DEF LoopSpawn
<1> QED
  BY <1>2, <1>3, <1>4, <1>5, <1>6, <1>7, <1>8, <1>10, <1>11 DEF Request

LEMMA NewsStarts ==
  ASSUME LoopStartsAlone, TypeInv, LoopInv, NewsInv, NEW a \in Actor, StartStep(a)
  PROVE  NewsInv'
<1>1. MaybeCheck(a) \/ StartTake(a) \/ StartAttach(a) \/ StartInstall(a)
  BY NeverReserves DEF StartStep
<1>2. UNCHANGED <<todo, task, accepted>>
  BY <1>1 DEF MaybeCheck, StartTake, StartAttach, StartInstall, itemVars
<1>r. call[a].ret \in {"idle", "exited", "finish:wake", "done"}
  BY CallFields DEF TypeInv, CallTyped
<1>3. pc'[Loop] = "route" => pc[Loop] = "route" /\ call'[Loop].turn = call[Loop].turn
  <2>1. CASE MaybeCheck(a)
    <3>1. Goto(a, call[a].ret) /\ call' = call
      BY <2>1, NoTriggerMail DEF MaybeCheck, Return
    <3> QED
      BY <1>r, <3>1, Actors DEF Goto, TypeInv, PcTyped
  <2>2. CASE StartTake(a) \/ StartAttach(a)
    BY <2>2, Actors DEF StartTake, StartAttach, Goto, TypeInv, PcTyped, CallTyped, CallType
  <2>3. CASE StartInstall(a)
    <3>1. a = Loop
      BY <2>3 DEF StartInstall, LoopInv, OthersDoNotStart, Over, RunPoint, Actor
    <3> QED
      BY <1>r, <2>3, <3>1, Actors DEF StartInstall
  <2> QED
    BY <1>1, <2>1, <2>2, <2>3
<1> QED
  BY <1>2, <1>3, NewsStays DEF TypeInv, LoopKnows

LEMMA NewsLoop ==
  ASSUME TypeInv, OnePlace, NewsInv,
         LoopRouted \/ AbortTake \/ AbortCancel \/ AbortKill \/ AbortEvent \/ AbortClear
  PROVE  NewsInv'
<1>r. pc[Loop] = "route" => call[Loop].turn \in Turn
  BY DEF TypeInv, LoopKnows
<1>1. CASE LoopRouted
  <2>1. PICK t \in Turn : t = call[Loop].turn
    BY <1>1, <1>r DEF LoopRouted
  <2>2. pc[Loop] = "route" /\ todo' = todo
    BY <1>1 DEF LoopRouted
  <2>3. pc'[Loop] \in {"idle", "abort:take"}
    BY <1>1, <2>1, Actors DEF LoopRouted, Goto, TypeInv, PcTyped
  <2>4. CASE accepted' = accepted \cup (task[t].items \X {t}) /\ UNCHANGED task
    <3>1. task[t].kind = "Regular" /\ Unspawned(t)
      BY <2>1, <2>2 DEF NewsInv, Unspawned
    <3>2. \A i \in task[t].items : \A u : <<i, u>> \notin accepted
      BY <3>1 DEF NewsInv
    <3>3. ASSUME NEW x \in todo', x.op \in Carrier, NEW u PROVE <<x.item, u>> \notin accepted'
      <4>1. At(x.item, "todo", x)
        BY <2>2, <3>3 DEF At
      <4>2. x.item \notin task[t].items
        BY <4>1 DEF At, OnePlace
      <4> QED
        BY <2>2, <2>4, <3>3, <4>2 DEF NewsInv
    <3>4. ASSUME NEW v \in Turn, Unspawned(v)', NEW i \in task'[v].items, NEW u
          PROVE  <<i, u>> \notin accepted'
      <4>1. v # t /\ Unspawned(v)
        BY <2>3, <2>4, <3>1, <3>4 DEF Unspawned
      <4>2. i \notin task[t].items
        <5>1. At(i, "task", v)
          BY <2>4, <3>4 DEF At
        <5> QED
          BY <4>1, <5>1 DEF At, OnePlace
      <4> QED
        BY <2>4, <3>4, <4>1, <4>2 DEF NewsInv
    <3>5. \A i, v, u : <<i, v>> \in accepted' /\ <<i, u>> \in accepted' => v = u
      BY <2>4, <3>2 DEF NewsInv
    <3> QED
      BY <2>3, <3>3, <3>4, <3>5 DEF NewsInv
  <2>5. CASE task' = [task EXCEPT ![t].items = {}] /\ UNCHANGED accepted
    <3>1. \A u \in Turn : /\ task'[u].kind = task[u].kind
                          /\ task'[u].items \subseteq task[u].items
      BY <2>5 DEF TypeInv, TaskTyped, TaskType
    <3> QED
      BY <1>r, <2>2, <2>3, <2>5, <3>1, NewsStays
  <2> QED
    BY <1>1, <2>1, <2>4, <2>5 DEF LoopRouted
<1>2. CASE AbortTake \/ AbortCancel \/ AbortKill \/ AbortEvent \/ AbortClear
  <2>1. \A u \in Turn : /\ task'[u].kind = task[u].kind
                        /\ task'[u].items \subseteq task[u].items
    BY <1>2
    DEF AbortTake, AbortCancel, AbortKill, AbortEvent, AbortClear, NewTask, TypeInv,
        TaskTyped, TaskType
  <2>2. UNCHANGED <<todo, accepted, call>>
    BY <1>2 DEF AbortTake, AbortCancel, AbortKill, AbortEvent, AbortClear, itemVars
  <2>3. pc'[Loop] # "route"
    <3>1. call[Loop].ret # "route"
      BY CallFields, Actors DEF TypeInv, CallTyped
    <3>2. pc[Loop] \in AbortPoint => abort.victim \in Turn
      BY DEF TypeInv, LoopKnows
    <3> QED
      BY <1>2, <3>1, <3>2, Actors
      DEF AbortTake, AbortCancel, AbortKill, AbortEvent, AbortClear, AbortPoint, Goto,
          TypeInv, PcTyped
  <2> QED
    BY <1>r, <2>1, <2>2, <2>3, NewsStays
<1> QED
  BY <1>1, <1>2

(* A task takes items for itself only when it drains the queue.            *)
LEMMA TaskShape ==
  ASSUME TypeInv, NEW t \in Turn, RunStep(t) \/ FinishStep(t)
  PROVE  /\ \A u \in Turn \ {t} : task'[u] = task[u]
         /\ task'[t].kind = task[t].kind
         /\ TaskDrain(t) \/ task'[t].items \subseteq task[t].items
<1> USE DEF TypeInv, TaskTyped, TaskType
<1>1. CASE \/ TaskBegin(t) \/ TaskStream(t) \/ TaskStop(t) \/ TaskStopBlocked(t)
           \/ TaskAfterTurn(t) \/ TaskCheckCancelled(t)
  BY <1>1 DEF TaskBegin, TaskStream, TaskStop, TaskStopBlocked, TaskAfterTurn,
              TaskCheckCancelled
<1>2. CASE TaskWork(t) \/ TaskPrepare(t) \/ TaskPrepareFailed(t) \/ TaskRecord(t)
  BY <1>2 DEF TaskWork, TaskPrepare, TaskPrepareFailed, TaskRecord
<1>3. CASE TaskDrain(t) \/ TaskFollowUp(t) \/ TaskAnswered(t) \/ TaskSampleFailed(t)
  BY <1>3 DEF TaskDrain, TaskFollowUp, TaskAnswered, TaskSampleFailed
<1>4. CASE FinishStep(t)
  BY <1>4 DEF FinishStep, FinishTake, FinishRecord, FinishEvent, FinishClear, FinishIdle,
              FinishWake, NewTask
<1> QED
  BY <1>1, <1>2, <1>3, <1>4 DEF RunStep

LEMMA NewsTasks ==
  ASSUME TypeInv, LoopInv, HandsInv, NewsInv, NEW t \in Turn, RunStep(t) \/ FinishStep(t)
  PROVE  NewsInv'
<1>r. pc[Loop] = "route" => call[Loop].turn \in Turn
  BY DEF TypeInv, LoopKnows
<1>1. /\ pc'[Loop] = pc[Loop] /\ call'[Loop] = call[Loop]
      /\ accepted' = accepted /\ todo' \subseteq todo
  <2>1. CASE RunStep(t)
    BY <2>1, RunShape, Actors
  <2>2. CASE FinishStep(t)
    BY <2>2, Actors
    DEF FinishStep, FinishTake, FinishRecord, FinishEvent, FinishClear, FinishIdle,
        FinishWake, Goto, Take, itemVars, TypeInv, PcTyped, CallTyped
  <2> QED
    BY <2>1, <2>2
<1>2. CASE TaskDrain(t)
  <2>1. pc[t] = "drain"
    BY <1>2 DEF TaskDrain
  <2>2. task[t].kind = "Regular"
    BY <2>1 DEF HandsInv, Hand, RegularPoint
  <2>3. pc[Loop] = "route" => call[Loop].turn # t
    BY <2>1 DEF LoopInv, NextTurnWaits
  <2>4. ~Unspawned(t)'
    BY <1>1, <2>2, <2>3, TaskShape DEF Unspawned
  <2>5. \A u \in Turn \ {t} : Unspawned(u)' => Unspawned(u) /\ task'[u] = task[u]
    BY <1>1, TaskShape DEF Unspawned
  <2>6. pc'[Loop] = "route" => task'[call'[Loop].turn].kind = "Regular"
    BY <1>1, <1>r, TaskShape DEF NewsInv
  <2> QED
    BY <1>1, <2>4, <2>5, <2>6, NewsFrame
<1>3. CASE ~TaskDrain(t)
  BY <1>1, <1>3, <1>r, TaskShape, NewsStays
<1> QED
  BY <1>2, <1>3

LEMMA NewsStep ==
  ASSUME LoopStartsAlone, TypeInv, LoopInv, OnePlace, HandsInv, NewsInv, [Next]_vars
  PROVE  NewsInv'
<1>1. CASE UNCHANGED vars
  BY <1>1 DEF vars, itemVars, NewsInv, Unspawned
<1>2. CASE LoopStep
  BY <1>2, NewsLoop, NewsStarts, Actors DEF LoopStep
<1>3. ASSUME NEW t \in Turn, TaskStep(t) PROVE NewsInv'
  BY <1>3, NewsTasks, NewsStarts, Actors DEF TaskStep
<1> QED
  BY <1>1, <1>2, <1>3, NewsRequests, NewsStarts, Actors DEF Next

-----------------------------------------------------------------------------
(* Nothing is lost: what was accepted is kept                              *)

(* Whoever will look at the TurnState of t: the slot, the task that        *)
(* finishes, the loop that aborts it.                                      *)
Holds(t) ==
    \/ slot.ts = OwnState(t)
    \/ pc[t] = "finish:record"
    \/ pc[Loop] \in AbortPoint /\ abort.victim = t

Waiting(i) ==
    \/ i \in mailbox \/ i \in staged \/ i \in call[Loop].items
    \/ \E t \in Turn : i \in task[t].items
    \/ \E t \in Turn : Holds(t) /\ i \in turnState[OwnState(t)].pending

Kept(i) == i \in ItemsIn(recorded) \/ i \in discarded \/ Waiting(i)

KeptInv == \A i \in Precious : \A t : <<i, t>> \in accepted => Kept(i)

(* Every place of an item is kept, or gives it to a place that is.         *)
LEMMA KeptFrame ==
  ASSUME KeptInv, recorded \subseteq recorded', discarded \subseteq discarded',
         \A i \in Precious : \A u : <<i, u>> \in accepted' =>
           \/ Kept(i)'
           \/ /\ <<i, u>> \in accepted
              /\ i \in mailbox => Kept(i)'
              /\ i \in staged => Kept(i)'
              /\ i \in call[Loop].items => Kept(i)'
              /\ \A t \in Turn : i \in task[t].items => Kept(i)'
              /\ \A t \in Turn : Holds(t) /\ i \in turnState[OwnState(t)].pending => Kept(i)'
  PROVE  KeptInv'
<1> SUFFICES ASSUME NEW i \in Precious, NEW u, <<i, u>> \in accepted', ~Kept(i)'
             PROVE  FALSE
  BY DEF KeptInv
<1>1. <<i, u>> \in accepted /\ Kept(i)
  BY DEF KeptInv
<1>2. ~Waiting(i)
  BY DEF Waiting
<1>3. i \notin ItemsIn(recorded) /\ i \notin discarded
  BY DEF Kept, ItemsIn
<1> QED
  BY <1>1, <1>2, <1>3 DEF Kept

(* Steps that leave the queues and the hands as they are, except that      *)
(* something may be added, and let go of no TurnState.                     *)
LEMMA KeptStays ==
  ASSUME KeptInv, recorded \subseteq recorded', discarded \subseteq discarded',
         mailbox \subseteq mailbox', staged \subseteq staged',
         call[Loop].items \subseteq call'[Loop].items,
         \A t \in Turn : task[t].items \subseteq task'[t].items,
         \A t \in Turn : Holds(t) => Holds(t)',
         \A t \in Turn : turnState[OwnState(t)].pending \subseteq turnState'[OwnState(t)].pending,
         \A i \in Precious : \A u : <<i, u>> \in accepted' => <<i, u>> \in accepted \/ Kept(i)'
  PROVE  KeptInv'
<1>1. ASSUME NEW i, Waiting(i) PROVE Kept(i)'
  <2>1. CASE i \in mailbox \/ i \in staged \/ i \in call[Loop].items
    BY <2>1 DEF Kept, Waiting
  <2>2. ASSUME NEW t \in Turn, i \in task[t].items PROVE Kept(i)'
    BY <2>2 DEF Kept, Waiting
  <2>3. ASSUME NEW t \in Turn, Holds(t), i \in turnState[OwnState(t)].pending PROVE Kept(i)'
    <3>1. Holds(t)' /\ i \in turnState'[OwnState(t)].pending
      BY <2>3
    <3> QED
      BY <3>1 DEF Kept, Waiting, OwnState
  <2> QED
    BY <1>1, <2>1, <2>2, <2>3 DEF Waiting
<1>2. ASSUME NEW i, Kept(i) PROVE Kept(i)'
  BY <1>1, <1>2 DEF Kept, ItemsIn
<1> QED
  BY <1>2 DEF KeptInv

(* The slot has a turn's own TurnState, if it has one.                     *)
LEMMA SlotOwned ==
  ASSUME TypeInv, OwnStates, LateInv, slot # NoSlot
  PROVE  \E t \in Turn : slot.ts = OwnState(t)
<1>1. slot.task # NoTurn => slot.task \in Turn
  BY DEF TypeInv, SlotTyped, SlotType
<1>2. pc[Loop] = "start:install" => call[Loop].turn \in Turn
  BY Actors DEF TypeInv, StartKnows, StartPoint
<1> QED
  BY <1>1, <1>2 DEF OwnStates, LateInv

LEMMA KeptRequests ==
  ASSUME TypeInv, LoopInv, OwnStates, HandsInv, LateInv, NewsInv, KeptInv,
         NEW o \in todo, Request(o)
  PROVE  KeptInv'
<1>s. \A t \in Turn : OwnState(t) \in TurnStateId
  BY TurnStateIds DEF OwnState
<1>1. ASSUME slot # NoSlot, NEW turn, AddToSlot(o.item, turn),
             UNCHANGED <<slot, pc, call, abort, task, recorded, discarded>>
      PROVE  KeptInv'
  <2>1. PICK t \in Turn : slot.ts = OwnState(t)
    BY <1>1, SlotOwned
  <2>2. /\ turnState'[OwnState(t)].pending = turnState[OwnState(t)].pending \cup {o.item}
        /\ \A ts \in TurnStateId \ {OwnState(t)} : turnState'[ts] = turnState[ts]
        /\ UNCHANGED <<mailbox, staged>>
        /\ accepted' = accepted \cup {<<o.item, turn>>}
    BY <1>1, <1>s, <2>1 DEF AddToSlot, TypeInv, QueuesTyped, QueueType
  <2>3. \A u \in Turn : Holds(u) => Holds(u)'
    BY <1>1 DEF Holds, OwnState
  <2>4. Kept(o.item)'
    <3>1. Holds(t)' /\ o.item \in turnState'[OwnState(t)].pending
      BY <1>1, <2>1, <2>2 DEF Holds, OwnState
    <3> QED
      BY <3>1 DEF Kept, Waiting, OwnState
  <2>5. \A u \in Turn : turnState[OwnState(u)].pending \subseteq turnState'[OwnState(u)].pending
    BY <1>s, <2>2
  <2> QED
    BY <1>1, <2>2, <2>3, <2>4, <2>5, KeptStays
<1>2. ASSUME UNCHANGED <<slot, queueVars, accepted, recorded, discarded>>,
             \A t \in Turn : task[t].items \subseteq task'[t].items,
             \A t \in Turn : pc[t] = "finish:record" => pc'[t] = "finish:record",
             pc[Loop] \notin AbortPoint \/ (UNCHANGED abort /\ pc'[Loop] = pc[Loop]),
             call'[Loop].items = call[Loop].items
      PROVE  KeptInv'
  <2>1. \A u \in Turn : Holds(u) => Holds(u)'
    BY <1>2 DEF Holds, OwnState
  <2> QED
    BY <1>2, <2>1, KeptStays DEF queueVars
<1>3. CASE Steer(o)
  <2>1. Steerable => slot # NoSlot
    BY DEF Steerable, SteerTarget, NoSlot
  <2> QED
    BY <1>1, <1>2, <1>3, <2>1 DEF Steer
<1>4. CASE CancelSteer(o)
  <2>1. CASE UNCHANGED <<turnState, accepted>>
    BY <1>2, <1>4, <2>1 DEF CancelSteer, queueVars
  <2>2. CASE /\ slot.task # NoTurn /\ <<o.item, slot.task>> \in accepted
             /\ turnState' = [turnState EXCEPT ![slot.ts].pending = @ \ {o.item}]
             /\ accepted' = accepted \ {<<o.item, slot.task>>}
    <3>1. UNCHANGED <<slot, mailbox, staged, pc, call, abort, task, recorded, discarded>>
      BY <1>4 DEF CancelSteer
    <3>2. \A i \in Precious : \A u : <<i, u>> \in accepted' => i # o.item /\ <<i, u>> \in accepted
      BY <2>2 DEF NewsInv
    <3>3. \A ts \in TurnStateId :
            turnState[ts].pending \ {o.item} \subseteq turnState'[ts].pending
      BY <2>2 DEF TypeInv, QueuesTyped, QueueType
    <3>4. ASSUME NEW i, i # o.item, Waiting(i) PROVE Kept(i)'
      <4>1. ASSUME NEW t \in Turn, Holds(t), i \in turnState[OwnState(t)].pending
            PROVE  Kept(i)'
        <5>1. Holds(t)' /\ i \in turnState'[OwnState(t)].pending
          BY <1>s, <3>1, <3>3, <3>4, <4>1 DEF Holds, OwnState
        <5> QED
          BY <5>1 DEF Kept, Waiting, OwnState
      <4>2. CASE i \in mailbox \/ i \in staged \/ i \in call[Loop].items
        BY <3>1, <4>2 DEF Kept, Waiting
      <4>3. ASSUME NEW t \in Turn, i \in task[t].items PROVE Kept(i)'
        BY <3>1, <4>3 DEF Kept, Waiting
      <4> QED
        BY <3>4, <4>1, <4>2, <4>3 DEF Waiting
    <3>5. ASSUME NEW i, i # o.item, Kept(i) PROVE Kept(i)'
      BY <3>1, <3>4, <3>5 DEF Kept
    <3> QED
      BY <3>2, <3>5 DEF KeptInv
  <2> QED
    BY <1>4, <2>1, <2>2 DEF CancelSteer
<1>5. CASE Inject(o)
  <2>1. CASE slot # NoSlot /\ AddToSlot(o.item, NoTurn) /\ UNCHANGED recorded
    BY <1>1, <1>5, <2>1 DEF Inject
  <2>2. CASE UNCHANGED <<queueVars, accepted, recorded>>
    BY <1>2, <1>5, <2>2 DEF Inject
  <2>3. CASE /\ recorded' = recorded \cup {<<o.item, NoTurn>>} /\ UNCHANGED queueVars
             /\ accepted' = accepted \cup {<<o.item, NoTurn>>}
    <3>1. UNCHANGED <<slot, pc, call, abort, task, discarded>>
      BY <1>5 DEF Inject
    <3>2. Kept(o.item)'
      <4>1. <<o.item, NoTurn>> \in recorded' /\ <<o.item, NoTurn>>[1] = o.item
        BY <2>3
      <4> QED
        BY <4>1 DEF Kept, ItemsIn
    <3>3. \A u \in Turn : Holds(u) => Holds(u)'
      BY <3>1 DEF Holds, OwnState
    <3> QED
      BY <2>3, <3>1, <3>2, <3>3, KeptStays DEF queueVars
  <2> QED
    BY <1>5, <2>1, <2>2, <2>3 DEF Inject
<1>6. CASE LoopMail(o) \/ LoopStage(o)
  <2>1. /\ UNCHANGED <<slot, turnState, task, recorded, discarded, abort>>
        /\ \A t \in Turn : pc'[t] = pc[t]
        /\ call'[Loop].items = call[Loop].items /\ pc[Loop] = "idle"
    BY <1>6, Actors
    DEF LoopMail, LoopStage, Goto, TypeInv, PcTyped, CallTyped, CallType
  <2>2. /\ mailbox \subseteq mailbox' /\ staged \subseteq staged'
        /\ accepted' = accepted \cup {<<o.item, NoTurn>>}
        /\ o.item \in mailbox' \/ o.item \in staged'
    BY <1>6 DEF LoopMail, LoopStage
  <2>3. Kept(o.item)'
    BY <2>2 DEF Kept, Waiting
  <2>4. \A u \in Turn : Holds(u) => Holds(u)'
    BY <2>1 DEF Holds, OwnState, AbortPoint
  <2> QED
    BY <2>1, <2>2, <2>3, <2>4, KeptStays
<1>7. CASE LoopRelease(o)
  <2>1. /\ mailbox' = mailbox \cup (staged \cap {o.item}) /\ staged' = staged \ {o.item}
        /\ UNCHANGED <<slot, turnState, pc, call, abort, task, recorded, discarded, accepted>>
    BY <1>7 DEF LoopRelease, itemVars
  <2>2. ASSUME NEW i PROVE /\ i \in mailbox \/ i \in staged \/ i \in call[Loop].items => Kept(i)'
                           /\ \A t \in Turn : i \in task[t].items => Kept(i)'
    BY <2>1 DEF Kept, Waiting
  <2>3. ASSUME NEW i, NEW t \in Turn, Holds(t), i \in turnState[OwnState(t)].pending
        PROVE  Kept(i)'
    <3>1. Holds(t)' /\ i \in turnState'[OwnState(t)].pending
      BY <2>1, <2>3 DEF Holds, OwnState
    <3> QED
      BY <3>1 DEF Kept, Waiting, OwnState
  <2> QED
    BY <2>1, <2>2, <2>3, KeptFrame
<1>8. CASE LoopStartPendingWork(o) \/ LoopInterrupt(o)
  <2>1. /\ \A t \in Turn : pc'[t] = pc[t]
        /\ call'[Loop].items = call[Loop].items /\ pc[Loop] = "idle"
        /\ UNCHANGED <<slot, queueVars, task, accepted, recorded, discarded>>
    BY <1>8, Actors
    DEF LoopStartPendingWork, LoopInterrupt, Goto, itemVars, TypeInv, PcTyped, CallTyped,
        CallType
  <2> QED
    BY <1>2, <2>1 DEF AbortPoint
<1>9. CASE ExtIdleStart(o)
  BY <1>9 DEF ExtIdleStart, LoopInv, StartsOnly
<1>10. CASE LoopUserInput(o) \/ LoopSpawn(o)
  <2>1. CASE Steerable /\ AddToSlot(o.item, slot.task) /\ UNCHANGED <<pc, call, task>>
             /\ LoopUserInput(o)
    <3>1. slot # NoSlot
      BY <2>1 DEF Steerable, SteerTarget, NoSlot
    <3> QED
      BY <1>1, <2>1, <3>1 DEF LoopUserInput
  <2>2. CASE UNCHANGED <<slot, queueVars, accepted, recorded, discarded, pc, call, task, abort>>
    BY <1>2, <2>2
  <2>3. ASSUME NEW t \in Turn, pc[t] = "unused", NEW x, NEW p,
               pc' = [pc EXCEPT ![t] = "queued", ![Loop] = p],
               task' = [task EXCEPT ![t] = x], call'[Loop].items = call[Loop].items,
               pc[Loop] = "idle",
               UNCHANGED <<slot, queueVars, accepted, recorded, discarded>>
        PROVE  KeptInv'
    <3>1. task[t].items = {}
      BY <2>3 DEF HandsInv, Hand, HandPoint
    <3>2. \A u \in Turn : task[u].items \subseteq task'[u].items
      BY <2>3, <3>1 DEF TypeInv, TaskTyped
    <3>3. \A u \in Turn : pc[u] = "finish:record" => pc'[u] = "finish:record"
      BY <2>3, Actors DEF TypeInv, PcTyped
    <3> QED
      BY <1>2, <2>3, <3>2, <3>3 DEF AbortPoint
  <2>4. CASE LoopUserInput(o)
    <3>1. ASSUME NEW t \in Turn, NewTurn(Loop, t, "Regular", {o.item}, "route"),
                 UNCHANGED <<queueVars, accepted>>
          PROVE  KeptInv'
      <4>1. call'[Loop].items = call[Loop].items
        BY <3>1, Actors DEF NewTurn, TypeInv, CallTyped, CallType
      <4> QED
        BY <2>3, <2>4, <3>1, <4>1 DEF NewTurn, FreshTurn, LoopUserInput
    <3> QED
      BY <2>1, <2>2, <2>4, <3>1 DEF LoopUserInput
  <2>5. CASE LoopSpawn(o)
    <3>1. ASSUME NEW t \in Turn, FreshTurn(t), NEW x,
                 pc' = [pc EXCEPT ![t] = "queued", ![Loop] = "abort:take"],
                 task' = [task EXCEPT ![t] = x],
                 call' = [call EXCEPT ![Loop].turn = t, ![Loop].ret = "idle"]
          PROVE  KeptInv'
      <4>1. call'[Loop].items = call[Loop].items
        BY <3>1, Actors DEF TypeInv, CallTyped, CallType
      <4> QED
        BY <2>3, <2>5, <3>1, <4>1 DEF FreshTurn, LoopSpawn, itemVars
    <3> QED
      BY <2>2, <2>5, <3>1 DEF LoopSpawn, itemVars
  <2> QED
    BY <1>10, <2>4, <2>5
<1> QED
  BY <1>3, <1>4, <1>5, <1>6, <1>7, <1>8, <1>9, <1>10 DEF Request

(* The mail that the loop takes for the turn it starts goes into its       *)
(* TurnState, which is then in the slot.                                   *)
LEMMA KeptStarts ==
  ASSUME LoopStartsAlone, TypeInv, LoopInv, OwnStates, HandsInv, KeptInv, NEW a \in Actor,
         StartStep(a)
  PROVE  KeptInv'
<1>s. \A t \in Turn : OwnState(t) \in TurnStateId
  BY TurnStateIds DEF OwnState
<1>r. call[a].ret \in {"idle", "exited", "finish:wake", "done"}
  BY CallFields DEF TypeInv, CallTyped
<1>a. pc[a] \in StartPoint => a = Loop
  BY DEF LoopInv, OthersDoNotStart, Over, RunPoint, StartPoint, Actor
<1>1. CASE MaybeCheck(a)
  <2>1. pc'[a] = call[a].ret /\ \A b \in Actor \ {a} : pc'[b] = pc[b]
    BY <1>1, NoTriggerMail DEF MaybeCheck, Return, Goto, TypeInv, PcTyped
  <2>2. /\ UNCHANGED <<slot, queueVars, call, abort, task, itemVars>>
        /\ pc[a] = "maybe:check"
    BY <1>1 DEF MaybeCheck
  <2>3. \A t \in Turn : Holds(t) => Holds(t)'
    BY <2>1, <2>2, Actors DEF Holds, OwnState, AbortPoint
  <2> QED
    BY <2>2, <2>3, KeptStays DEF queueVars, itemVars
<1>2. CASE StartTake(a)
  <2>1. /\ a = Loop /\ pc[Loop] = "start:take" /\ \A t \in Turn : pc'[t] = pc[t]
        /\ UNCHANGED <<slot, task, itemVars>>
    BY <1>a, <1>2, Actors DEF StartTake, Goto, StartPoint, TypeInv, PcTyped
  <2>2. slot = NoSlot /\ call[Loop].items = {}
    BY <2>1 DEF OwnStates, HandsInv
  <2>3. call'[Loop].items = mailbox
    BY <1>2, <2>1, <2>2, Actors
    DEF StartTake, PendingInput, SlotPending, AcceptsMailbox, TypeInv, CallTyped, CallType
  <2>4. UNCHANGED <<turnState, staged>>
    BY <1>2, <2>2 DEF StartTake, DrainPendingInput
  <2>5. \A t \in Turn : Holds(t) => Holds(t)'
    BY <2>1 DEF Holds, OwnState, AbortPoint
  <2>6. ASSUME NEW i
        PROVE  /\ i \in mailbox \/ i \in staged \/ i \in call[Loop].items => Kept(i)'
               /\ \A t \in Turn : i \in task[t].items => Kept(i)'
               /\ \A t \in Turn : Holds(t) /\ i \in turnState[OwnState(t)].pending => Kept(i)'
    <3>1. i \in mailbox \/ i \in staged \/ i \in call[Loop].items => Kept(i)'
      BY <2>2, <2>3, <2>4 DEF Kept, Waiting
    <3>2. \A t \in Turn : i \in task[t].items => Kept(i)'
      BY <2>1 DEF Kept, Waiting
    <3>3. ASSUME NEW t \in Turn, Holds(t), i \in turnState[OwnState(t)].pending
          PROVE  Kept(i)'
      <4>1. Holds(t)' /\ i \in turnState'[OwnState(t)].pending
        BY <2>4, <2>5, <3>3
      <4> QED
        BY <4>1 DEF Kept, Waiting, OwnState
    <3> QED
      BY <3>1, <3>2, <3>3
  <2> QED
    BY <2>1, <2>6, KeptFrame DEF itemVars
<1>3. CASE StartAttach(a)
  <2>1. /\ a = Loop /\ pc[Loop] = "start:attach" /\ \A t \in Turn : pc'[t] = pc[t]
        /\ UNCHANGED <<mailbox, staged, task, itemVars>>
    BY <1>a, <1>3, Actors DEF StartAttach, Goto, StartPoint, TypeInv, PcTyped
  <2>2. slot = NoSlot
    BY <2>1 DEF OwnStates
  <2>t. PICK t \in Turn : t = call[Loop].turn
    BY <2>1 DEF TypeInv, StartKnows, StartPoint
  <2>3. /\ slot'.ts = OwnState(t)
        /\ turnState' = [turnState EXCEPT ![OwnState(t)].pending = @ \cup call[Loop].items]
    BY <1>3, <2>1, <2>2, <2>t DEF StartAttach, OwnState, NoSlot
  <2>4. /\ turnState'[OwnState(t)].pending
             = turnState[OwnState(t)].pending \cup call[Loop].items
        /\ \A u \in Turn : turnState[OwnState(u)].pending \subseteq turnState'[OwnState(u)].pending
    BY <1>s, <2>3 DEF TypeInv, QueuesTyped, QueueType
  <2>5. \A u \in Turn : Holds(u) => Holds(u)'
    BY <2>1, <2>2, Actors DEF Holds, OwnState, AbortPoint, NoSlot, TurnStateId, NoTurnState
  <2>6. ASSUME NEW i
        PROVE  /\ i \in mailbox \/ i \in staged \/ i \in call[Loop].items => Kept(i)'
               /\ \A u \in Turn : i \in task[u].items => Kept(i)'
               /\ \A u \in Turn : Holds(u) /\ i \in turnState[OwnState(u)].pending => Kept(i)'
    <3>1. i \in mailbox \/ i \in staged => Kept(i)'
      BY <2>1 DEF Kept, Waiting
    <3>2. \A u \in Turn : i \in task[u].items => Kept(i)'
      BY <2>1 DEF Kept, Waiting
    <3>3. ASSUME NEW u \in Turn, Holds(u), i \in turnState[OwnState(u)].pending
          PROVE  Kept(i)'
      <4>1. Holds(u)' /\ i \in turnState'[OwnState(u)].pending
        BY <2>4, <2>5, <3>3
      <4> QED
        BY <4>1 DEF Kept, Waiting, OwnState
    <3>4. ASSUME i \in call[Loop].items PROVE Kept(i)'
      <4>1. Holds(t)' /\ i \in turnState'[OwnState(t)].pending
        BY <2>3, <2>4, <3>4 DEF Holds, OwnState
      <4> QED
        BY <4>1 DEF Kept, Waiting, OwnState
    <3> QED
      BY <3>1, <3>2, <3>3, <3>4
  <2> QED
    BY <2>1, <2>6, KeptFrame DEF itemVars
<1>4. CASE StartInstall(a)
  <2>1. /\ a = Loop /\ pc[Loop] = "start:install"
        /\ UNCHANGED <<queueVars, task, itemVars>>
    BY <1>a, <1>4 DEF StartInstall, StartPoint
  <2>t. PICK t \in Turn : t = call[Loop].turn
    BY <2>1, Actors DEF StartPoint, TypeInv, StartKnows
  <2>2. slot.task = NoTurn /\ slot.ts = OwnState(t)
    BY <2>1, <2>t DEF LoopInv, LoopOwnsSlot, StartPoint, OwnStates
  <2>3. slot # NoSlot
    BY <2>2, Actors DEF NoSlot, OwnState, NoTurnState
  <2>4. slot'.ts = slot.ts
    BY <1>4, <2>3 DEF StartInstall
  <2>5. pc[t] = "queued" /\ \A u \in Turn \ {t} : pc'[u] = pc[u]
    BY <1>4, <2>1, <2>2, <2>t, Actors DEF StartInstall, LoopInv, NextTurnWaits, StartPoint
  <2>6. call'[Loop].items = call[Loop].items
    BY <1>4, <2>1, Actors DEF StartInstall, TypeInv, CallTyped, CallType
  <2>7. \A u \in Turn : Holds(u) => Holds(u)'
    BY <2>1, <2>4, <2>5 DEF Holds, OwnState, AbortPoint
  <2> QED
    BY <2>1, <2>6, <2>7, KeptStays DEF queueVars, itemVars
<1> QED
  BY <1>1, <1>2, <1>3, <1>4, NeverReserves DEF StartStep

(* The loop takes the TurnState of the turn it aborts with the task, and   *)
(* drops what is in it.                                                    *)
LEMMA KeptLoop ==
  ASSUME TypeInv, LoopInv, OwnStates, HandsInv, LateInv, NewsInv, KeptInv,
         LoopRouted \/ AbortTake \/ AbortCancel \/ AbortKill \/ AbortEvent \/ AbortClear
  PROVE  KeptInv'
<1>s. \A t \in Turn : OwnState(t) \in TurnStateId
  BY TurnStateIds DEF OwnState
<1>r. call[Loop].ret \in {"idle", "exited"}
  BY DEF LoopInv, OthersDoNotStart
<1>1. CASE LoopRouted
  <2>1. PICK t \in Turn : t = call[Loop].turn
    BY <1>1 DEF LoopRouted, TypeInv, LoopKnows
  <2>2. pc[t] = "queued" /\ pc[Loop] = "route" /\ Unspawned(t)
    BY <1>1, <2>1 DEF LoopRouted, LoopInv, NextTurnWaits, Unspawned
  <2>3. \A u \in Turn \ {t} : pc'[u] = pc[u]
    BY <1>1, <2>1, Actors DEF LoopRouted, Goto, TypeInv, PcTyped
  <2>4. /\ UNCHANGED <<slot, queueVars, recorded, discarded>>
        /\ call'[Loop].items = call[Loop].items
    BY <1>1, Actors DEF LoopRouted, TypeInv, CallTyped, CallType
  <2>5. \A u \in Turn : Holds(u) => Holds(u)'
    BY <2>2, <2>3, <2>4 DEF Holds, OwnState, AbortPoint
  <2>6. CASE accepted' = accepted \cup (task[t].items \X {t}) /\ UNCHANGED task
    <3>1. \A i \in task[t].items : Kept(i)'
      BY <2>6 DEF Kept, Waiting
    <3> QED
      BY <2>4, <2>5, <2>6, <3>1, KeptStays DEF queueVars
  <2>7. CASE task' = [task EXCEPT ![t].items = {}] /\ UNCHANGED accepted
    <3>1. \A u \in Turn \ {t} : task'[u] = task[u]
      BY <2>7 DEF TypeInv, TaskTyped
    <3>2. \A i \in task[t].items : \A u : <<i, u>> \notin accepted
      BY <2>2 DEF NewsInv
    <3>3. ASSUME NEW i, i \notin task[t].items, Waiting(i) PROVE Kept(i)'
      <4>1. CASE i \in mailbox \/ i \in staged \/ i \in call[Loop].items
        BY <2>4, <4>1 DEF Kept, Waiting, queueVars
      <4>2. ASSUME NEW u \in Turn, i \in task[u].items PROVE Kept(i)'
        BY <3>1, <3>3, <4>2 DEF Kept, Waiting
      <4>3. ASSUME NEW u \in Turn, Holds(u), i \in turnState[OwnState(u)].pending
            PROVE  Kept(i)'
        <5>1. Holds(u)' /\ i \in turnState'[OwnState(u)].pending
          BY <2>4, <2>5, <4>3 DEF queueVars
        <5> QED
          BY <5>1 DEF Kept, Waiting, OwnState
      <4> QED
        BY <3>3, <4>1, <4>2, <4>3 DEF Waiting
    <3>4. \A i \in Precious : \A u : <<i, u>> \in accepted' => Kept(i)'
      <4> SUFFICES ASSUME NEW i \in Precious, NEW u, <<i, u>> \in accepted' PROVE Kept(i)'
        OBVIOUS
      <4>1. Kept(i) /\ i \notin task[t].items
        BY <2>7, <3>2 DEF KeptInv
      <4> QED
        BY <2>4, <3>3, <4>1 DEF Kept
    <3> QED
      BY <3>4 DEF KeptInv
  <2> QED
    BY <1>1, <2>1, <2>6, <2>7 DEF LoopRouted
<1>2. CASE AbortTake
  <2>1. /\ pc[Loop] = "abort:take" /\ UNCHANGED <<queueVars, call, task, itemVars>>
        /\ \A t \in Turn : pc'[t] = pc[t]
    BY <1>2, Actors DEF AbortTake, Goto, TypeInv, PcTyped
  <2>2. slot.task # NoTurn => pc'[Loop] = "abort:cancel" /\ abort'.victim = slot.task
    BY <1>2, Actors DEF AbortTake, Goto, TypeInv, PcTyped, AbortTyped, AbortType
  <2>3. ASSUME NEW i \in Precious, NEW t \in Turn, Holds(t),
               i \in turnState[OwnState(t)].pending
        PROVE  Kept(i)'
    <3>1. Holds(t)'
      <4>1. CASE pc[t] = "finish:record"
        BY <2>1, <4>1 DEF Holds
      <4>2. CASE slot.ts = OwnState(t) /\ slot.task # NoTurn
        <5>1. slot.task = t
          BY <4>2 DEF OwnStates, OwnState
        <5> QED
          BY <2>2, <4>2, <5>1 DEF Holds, AbortPoint
      <4>3. CASE slot.ts = OwnState(t) /\ slot.task = NoTurn
        <5>1. slot # NoSlot
          BY <4>3, Actors DEF NoSlot, OwnState, NoTurnState
        <5>2. PICK u \in Turn : pc[u] \in FinishPoint /\ slot.ts = OwnState(u)
          BY <2>1, <4>3, <5>1 DEF LateInv
        <5>3. u = t
          BY <4>3, <5>2 DEF OwnState
        <5>4. pc[t] = "finish:record"
          BY <2>3, <5>2, <5>3 DEF LateInv, LatePoint, FinishPoint
        <5> QED
          BY <2>1, <5>4 DEF Holds
      <4> QED
        BY <2>1, <2>3, <4>1, <4>2, <4>3 DEF Holds, AbortPoint
    <3>2. i \in turnState'[OwnState(t)].pending
      BY <2>1, <2>3 DEF queueVars
    <3> QED
      BY <3>1, <3>2 DEF Kept, Waiting, OwnState
  <2>4. ASSUME NEW i PROVE /\ i \in mailbox \/ i \in staged \/ i \in call[Loop].items => Kept(i)'
                           /\ \A t \in Turn : i \in task[t].items => Kept(i)'
    BY <2>1 DEF Kept, Waiting, queueVars
  <2> QED
    BY <2>1, <2>3, <2>4, KeptFrame DEF itemVars
<1>3. CASE AbortCancel \/ AbortEvent
  <2>1. /\ UNCHANGED <<slot, queueVars, call, abort, itemVars>>
        /\ \A t \in Turn : pc'[t] = pc[t]
        /\ pc'[Loop] \in AbortPoint
    BY <1>3, Actors
    DEF AbortCancel, AbortEvent, AbortPoint, LoopInv, VictimNotCancelled, Goto, TypeInv, PcTyped
  <2>2. \A t \in Turn : task'[t].items = task[t].items
    BY <1>3 DEF AbortCancel, AbortEvent, TypeInv, TaskTyped, TaskType
  <2>3. \A t \in Turn : Holds(t) => Holds(t)'
    BY <2>1 DEF Holds, OwnState
  <2> QED
    BY <2>1, <2>2, <2>3, KeptStays DEF queueVars, itemVars
<1>4. CASE AbortKill
  <2>1. PICK v \in Turn : v = abort.victim
    BY <1>4 DEF AbortKill, TypeInv, LoopKnows, AbortPoint
  <2>2. pc[v] # "finish:record" /\ \A u \in Turn \ {v} : pc'[u] = pc[u]
    BY <1>4, <2>1, Actors
    DEF AbortKill, LoopInv, LoopOwnsSlot, Running, RunPoint, TypeInv, PcTyped
  <2>3. /\ UNCHANGED <<slot, queueVars, call, abort, accepted, recorded>>
        /\ discarded' = discarded \cup task[v].items
        /\ pc'[Loop] \in AbortPoint
        /\ \A u \in Turn \ {v} : task'[u] = task[u]
    BY <1>4, <2>1, Actors DEF AbortKill, AbortPoint, TypeInv, PcTyped, TaskTyped
  <2>4. \A t \in Turn : Holds(t) => Holds(t)'
    BY <2>2, <2>3 DEF Holds, OwnState
  <2>5. ASSUME NEW i
        PROVE  /\ i \in mailbox \/ i \in staged \/ i \in call[Loop].items => Kept(i)'
               /\ \A t \in Turn : i \in task[t].items => Kept(i)'
    BY <2>3 DEF Kept, Waiting, queueVars
  <2>6. ASSUME NEW i, NEW t \in Turn, Holds(t), i \in turnState[OwnState(t)].pending
        PROVE  Kept(i)'
    <3>1. Holds(t)' /\ i \in turnState'[OwnState(t)].pending
      BY <2>3, <2>4, <2>6 DEF queueVars
    <3> QED
      BY <3>1 DEF Kept, Waiting, OwnState
  <2> QED
    BY <2>3, <2>5, <2>6, KeptFrame
<1>5. CASE AbortClear
  <2>1. PICK v \in Turn : v = abort.victim
    BY <1>5 DEF AbortClear, TypeInv, LoopKnows, AbortPoint
  <2>2. pc[Loop] = "abort:clear" /\ abort.ts = OwnState(v) /\ slot = NoSlot
    BY <1>5, <2>1 DEF AbortClear, OwnStates, AbortPoint
  <2>3. /\ UNCHANGED <<slot, mailbox, staged, call, task, accepted, recorded>>
        /\ discarded' = discarded \cup turnState[OwnState(v)].pending
        /\ \A t \in Turn : pc'[t] = pc[t]
        /\ \A ts \in TurnStateId \ {OwnState(v)} : turnState'[ts] = turnState[ts]
    BY <1>5, <2>2, Actors DEF AbortClear, Goto, TypeInv, PcTyped, QueuesTyped
  <2>4. ASSUME NEW i, NEW t \in Turn, Holds(t), i \in turnState[OwnState(t)].pending
        PROVE  Kept(i)'
    <3>1. CASE t = v
      BY <2>3, <2>4, <3>1 DEF Kept
    <3>2. CASE t # v
      <4>1. slot.ts # OwnState(t)
        BY <2>2, Actors DEF NoSlot, OwnState, NoTurnState
      <4>2. pc[t] = "finish:record"
        BY <2>1, <2>4, <3>2, <4>1 DEF Holds
      <4>3. Holds(t)'
        BY <2>3, <4>2 DEF Holds
      <4>4. i \in turnState'[OwnState(t)].pending
        BY <1>s, <2>3, <2>4, <3>2 DEF OwnState
      <4> QED
        BY <4>3, <4>4 DEF Kept, Waiting, OwnState
    <3> QED
      BY <3>1, <3>2
  <2>5. ASSUME NEW i
        PROVE  /\ i \in mailbox \/ i \in staged \/ i \in call[Loop].items => Kept(i)'
               /\ \A t \in Turn : i \in task[t].items => Kept(i)'
    BY <2>3 DEF Kept, Waiting
  <2> QED
    BY <2>3, <2>4, <2>5, KeptFrame
<1> QED
  BY <1>1, <1>2, <1>3, <1>4, <1>5

(* What get_pending_input takes out of the queues it returns.              *)
LEMMA DrainKeeps ==
  ASSUME TypeInv, DrainPendingInput
  PROVE  /\ \A i \in mailbox : i \in mailbox' \/ i \in PendingInput
         /\ \A ts \in TurnStateId : \A i \in turnState[ts].pending :
              i \in turnState'[ts].pending \/ i \in PendingInput
         /\ staged' = staged
<1>1. slot # NoSlot => slot.ts \in TurnStateId
  BY DEF TypeInv, SlotTyped
<1>2. CASE ~AcceptsMailbox \/ slot = NoSlot
  BY <1>2 DEF DrainPendingInput, PendingInput, SlotPending
<1>3. CASE AcceptsMailbox /\ slot # NoSlot
  <2>1. /\ mailbox' = {} /\ staged' = staged
        /\ \A ts \in TurnStateId \ {slot.ts} : turnState'[ts] = turnState[ts]
    BY <1>1, <1>3 DEF DrainPendingInput, TypeInv, QueuesTyped
  <2>2. PendingInput = turnState[slot.ts].pending \cup mailbox
    BY <1>3 DEF PendingInput, SlotPending
  <2> QED
    BY <2>1, <2>2
<1> QED
  BY <1>2, <1>3

(* A task that does not drain the queues leaves them alone.                *)
LEMMA RunQueues ==
  ASSUME TypeInv, NEW t \in Turn, RunStep(t), ~TaskDrain(t)
  PROVE  /\ UNCHANGED <<mailbox, staged>>
         /\ \A ts \in TurnStateId : turnState'[ts].pending = turnState[ts].pending
<1>1. CASE TaskStream(t) \/ TaskFollowUp(t) \/ TaskStopBlocked(t)
  BY <1>1
  DEF TaskStream, TaskFollowUp, TaskStopBlocked, AcceptMailbox, DeferMailbox, TypeInv,
      QueuesTyped, QueueType
<1>2. CASE ~TaskStream(t) /\ ~TaskFollowUp(t) /\ ~TaskStopBlocked(t)
  BY <1>2
  DEF RunStep, TaskBegin, TaskWork, TaskPrepare, TaskPrepareFailed, TaskRecord, TaskAnswered,
      TaskSampleFailed, TaskStop, TaskAfterTurn, TaskCheckCancelled, queueVars
<1> QED
  BY <1>1, <1>2

(* Accepted items leave a task's hands for the conversation or are dropped *)
(* by a hook or a failed preparation.                                      *)
LEMMA RunHands ==
  ASSUME TypeInv, HandsInv, NewsInv, NEW t \in Turn, RunStep(t), ~TaskDrain(t)
  PROVE  /\ recorded \subseteq recorded' /\ discarded \subseteq discarded'
         /\ \A i \in task[t].items : \A u : <<i, u>> \in accepted =>
              i \in task'[t].items \/ <<i, t>> \in recorded' \/ i \in discarded'
<1>1. CASE TaskPrepare(t) \/ TaskRecord(t)
  <2>1. PICK next : RecordInputs(t, task[t].items, next)
    BY <1>1 DEF TaskPrepare, TaskRecord
  <2> QED
    BY <2>1 DEF RecordInputs
<1>2. CASE TaskPrepareFailed(t)
  BY <1>2 DEF TaskPrepareFailed
<1>3. CASE TaskWork(t)
  <2>1. Unspawned(t)
    BY <1>3 DEF TaskWork, HandsInv, Hand, Unspawned
  <2> QED
    BY <1>3, <2>1 DEF TaskWork, NewsInv, itemVars
<1>4. CASE \/ TaskBegin(t) \/ TaskStream(t) \/ TaskStop(t) \/ TaskStopBlocked(t)
           \/ TaskAfterTurn(t) \/ TaskCheckCancelled(t) \/ TaskFollowUp(t) \/ TaskAnswered(t)
           \/ TaskSampleFailed(t)
  BY <1>4
  DEF TaskBegin, TaskStream, TaskStop, TaskStopBlocked, TaskAfterTurn, TaskCheckCancelled,
      TaskFollowUp, TaskAnswered, TaskSampleFailed, itemVars, TypeInv, TaskTyped, TaskType
<1> QED
  BY <1>1, <1>2, <1>3, <1>4 DEF RunStep

LEMMA KeptRuns ==
  ASSUME TypeInv, HandsInv, NewsInv, KeptInv, NEW t \in Turn, RunStep(t)
  PROVE  KeptInv'
<1>s. \A u \in Turn : OwnState(u) \in TurnStateId
  BY TurnStateIds DEF OwnState
<1>1. \A u \in Turn : Holds(u) => Holds(u)'
  <2>1. /\ pc'[Loop] = pc[Loop] /\ UNCHANGED <<slot, abort>>
        /\ \A u \in Turn : pc[u] = "finish:record" => pc'[u] = pc[u]
    BY RunShape, Actors DEF RunPoint
  <2> QED
    BY <2>1 DEF Holds, OwnState
<1>2. ASSUME NEW i, NEW u \in Turn, Holds(u), i \in turnState'[OwnState(u)].pending
      PROVE  Kept(i)'
  <2>1. Holds(u)'
    BY <1>1, <1>2
  <2> QED
    BY <1>2, <2>1 DEF Kept, Waiting, OwnState
<1>3. UNCHANGED <<call, accepted>> /\ \A u \in Turn \ {t} : task'[u] = task[u]
  BY RunShape, TaskShape
<1>4. CASE TaskDrain(t)
  <2>1. task[t].items = {} /\ UNCHANGED <<recorded, discarded>>
    BY <1>4 DEF TaskDrain, HandsInv, Hand, HandPoint, itemVars
  <2>2. CASE UNCHANGED <<task, queueVars>>
    BY <1>1, <1>3, <2>1, <2>2, KeptStays DEF queueVars
  <2>3. CASE task' = [task EXCEPT ![t].items = PendingInput] /\ DrainPendingInput
    <3>1. task'[t].items = PendingInput
      BY <2>3 DEF TypeInv, TaskTyped, TaskType
    <3>2. \A i : i \in PendingInput => Kept(i)'
      BY <3>1 DEF Kept, Waiting
    <3>3. ASSUME NEW i
          PROVE  /\ i \in mailbox => Kept(i)'
                 /\ i \in staged => Kept(i)'
                 /\ i \in call[Loop].items => Kept(i)'
      BY <1>3, <2>3, <3>2, DrainKeeps DEF Kept, Waiting
    <3>4. ASSUME NEW i, NEW u \in Turn, i \in task[u].items PROVE Kept(i)'
      BY <1>3, <2>1, <3>4 DEF Kept, Waiting
    <3>5. ASSUME NEW i, NEW u \in Turn, Holds(u), i \in turnState[OwnState(u)].pending
          PROVE  Kept(i)'
      BY <1>2, <1>s, <2>3, <3>2, <3>5, DrainKeeps
    <3> QED
      BY <1>3, <2>1, <3>3, <3>4, <3>5, KeptFrame
  <2> QED
    BY <1>4, <2>2, <2>3 DEF TaskDrain
<1>5. CASE ~TaskDrain(t)
  <2>1. recorded \subseteq recorded' /\ discarded \subseteq discarded'
    BY <1>5, RunHands
  <2>2. ASSUME NEW i
        PROVE  /\ i \in mailbox => Kept(i)'
               /\ i \in staged => Kept(i)'
               /\ i \in call[Loop].items => Kept(i)'
    BY <1>3, <1>5, RunQueues DEF Kept, Waiting
  <2>3. ASSUME NEW i, NEW v, <<i, v>> \in accepted, NEW u \in Turn, i \in task[u].items
        PROVE  Kept(i)'
    <3>1. CASE u = t
      <4>1. i \in task'[t].items \/ <<i, t>> \in recorded' \/ i \in discarded'
        BY <1>5, <2>3, <3>1, RunHands
      <4>2. <<i, t>> \in recorded' => i \in ItemsIn(recorded)'
        BY DEF ItemsIn
      <4> QED
        BY <4>1, <4>2 DEF Kept, Waiting
    <3>2. CASE u # t
      BY <1>3, <2>3, <3>2 DEF Kept, Waiting
    <3> QED
      BY <3>1, <3>2
  <2>4. ASSUME NEW i, NEW u \in Turn, Holds(u), i \in turnState[OwnState(u)].pending
        PROVE  Kept(i)'
    BY <1>2, <1>5, <1>s, <2>4, RunQueues
  <2> QED
    BY <1>3, <2>1, <2>2, <2>3, <2>4, KeptFrame
<1> QED
  BY <1>4, <1>5

(* The finishing task records what is left in its TurnState before it lets *)
(* go of it.                                                               *)
LEMMA KeptFinishes ==
  ASSUME TypeInv, OwnStates, HandsInv, LateInv, KeptInv, NEW t \in Turn, FinishStep(t)
  PROVE  KeptInv'
<1>s. \A u \in Turn : OwnState(u) \in TurnStateId
  BY TurnStateIds DEF OwnState
<1>0. ASSUME NEW p, Goto(t, p)
      PROVE  pc'[t] = p /\ pc'[Loop] = pc[Loop] /\ \A u \in Turn \ {t} : pc'[u] = pc[u]
  BY <1>0, Actors DEF Goto, TypeInv, PcTyped
<1>1. ASSUME UNCHANGED <<queueVars, abort, itemVars>>, slot'.ts = slot.ts,
             call'[Loop].items = call[Loop].items,
             \A u \in Turn : task[u].items \subseteq task'[u].items,
             NEW p, Goto(t, p), pc[t] # "finish:record"
      PROVE  KeptInv'
  <2>1. \A u \in Turn : Holds(u) => Holds(u)'
    BY <1>0, <1>1 DEF Holds, OwnState
  <2> QED
    BY <1>1, <2>1, KeptStays DEF queueVars, itemVars
<1>2. CASE FinishTake(t)
  <2>1. PICK p : Goto(t, p)
    BY <1>2 DEF FinishTake
  <2>2. slot'.ts = slot.ts /\ \A u \in Turn : task'[u].items = task[u].items
    BY <1>2 DEF FinishTake, TypeInv, SlotTyped, SlotType, TaskTyped, TaskType
  <2> QED
    BY <1>1, <1>2, <2>1, <2>2 DEF FinishTake
<1>3. CASE FinishEvent(t)
  BY <1>1, <1>3 DEF FinishEvent
<1>4. CASE FinishIdle(t) \/ FinishWake(t)
  <2>1. PICK p : Goto(t, p)
    BY <1>4 DEF FinishIdle, FinishWake
  <2>2. call'[Loop] = call[Loop]
    BY <1>4, Actors DEF FinishIdle, FinishWake, TypeInv, CallTyped
  <2> QED
    BY <1>1, <1>4, <2>1, <2>2 DEF FinishIdle, FinishWake
<1>5. CASE FinishRecord(t)
  <2>1. /\ UNCHANGED <<slot, mailbox, staged, call, abort, task, accepted>>
        /\ task[t].ts = OwnState(t)
    BY <1>5 DEF FinishRecord, OwnStates, FinishPoint
  <2>2. \A ts \in TurnStateId \ {OwnState(t)} : turnState'[ts] = turnState[ts]
    BY <1>5, <1>s, <2>1 DEF FinishRecord, TypeInv, QueuesTyped
  <2>3. PICK blocked :
          /\ recorded' = recorded \cup ((turnState[OwnState(t)].pending \ blocked) \X {t})
          /\ discarded' = discarded \cup blocked
    BY <1>5, <2>1 DEF FinishRecord
  <2>4. ASSUME NEW i
        PROVE  /\ i \in mailbox => Kept(i)'
               /\ i \in staged => Kept(i)'
               /\ i \in call[Loop].items => Kept(i)'
               /\ \A u \in Turn : i \in task[u].items => Kept(i)'
    BY <2>1 DEF Kept, Waiting
  <2>5. ASSUME NEW i, NEW u \in Turn, Holds(u), i \in turnState[OwnState(u)].pending
        PROVE  Kept(i)'
    <3>1. CASE u = t
      <4>1. <<i, t>> \in recorded' \/ i \in discarded'
        BY <2>3, <2>5, <3>1
      <4>2. <<i, t>> \in recorded' => i \in ItemsIn(recorded)'
        BY DEF ItemsIn
      <4> QED
        BY <4>1, <4>2 DEF Kept
    <3>2. CASE u # t
      <4>1. PICK p : Goto(t, p)
        BY <1>5 DEF FinishRecord
      <4>2. Holds(u)'
        BY <1>0, <2>1, <2>5, <3>2, <4>1 DEF Holds, OwnState
      <4>3. i \in turnState'[OwnState(u)].pending
        BY <1>s, <2>2, <2>5, <3>2 DEF OwnState
      <4> QED
        BY <4>2, <4>3 DEF Kept, Waiting, OwnState
    <3> QED
      BY <3>1, <3>2
  <2>6. recorded \subseteq recorded' /\ discarded \subseteq discarded'
    BY <2>3
  <2> QED
    BY <2>1, <2>4, <2>5, <2>6, KeptFrame
<1>6. CASE FinishClear(t)
  <2>1. /\ pc[t] = "finish:clear" /\ task[t].ts = OwnState(t) /\ task[t].items = {}
        /\ UNCHANGED <<mailbox, staged, call, abort, itemVars>>
        /\ \A u \in Turn \ {t} : task'[u] = task[u]
    BY <1>6 DEF FinishClear, OwnStates, FinishPoint, HandsInv, Hand, HandPoint, TypeInv,
                TaskTyped
  <2>2. CASE UNCHANGED <<slot, turnState>> /\ Goto(t, "done")
    <3>1. \A u \in Turn : task[u].items \subseteq task'[u].items
      BY <2>1
    <3> QED
      BY <1>1, <2>1, <2>2, <3>1 DEF queueVars
  <2>3. CASE /\ slot.ts = task[t].ts /\ Goto(t, "finish:idle")
             /\ turnState' = [turnState EXCEPT ![slot.ts] = NewTurnState]
    <3>1. \A ts \in TurnStateId \ {OwnState(t)} : turnState'[ts] = turnState[ts]
      BY <2>1, <2>3 DEF TypeInv, QueuesTyped
    <3>2. ASSUME NEW i
          PROVE  /\ i \in mailbox => Kept(i)'
                 /\ i \in staged => Kept(i)'
                 /\ i \in call[Loop].items => Kept(i)'
                 /\ \A u \in Turn : i \in task[u].items => Kept(i)'
      BY <2>1 DEF Kept, Waiting
    <3>3. ASSUME NEW i \in Precious, NEW u \in Turn, Holds(u),
                 i \in turnState[OwnState(u)].pending
          PROVE  Kept(i)'
      <4>1. u # t
        BY <2>1, <3>3 DEF LateInv, LatePoint
      <4>2. slot.ts # OwnState(u)
        BY <2>1, <2>3, <4>1 DEF OwnState
      <4>3. Holds(u)'
        BY <1>0, <2>1, <2>3, <3>3, <4>1, <4>2 DEF Holds
      <4>4. i \in turnState'[OwnState(u)].pending
        BY <1>s, <3>1, <3>3, <4>1 DEF OwnState
      <4> QED
        BY <4>3, <4>4 DEF Kept, Waiting, OwnState
    <3> QED
      BY <2>1, <3>2, <3>3, KeptFrame DEF itemVars
  <2> QED
    BY <1>6, <2>2, <2>3 DEF FinishClear
<1> QED
  BY <1>2, <1>3, <1>4, <1>5, <1>6 DEF FinishStep

LEMMA KeptStep ==
  ASSUME LoopStartsAlone, TypeInv, LoopInv, OwnStates, HandsInv, LateInv, NewsInv, KeptInv,
         [Next]_vars
  PROVE  KeptInv'
<1>1. CASE UNCHANGED vars
  <2>1. \A t \in Turn : Holds(t) => Holds(t)'
    BY <1>1 DEF vars, Holds, OwnState
  <2> QED
    BY <1>1, <2>1, KeptStays DEF vars, queueVars, itemVars
<1>2. CASE LoopStep
  BY <1>2, KeptLoop, KeptStarts, Actors DEF LoopStep
<1>3. ASSUME NEW t \in Turn, TaskStep(t) PROVE KeptInv'
  BY <1>3, KeptRuns, KeptFinishes, KeptStarts, Actors DEF TaskStep
<1> QED
  BY <1>1, <1>2, <1>3, KeptRequests, KeptStarts, Actors DEF Next

LEMMA KeptInit ==
  ASSUME InjectedApart, Init
  PROVE  HandsInv /\ LateInv /\ NewsInv /\ KeptInv
<1>1. /\ accepted = {} /\ slot = NoSlot /\ todo \subseteq Op
      /\ \A t \in Turn : task[t].items = {} /\ pc[t] = "unused"
      /\ pc[Loop] = "idle" /\ call[Loop].items = {}
  BY Actors, WorkloadAssumption DEF Init, NewTask
<1>2. HandsInv
  BY <1>1 DEF HandsInv, Hand, RegularPoint
<1>3. LateInv
  BY <1>1 DEF LateInv, InjectedApart, LatePoint
<1>4. NewsInv
  BY <1>1 DEF NewsInv
<1>5. KeptInv
  BY <1>1 DEF KeptInv
<1> QED
  BY <1>2, <1>3, <1>4, <1>5

(* Where the loop starts every turn, every item is brought by one request  *)
(* and injected items are nobody's input or mail, no interleaving of       *)
(* steers, drains, aborts and ends of turns loses what a user or an agent  *)
(* was told is accepted: get_pending_input, on_task_finished and           *)
(* handle_task_abort leave it in the conversation, in a place somebody     *)
(* still looks at, or among what was dropped on purpose.                   *)
THEOREM AcceptedInputIsKept ==
  ASSUME LoopStartsAlone, ItemsBroughtOnce, InjectedApart
  PROVE  Spec => []NoItemLost
<1> DEFINE Inv == /\ TypeInv /\ LoopInv /\ OnePlace /\ OwnStates
                  /\ HandsInv /\ LateInv /\ NewsInv /\ KeptInv
<1>1. Inv /\ [Next]_vars => Inv'
  BY TypeStep, SlotStep, ItemStep, OwnStep, HandsStep, LateStep, NewsStep, KeptStep
<1>2. Init => Inv
  BY TypeInit, SlotInit, ItemInit, OwnInit, KeptInit
<1>3. Inv => NoItemLost
  <2> SUFFICES ASSUME TypeInv, OwnStates, HandsInv, KeptInv,
                      NEW i \in ItemsIn(accepted), i \in Precious
               PROVE  i \in ItemsIn(recorded) \/ i \in discarded \/ i \in Held
    BY DEF NoItemLost, Precious
  <2>1. Kept(i)
    <3>1. PICK p \in accepted : p[1] = i
      BY DEF ItemsIn
    <3>2. p = <<i, p[2]>>
      BY <3>1 DEF TypeInv, ItemsTyped
    <3> QED
      BY <3>1, <3>2 DEF KeptInv
  <2>2. CASE i \in mailbox \/ i \in staged \/ i \in call[Loop].items
    BY <2>2, Actors DEF Held
  <2>3. ASSUME NEW t \in Turn, i \in task[t].items PROVE i \in Held
    BY <2>3 DEF Held, HandsInv, Hand, HandPoint
  <2>4. ASSUME NEW t \in Turn, Holds(t), i \in turnState[OwnState(t)].pending
        PROVE  i \in Held
    <3>1. OwnState(t) # NoTurnState
      BY Actors DEF OwnState, NoTurnState
    <3>2. OwnState(t) \in ReachableTurnState
      BY <2>4 DEF Holds, OwnStates, FinishPoint, ReachableTurnState
    <3> QED
      BY <2>4, <3>1, <3>2 DEF Held
  <2> QED
    BY <2>1, <2>2, <2>3, <2>4 DEF Kept, Waiting
<1> HIDE DEF Inv
<1> QED
  BY <1>1, <1>2, <1>3, PTL DEF Spec

-----------------------------------------------------------------------------
(* Mail that asks for a turn is seen: for workloads in which whoever       *)
(* releases staged mail wakes the session afterwards, no interrupt comes   *)
(* with mail, and no idle start with mail if a router script is configured.*)
(* Without the first nobody is asked to look; without the others a slot    *)
(* that kept mail waiting may be given up by somebody who does not look:   *)
(* an interrupt empties it of a reservation, the router of an idle start.  *)
MailOp == {"TriggerMail", "StageMail", "ReleaseMail"}

MailFollowed(W) ==
    (\E o \in W : o.op \in MailOp) =>
        /\ \A o \in W : o.op # "Interrupt"
        /\ RouterScript => \A o \in W : o.op # "IdleStart"
        /\ (\E o \in W : o.op = "ReleaseMail") => \E o \in W : o.op = "StartPendingWork"

MailIsFollowed == TriggerMail \cap QueueMail = {} /\ \A W \in Workloads : MailFollowed(W)

(* An actor that decides on an idle start, and one that will run           *)
(* maybe_start_turn_for_pending_work or start a turn.                      *)
Choice == {"try:check", "try:reserve"} \cup TryPoint
Looks == {"maybe:check", "maybe:reserve", "try:extend"} \cup StartPoint

(* From here an actor gets to look at the mail, or to take the slot.       *)
WatchPoint(a) ==
    IF a = Loop THEN Looks \cup {"abort:take", "exited"} \cup AbortPoint
    ELSE IF a = Ext THEN Looks
    ELSE Looks \cup Choice \cup {"finish:idle", "finish:wake"}

Watched ==
    \/ slot # NoSlot
    \/ \E a \in Actor : pc[a] \in WatchPoint(a)
    \/ \E o \in todo : o.op = "StartPendingWork"

MailWatched == HasTriggerMail => Watched

(* The loop never tries an idle start, and a turn that tries one goes on   *)
(* to look at the mail.                                                    *)
Returns ==
    /\ \A t \in Turn : pc[t] \in Choice => call[t].ret = "finish:wake"
    /\ pc[Loop] \notin Choice

(* The turn an actor may still give up has no other starter, and does      *)
(* nothing yet.                                                            *)
ChoicePoint == TryPoint \cup {"route"}
Undecided == {"queued", "rejected", "dropped", "killed"}

TurnsApart ==
    /\ \A a \in Actor : call[a].turn # NoTurn =>
         pc[call[a].turn] # "unused" /\ call[a].turn # a
    /\ \A a \in Actor : pc[a] \in ChoicePoint =>
         /\ call[a].turn \in Turn
         /\ pc[call[a].turn] \in Undecided
         /\ \A b \in Actor \ {a} : call[b].turn # call[a].turn

(* Of the requests to come, only a shell's output was not asked for.       *)
TodoKnown == \A o \in todo : o.op # "InjectOrRecord" => o \in Op

(* Sessions without mail that asks for a turn, and what is kept in one     *)
(* that may have some: an interrupt of the loop is its shutdown, a router  *)
(* script meets no idle start, a release is followed by a wake.            *)
NoMail ==
    /\ ~HasTriggerMail /\ staged = {}
    /\ \A o \in todo : o.op \notin MailOp

Calm ==
    /\ \A o \in todo : o.op # "Interrupt"
    /\ pc[Loop] = "abort:take" /\ abort.reason = "Interrupted" => call[Loop].ret = "exited"
    /\ RouterScript => pc[Ext] = "idle" /\ \A o \in todo : o.op # "IdleStart"
    /\ (\E o \in todo : o.op = "ReleaseMail") => \E o \in todo : o.op = "StartPendingWork"

(* Steps that hand out no turn and decide about none.                      *)
LEMMA ApartFrame ==
  ASSUME TypeInv, TurnsApart,
         \A u \in Turn : \/ pc'[u] = pc[u]
                         \/ pc[u] \notin {"unused"} \cup Undecided /\ pc'[u] # "unused"
                         \/ pc[u] # "unused" /\ pc'[u] \in {"dropped", "killed"},
         \A a \in Actor : call'[a].turn = call[a].turn,
         \A a \in Actor : pc'[a] \in ChoicePoint => pc[a] \in ChoicePoint
  PROVE  TurnsApart'
<1>1. \A a \in Actor : call[a].turn \in Turn \cup {NoTurn}
  BY CallFields DEF TypeInv, CallTyped
<1>2. \A a \in Actor : call'[a].turn # NoTurn =>
        pc'[call'[a].turn] # "unused" /\ call'[a].turn # a
  BY <1>1 DEF TurnsApart
<1>3. ASSUME NEW a \in Actor, pc'[a] \in ChoicePoint
      PROVE  /\ call'[a].turn \in Turn /\ pc'[call'[a].turn] \in Undecided
             /\ \A b \in Actor \ {a} : call'[b].turn # call'[a].turn
  <2>1. pc[a] \in ChoicePoint
    BY <1>3
  <2>2. call[a].turn \in Turn /\ pc[call[a].turn] \in Undecided
        /\ \A b \in Actor \ {a} : call[b].turn # call[a].turn
    BY <2>1 DEF TurnsApart
  <2>3. pc'[call[a].turn] \in Undecided
    BY <2>2 DEF Undecided
  <2> QED
    BY <2>2, <2>3
<1> QED
  BY <1>2, <1>3 DEF TurnsApart

(* An actor takes a new turn.                                              *)
LEMMA ApartNew ==
  ASSUME TypeInv, TurnsApart, NEW a \in Actor, NEW t \in Turn, pc[t] = "unused",
         pc'[t] = "queued", pc[a] # "unused", \A b \in Actor \ {a, t} : pc'[b] = pc[b],
         a \in Turn => pc[a] \notin {"unused"} \cup Undecided /\ pc'[a] # "unused",
         call'[a].turn = t, \A b \in Actor \ {a} : call'[b].turn = call[b].turn
  PROVE  TurnsApart'
<1>1. \A b \in Actor : call[b].turn \in Turn \cup {NoTurn}
  BY CallFields DEF TypeInv, CallTyped
<1>2. t # NoTurn /\ t \in Actor /\ t # a
  BY Actors
<1>3. \A b \in Actor : call[b].turn # t
  BY <1>2 DEF TurnsApart
<1>4. \A b \in Actor : call'[b].turn # NoTurn =>
        pc'[call'[b].turn] # "unused" /\ call'[b].turn # b
  <2> SUFFICES ASSUME NEW b \in Actor, call'[b].turn # NoTurn
               PROVE  pc'[call'[b].turn] # "unused" /\ call'[b].turn # b
    OBVIOUS
  <2>1. CASE b = a
    BY <1>2, <2>1
  <2>2. CASE b # a
    <3>1. /\ call[b].turn \in Turn /\ call[b].turn # t
          /\ pc[call[b].turn] # "unused" /\ call[b].turn # b
      BY <1>1, <1>3, <2>2 DEF TurnsApart
    <3> QED
      BY <2>2, <3>1, Actors
  <2> QED
    BY <2>1, <2>2
<1>5. ASSUME NEW b \in Actor, pc'[b] \in ChoicePoint
      PROVE  /\ call'[b].turn \in Turn /\ pc'[call'[b].turn] \in Undecided
             /\ \A c \in Actor \ {b} : call'[c].turn # call'[b].turn
  <2>1. CASE b = a
    BY <1>3, <2>1 DEF Undecided
  <2>2. CASE b # a
    <3>1. pc[b] \in ChoicePoint
      BY <1>5, <2>2 DEF ChoicePoint, TryPoint
    <3>2. call[b].turn \in Turn /\ pc[call[b].turn] \in Undecided
          /\ \A c \in Actor \ {b} : call[c].turn # call[b].turn
      BY <3>1 DEF TurnsApart
    <3>3. call[b].turn # a /\ call[b].turn # t
      BY <1>3, <3>2
    <3>4. pc'[call[b].turn] \in Undecided
      BY <3>2, <3>3, Actors
    <3> QED
      BY <1>3, <2>2, <3>2, <3>4
  <2> QED
    BY <2>1, <2>2
<1> QED
  BY <1>4, <1>5 DEF TurnsApart

(* An actor decides about its turn u.                                      *)
LEMMA ApartDecided ==
  ASSUME TypeInv, TurnsApart, NEW a \in Actor, NEW u \in Turn, call[a].turn = u,
         pc'[a] \notin ChoicePoint \cup {"unused"},
         a \in Turn => pc[a] \notin {"unused"} \cup Undecided,
         pc'[u] # "unused",
         \A b \in Turn \ {a, u} : \/ pc'[b] = pc[b]
                                  \/ pc[b] # "unused" /\ pc'[b] = "dropped",
         \A b \in Actor \ ({a} \cup Turn) : pc'[b] = pc[b],
         pc'[u] \notin ChoicePoint,
         call'[a].turn \in {u, NoTurn}, \A b \in Actor \ {a} : call'[b].turn = call[b].turn
  PROVE  TurnsApart'
<1>1. \A b \in Actor : call[b].turn \in Turn \cup {NoTurn}
  BY CallFields DEF TypeInv, CallTyped
<1>2. ASSUME NEW b \in Turn, pc[b] # "unused" PROVE pc'[b] # "unused"
  BY <1>2
<1>3. \A b \in Actor : call'[b].turn # NoTurn =>
        pc'[call'[b].turn] # "unused" /\ call'[b].turn # b
  BY <1>1, <1>2 DEF TurnsApart
<1>4. ASSUME NEW b \in Actor, pc'[b] \in ChoicePoint
      PROVE  /\ call'[b].turn \in Turn /\ pc'[call'[b].turn] \in Undecided
             /\ \A c \in Actor \ {b} : call'[c].turn # call'[b].turn
  <2>1. b # a /\ b # u /\ pc[b] \in ChoicePoint
    BY <1>4 DEF ChoicePoint, TryPoint
  <2>2. call[b].turn \in Turn /\ pc[call[b].turn] \in Undecided
        /\ \A c \in Actor \ {b} : call[c].turn # call[b].turn
    BY <2>1 DEF TurnsApart
  <2>3. call[b].turn # u /\ call[b].turn # a
    BY <2>1, <2>2
  <2>4. pc'[call[b].turn] \in Undecided
    BY <2>2, <2>3 DEF Undecided
  <2>5. \A c \in Actor \ {b} : call'[c].turn # call[b].turn
    BY <2>2, <2>3, Actors
  <2> QED
    BY <2>1, <2>2, <2>4, <2>5
<1> QED
  BY <1>3, <1>4 DEF TurnsApart

(* Control points of one actor.                                            *)
LEMMA Went ==
  ASSUME TypeInv, NEW a \in Actor, NEW p, Goto(a, p)
  PROVE  pc'[a] = p /\ \A b \in Actor \ {a} : pc'[b] = pc[b]
BY DEF Goto, TypeInv, PcTyped

(* A new turn waits, and its actor knows it.                               *)
LEMMA TurnTaken ==
  ASSUME TypeInv, NEW a \in Actor, NEW t \in Turn, NEW kind, NEW input, NEW p,
         NewTurn(a, t, kind, input, p), t # a
  PROVE  /\ pc[t] = "unused" /\ pc'[t] = "queued" /\ pc'[a] = p
         /\ \A b \in Actor \ {a, t} : pc'[b] = pc[b]
         /\ call'[a].turn = t
         /\ \A b \in Actor : call'[b].ret = call[b].ret
         /\ \A b \in Actor \ {a} : call'[b].turn = call[b].turn
  <1>1. t \in Actor
    BY Actors
  <1>2. pc[t] = "unused"
    BY DEF NewTurn, FreshTurn
  <1>3. /\ pc' = [pc EXCEPT ![t] = "queued", ![a] = p]
        /\ call' = [call EXCEPT ![a].turn = t]
    BY DEF NewTurn
  <1>4. pc'[t] = "queued" /\ pc'[a] = p /\ \A b \in Actor \ {a, t} : pc'[b] = pc[b]
    BY <1>1, <1>3 DEF TypeInv, PcTyped
  <1>5. /\ call'[a].turn = t /\ \A b \in Actor : call'[b].ret = call[b].ret
        /\ \A b \in Actor \ {a} : call'[b].turn = call[b].turn
    BY <1>3 DEF TypeInv, CallTyped, CallType
  <1> QED
    BY <1>2, <1>4, <1>5

(* A reservation is given up.                                              *)
LEMMA GivenUp ==
  ASSUME TypeInv, NEW a \in Actor, NEW p, GiveUpReservation(a, p), pc[a] \in TryPoint,
         call[a].turn # a
  PROVE  /\ call[a].turn \in Turn /\ pc'[call[a].turn] = "rejected" /\ pc'[a] = p
         /\ \A b \in Actor \ {a, call[a].turn} : pc'[b] = pc[b]
         /\ call'[a].turn = NoTurn
         /\ \A b \in Actor : call'[b].ret = call[b].ret
         /\ \A b \in Actor \ {a} : call'[b].turn = call[b].turn
         /\ slot' \in {slot, NoSlot}
         /\ UNCHANGED <<todo, mailbox, staged, abort>>
  <1>1. call[a].turn \in Turn
    BY DEF TypeInv, StartKnows
  <1>2. /\ pc' = [pc EXCEPT ![a] = p, ![call[a].turn] = "rejected"]
        /\ call' = [call EXCEPT ![a].turn = NoTurn, ![a].items = {}]
        /\ slot' \in {slot, NoSlot}
        /\ UNCHANGED <<todo, mailbox, staged, abort>>
    BY DEF GiveUpReservation, queueVars
  <1>3. call[a].turn \in Actor
    BY <1>1, Actors
  <1>4. /\ pc'[call[a].turn] = "rejected" /\ pc'[a] = p
        /\ \A b \in Actor \ {a, call[a].turn} : pc'[b] = pc[b]
    BY <1>2, <1>3 DEF TypeInv, PcTyped
  <1>5. /\ call'[a].turn = NoTurn
        /\ \A b \in Actor : call'[b].ret = call[b].ret
        /\ \A b \in Actor \ {a} : call'[b].turn = call[b].turn
    BY <1>2 DEF TypeInv, CallTyped, CallType
  <1> QED
    BY <1>1, <1>2, <1>4, <1>5

-----------------------------------------------------------------------------
(* Turns are told apart.                                                   *)

(* Steps in which one actor, who is not a turn that waits, goes from one   *)
(* point to another, and neither hands out a turn nor decides about one.   *)
LEMMA ApartGoes ==
  ASSUME TypeInv, TurnsApart, NEW a \in Actor, NEW p, Goto(a, p),
         pc[a] \notin {"unused"} \cup Undecided, p # "unused",
         p \in ChoicePoint => pc[a] \in ChoicePoint,
         \A b \in Actor : call'[b].turn = call[b].turn
  PROVE  TurnsApart'
<1>1. pc'[a] = p /\ \A b \in Actor \ {a} : pc'[b] = pc[b]
  BY Went
<1> QED
  BY <1>1, ApartFrame, Actors

LEMMA ApartStays ==
  ASSUME TypeInv, TurnsApart, pc' = pc, \A b \in Actor : call'[b].turn = call[b].turn
  PROVE  TurnsApart'
BY ApartFrame

LEMMA ApartRequests ==
  ASSUME TypeInv, TurnsApart, NEW o \in todo, Request(o)
  PROVE  TurnsApart'
<1> USE DEF Undecided, ChoicePoint, TryPoint
<1>0. pc[Loop] = "idle" /\ call' = [call EXCEPT ![Loop].ret = call'[Loop].ret]
        => \A b \in Actor : call'[b].turn = call[b].turn
  BY DEF TypeInv, CallTyped, CallType
<1>1. CASE Steer(o) \/ CancelSteer(o) \/ Inject(o) \/ LoopStage(o) \/ LoopRelease(o)
  BY <1>1, ApartStays DEF Steer, CancelSteer, Inject, LoopStage, LoopRelease
<1>2. CASE LoopMail(o) \/ LoopStartPendingWork(o) \/ LoopInterrupt(o)
  <2>1. \A b \in Actor : call'[b].turn = call[b].turn
    BY <1>2 DEF LoopMail, LoopStartPendingWork, LoopInterrupt, TypeInv, CallTyped, CallType
  <2>2. pc[Loop] = "idle" /\ \E p \in {"idle", "maybe:check", "abort:take"} : Goto(Loop, p)
    BY <1>2 DEF LoopMail, LoopStartPendingWork, LoopInterrupt
  <2> QED
    BY <2>1, <2>2, ApartGoes, Actors
<1>3. CASE ExtIdleStart(o)
  <2>1. \A b \in Actor : call'[b].turn = call[b].turn
    BY <1>3 DEF ExtIdleStart, TypeInv, CallTyped, CallType
  <2>2. pc[Ext] = "idle" /\ Goto(Ext, "try:check")
    BY <1>3 DEF ExtIdleStart
  <2> QED
    BY <2>1, <2>2, ApartGoes, Actors
<1>4. CASE LoopUserInput(o)
  <2>1. CASE UNCHANGED <<pc, call>>
    BY <2>1, ApartStays
  <2>2. ASSUME NEW t \in Turn, NewTurn(Loop, t, "Regular", {o.item}, "route")
        PROVE  TurnsApart'
    <3>1. pc[Loop] = "idle" /\ t # Loop
      BY <1>4, Actors DEF LoopUserInput
    <3> QED
      BY <2>2, <3>1, TurnTaken, ApartNew, Actors
  <2> QED
    BY <1>4, <2>1, <2>2 DEF LoopUserInput
<1>5. CASE LoopSpawn(o)
  <2>1. CASE UNCHANGED <<pc, call>>
    BY <2>1, ApartStays
  <2>2. ASSUME NEW t \in Turn, FreshTurn(t),
               pc' = [pc EXCEPT ![t] = "queued", ![Loop] = "abort:take"],
               call' = [call EXCEPT ![Loop].turn = t, ![Loop].ret = "idle"]
        PROVE  TurnsApart'
    <3>1. pc[Loop] = "idle" /\ t # Loop /\ t \in Actor /\ pc[t] = "unused"
      BY <1>5, <2>2, Actors DEF LoopSpawn, FreshTurn
    <3>2. /\ pc'[t] = "queued" /\ pc'[Loop] = "abort:take"
          /\ \A b \in Actor \ {Loop, t} : pc'[b] = pc[b]
      BY <2>2, <3>1, Actors DEF TypeInv, PcTyped
    <3>3. call'[Loop].turn = t /\ \A b \in Actor \ {Loop} : call'[b].turn = call[b].turn
      BY <2>2, Actors DEF TypeInv, CallTyped, CallType
    <3> QED
      BY <3>1, <3>2, <3>3, ApartNew, Actors
  <2> QED
    BY <1>5, <2>1, <2>2 DEF LoopSpawn
<1> QED
  BY <1>1, <1>2, <1>3, <1>4, <1>5 DEF Request

LEMMA ApartGivesUp ==
  ASSUME TypeInv, TurnsApart, NEW a \in Actor, NEW p, GiveUpReservation(a, p),
         pc[a] \in TryPoint, p \notin ChoicePoint \cup {"unused"}
  PROVE  TurnsApart'
<1>1. call[a].turn \in Turn /\ pc[call[a].turn] \in Undecided
  BY DEF TurnsApart, ChoicePoint
<1>2. pc[a] \notin Undecided \cup {"unused"}
  BY DEF TryPoint, Undecided
<1>3. call[a].turn # a
  BY <1>1, <1>2
<1>4. /\ pc'[call[a].turn] = "rejected" /\ pc'[a] = p
      /\ \A b \in Actor \ {a, call[a].turn} : pc'[b] = pc[b]
      /\ call'[a].turn = NoTurn
      /\ \A b \in Actor \ {a} : call'[b].turn = call[b].turn
  BY <1>3, GivenUp
<1> QED
  BY <1>1, <1>2, <1>3, <1>4, ApartDecided, Actors DEF ChoicePoint, TryPoint

LEMMA ApartStarts ==
  ASSUME TypeInv, UnusedIsUnused, TurnsApart, NEW a \in Actor, StartStep(a)
  PROVE  TurnsApart'
<1> USE DEF Undecided, ChoicePoint, TryPoint
<1>r. call[a].ret \in {"idle", "exited", "finish:wake", "done"}
  BY CallFields DEF TypeInv, CallTyped
<1>1. CASE MaybeCheck(a)
  <2>1. pc[a] = "maybe:check" /\ call' = call
        /\ \E p \in {"maybe:reserve", call[a].ret} : Goto(a, p)
    BY <1>1 DEF MaybeCheck, Return
  <2> QED
    BY <1>r, <2>1, ApartGoes
<1>2. ASSUME NEW p \in {"start:take", "try:recheck"}, NEW t \in Turn,
             NewTurn(a, t, "Regular", {}, p), pc[a] \in {"maybe:reserve", "try:reserve"}
      PROVE  TurnsApart'
  <2>1. t # a
    BY <1>2 DEF NewTurn, FreshTurn
  <2> QED
    BY <1>2, <2>1, TurnTaken, ApartNew
<1>3. CASE MaybeReserve(a) \/ TryReserve(a)
  <2>1. pc[a] \in {"maybe:reserve", "try:reserve"}
    BY <1>3 DEF MaybeReserve, TryReserve
  <2>2. CASE Goto(a, call[a].ret) /\ \A b \in Actor : call'[b].turn = call[b].turn
    BY <1>r, <2>1, <2>2, ApartGoes
  <2>3. Goto(a, call[a].ret) /\ call' \in {call, [call EXCEPT ![a].items = {}]}
        => \A b \in Actor : call'[b].turn = call[b].turn
    BY DEF TypeInv, CallTyped, CallType
  <2> QED
    BY <1>2, <1>3, <2>1, <2>2, <2>3 DEF MaybeReserve, TryReserve, Return
<1>4. CASE StartTake(a) \/ StartAttach(a) \/ TryExtend(a) \/ TryCheck(a)
  <2>1. \A b \in Actor : call'[b].turn = call[b].turn
    BY <1>4 DEF StartTake, StartAttach, TryExtend, TryCheck, TypeInv, CallTyped, CallType
  <2>2. /\ pc[a] \in {"start:take", "start:attach", "try:extend", "try:check"}
        /\ \E p \in {"start:attach", "start:install", "start:take", "try:reserve",
                     call[a].ret} : Goto(a, p)
    BY <1>4 DEF StartTake, StartAttach, TryExtend, TryCheck, Return
  <2> QED
    BY <1>r, <2>1, <2>2, ApartGoes
<1>5. CASE StartInstall(a)
  <2> DEFINE t == call[a].turn
  <2>1. pc[a] = "start:install" /\ t \in Turn
    BY <1>5 DEF StartInstall, TypeInv, StartKnows, StartPoint
  <2>2. /\ pc'[a] = call[a].ret
        /\ pc'[t] \in {"begin", "dropped"}
        /\ \A b \in Turn \ {a, t} :
             pc'[b] = pc[b] \/ (b = slot.task /\ pc'[b] = "dropped")
        /\ \A b \in Actor \ ({a} \cup Turn) : pc'[b] = pc[b]
    <3>1. slot.task \in Turn \cup {NoTurn}
      BY DEF TypeInv, SlotTyped, SlotType
    <3>2. pc' = [b \in Actor |-> CASE b = a -> call[a].ret
                                  [] b = t -> "begin"
                                  [] b = slot.task /\ b # a -> "dropped"
                                  [] OTHER -> pc[b]]
      BY <1>5 DEF StartInstall
    <3> HIDE DEF t
    <3>3. t # a /\ pc'[a] = call[a].ret
      <4>1. t # a
        BY <2>1, Actors DEF TurnsApart, t
      <4> QED
        BY <3>2, <4>1
    <3>4. pc'[t] \in {"begin", "dropped"}
      BY <2>1, <3>2, <3>3, Actors
    <3>5. \A b \in Actor \ {a, t} :
          pc'[b] = pc[b] \/ (b = slot.task /\ pc'[b] = "dropped")
      BY <3>2
    <3>6. \A b \in Actor \ ({a} \cup Turn) : pc'[b] = pc[b]
      BY <2>1, <3>1, <3>5, Actors
    <3> QED
      BY <3>3, <3>4, <3>5, <3>6, Actors
  <2>3. call'[a].turn = NoTurn /\ \A b \in Actor \ {a} : call'[b].turn = call[b].turn
    BY <1>5 DEF StartInstall, TypeInv, CallTyped, CallType
  <2>4. \A b \in Turn \ {a, t} :
        pc'[b] = pc[b] \/ (pc[b] # "unused" /\ pc'[b] = "dropped")
    BY <2>2 DEF UnusedIsUnused
  <2> HIDE DEF t
  <2> QED
    BY <1>r, <2>1, <2>2, <2>3, <2>4, ApartDecided DEF t
<1>6. CASE TryRecheck(a)
  <2>1. pc[a] \in TryPoint
    BY <1>6 DEF TryRecheck
  <2>2. CASE GiveUpReservation(a, "maybe:check")
    BY <2>1, <2>2, ApartGivesUp
  <2>3. CASE UNCHANGED call /\ \E p \in {"try:route", "try:claim"} : Goto(a, p)
    BY <2>1, <2>3, ApartGoes
  <2> QED
    BY <1>6, <2>2, <2>3 DEF TryRecheck
<1>7. CASE TryRoute(a) \/ TryClaim(a)
  <2>1. pc[a] \in TryPoint
    BY <1>7 DEF TryRoute, TryClaim
  <2>2. CASE GiveUpReservation(a, call[a].ret)
    BY <1>r, <2>1, <2>2, ApartGivesUp
  <2>3. CASE UNCHANGED call /\ \E p \in {"try:routed", "try:extend"} : Goto(a, p)
    BY <2>1, <2>3, ApartGoes
  <2> QED
    BY <1>7, <2>2, <2>3 DEF TryRoute, TryClaim
<1> QED
  BY <1>1, <1>3, <1>4, <1>5, <1>6, <1>7 DEF StartStep

LEMMA ApartLoop ==
  ASSUME TypeInv, UnusedIsUnused, TurnsApart,
         LoopRouted \/ AbortTake \/ AbortCancel \/ AbortKill \/ AbortEvent \/ AbortClear
  PROVE  TurnsApart'
<1> USE DEF Undecided, ChoicePoint, TryPoint
<1>r. call[Loop].ret \in {"idle", "exited", "finish:wake", "done"}
  BY CallFields, Actors DEF TypeInv, CallTyped
<1>1. CASE LoopRouted
  <2> DEFINE u == call[Loop].turn
  <2>1. pc[Loop] = "route" /\ u \in Turn /\ pc[u] \in Undecided
    BY <1>1, Actors DEF LoopRouted, TurnsApart
  <2>2. \A b \in Actor : call'[b].turn = call[b].turn
    BY <1>1 DEF LoopRouted, TypeInv, CallTyped, CallType
  <2>3. CASE Goto(Loop, "abort:take")
    BY <2>1, <2>2, <2>3, ApartGoes, Actors
  <2>4. CASE pc' = [pc EXCEPT ![Loop] = "idle", ![u] = "rejected"]
    <3>1. /\ pc'[Loop] = "idle" /\ pc'[u] = "rejected"
          /\ \A b \in Actor \ {Loop, u} : pc'[b] = pc[b]
      BY <2>1, <2>4, Actors DEF TypeInv, PcTyped
    <3> HIDE DEF u
    <3> QED
      BY <2>1, <2>2, <3>1, ApartDecided, Actors DEF u
  <2> QED
    BY <1>1, <2>3, <2>4 DEF LoopRouted
<1>2. CASE AbortTake \/ AbortEvent \/ AbortClear
  <2>1. call' = call /\ pc[Loop] \in {"abort:take", "abort:event", "abort:clear"}
    BY <1>2 DEF AbortTake, AbortEvent, AbortClear
  <2>2. \E p \in {"abort:cancel", "start:take", call[Loop].ret, "abort:clear", "maybe:check"} :
          Goto(Loop, p)
    BY <1>2 DEF AbortTake, AbortEvent, AbortClear
  <2> QED
    BY <1>r, <2>1, <2>2, ApartGoes, Actors
<1>3. CASE AbortCancel \/ AbortKill
  <2> DEFINE v == abort.victim
  <2>1. call' = call /\ pc[Loop] \in AbortPoint
    BY <1>3 DEF AbortCancel, AbortKill, AbortPoint
  <2>2. v \in Turn /\ v # Loop /\ v \in Actor /\ pc[v] # "unused"
    BY <2>1, Actors DEF TypeInv, LoopKnows, UnusedIsUnused
  <2>3. /\ pc'[Loop] \in AbortPoint
        /\ pc'[v] = pc[v] \/ pc'[v] \in {"dropped", "killed"}
        /\ \A b \in Actor \ {Loop, v} : pc'[b] = pc[b]
    BY <1>3, <2>2, Actors DEF AbortCancel, AbortKill, TypeInv, PcTyped, AbortPoint
  <2> HIDE DEF v
  <2>4. \A a \in Actor : pc'[a] \in ChoicePoint => pc[a] \in ChoicePoint
    BY <2>2, <2>3 DEF AbortPoint
  <2>5. \A u \in Turn : pc'[u] = pc[u] \/ (pc[u] # "unused" /\ pc'[u] \in {"dropped", "killed"})
    BY <2>2, <2>3, Actors
  <2> QED
    BY <2>1, <2>4, <2>5, ApartFrame
<1> QED
  BY <1>1, <1>2, <1>3

LEMMA ApartTasks ==
  ASSUME TypeInv, TurnsApart, NEW t \in Turn, RunStep(t) \/ FinishStep(t)
  PROVE  TurnsApart'
<1> USE DEF Undecided, ChoicePoint, TryPoint
<1>1. CASE RunStep(t)
  <2>1. /\ call' = call /\ pc[t] \in RunPoint /\ pc'[t] \in RunPoint \cup {"done"}
        /\ \A a \in Actor \ {t} : pc'[a] = pc[a]
    BY <1>1, RunShape
  <2>2. \A u \in Turn : \/ pc'[u] = pc[u]
                        \/ pc[u] \notin {"unused"} \cup Undecided /\ pc'[u] # "unused"
    BY <2>1, Actors DEF RunPoint
  <2>3. \A a \in Actor : pc'[a] \in ChoicePoint => pc[a] \in ChoicePoint
    BY <2>1 DEF RunPoint
  <2> QED
    BY <2>1, <2>2, <2>3, ApartFrame
<1>2. CASE FinishStep(t)
  <2>1. \A b \in Actor : call'[b].turn = call[b].turn
    <3>1. CASE FinishIdle(t)
      <4>1. call' = call \/ \E o \in todo :
              call' = [call EXCEPT ![t].items = {o.item}, ![t].ret = "finish:wake"]
        BY <3>1 DEF FinishIdle
      <4>2. ASSUME NEW x, call' = [call EXCEPT ![t].items = x, ![t].ret = "finish:wake"]
            PROVE  \A b \in Actor : call'[b].turn = call[b].turn
        BY <4>2 DEF TypeInv, CallTyped, CallType
      <4> QED
        BY <4>1, <4>2
    <3>2. CASE FinishWake(t)
      BY <3>2 DEF FinishWake, TypeInv, CallTyped, CallType
    <3>3. CASE FinishTake(t) \/ FinishRecord(t) \/ FinishEvent(t) \/ FinishClear(t)
      BY <3>3 DEF FinishTake, FinishRecord, FinishEvent, FinishClear
    <3> QED
      BY <1>2, <3>1, <3>2, <3>3 DEF FinishStep
  <2>2. pc[t] \in {"finish:take", "finish:record", "finish:event", "finish:clear",
                   "finish:idle", "finish:wake"}
        /\ \E p \in {"done", "finish:record", "finish:event", "finish:clear", "finish:idle",
                     "try:check", "finish:wake", "maybe:check"} : Goto(t, p)
    BY <1>2 DEF FinishStep, FinishTake, FinishRecord, FinishEvent, FinishClear, FinishIdle,
                FinishWake
  <2> QED
    BY <2>1, <2>2, ApartGoes, Actors
<1> QED
  BY <1>1, <1>2

LEMMA ApartStep ==
  ASSUME TypeInv, UnusedIsUnused, TurnsApart, [Next]_vars
  PROVE  TurnsApart'
<1>1. CASE UNCHANGED vars
  BY <1>1, ApartStays DEF vars
<1>2. CASE LoopStep
  BY <1>2, ApartLoop, ApartStarts, Actors DEF LoopStep
<1>3. ASSUME NEW t \in Turn, TaskStep(t) PROVE TurnsApart'
  BY <1>3, ApartTasks, ApartStarts, Actors DEF TaskStep
<1> QED
  BY <1>1, <1>2, <1>3, ApartRequests, ApartStarts, Actors DEF Next

-----------------------------------------------------------------------------
(* Where an idle start returns to.                                         *)

(* Steps that leave the actors' return addresses alone, and bring no one   *)
(* to a choice.                                                            *)
LEMMA ReturnsFrame ==
  ASSUME Returns, \A a \in Actor : call'[a].ret = call[a].ret,
         \A a \in Actor : pc'[a] \in Choice => pc[a] \in Choice
  PROVE  Returns'
BY Actors DEF Returns

LEMMA ReturnsRequests ==
  ASSUME TypeInv, Returns, NEW o \in todo, Request(o)
  PROVE  Returns'
<1> USE DEF Choice, TryPoint
<1>1. CASE Steer(o) \/ CancelSteer(o) \/ Inject(o) \/ LoopStage(o) \/ LoopRelease(o)
  BY <1>1 DEF Steer, CancelSteer, Inject, LoopStage, LoopRelease, Returns
<1>2. ASSUME NEW p \in {"idle", "maybe:check", "abort:take", "try:check"},
             NEW a \in {Loop, Ext}, Goto(a, p), a = Loop => p # "try:check",
             \A t \in Turn : call'[t].ret = call[t].ret
      PROVE  Returns'
  <2>1. /\ \A t \in Turn : pc'[t] = pc[t]
        /\ pc'[Loop] \in {"idle", "maybe:check", "abort:take", pc[Loop]}
    BY <1>2, Went, Actors
  <2> QED
    BY <1>2, <2>1 DEF Returns
<1>3. CASE LoopMail(o) \/ LoopStartPendingWork(o) \/ LoopInterrupt(o) \/ ExtIdleStart(o)
  <2>1. \A t \in Turn : call'[t].ret = call[t].ret
    BY <1>3, Actors DEF LoopMail, LoopStartPendingWork, LoopInterrupt, ExtIdleStart, TypeInv,
                        CallTyped, CallType
  <2>2. CASE ExtIdleStart(o)
    BY <1>2, <2>1, <2>2, Actors DEF ExtIdleStart
  <2>3. CASE LoopMail(o) \/ LoopStartPendingWork(o) \/ LoopInterrupt(o)
    <3>1. \E p \in {"idle", "maybe:check", "abort:take"} : Goto(Loop, p)
      BY <2>3 DEF LoopMail, LoopStartPendingWork, LoopInterrupt
    <3> QED
      BY <1>2, <2>1, <3>1, Actors
  <2> QED
    BY <1>3, <2>2, <2>3
<1>4. CASE LoopUserInput(o) \/ LoopSpawn(o)
  <2>1. CASE UNCHANGED <<pc, call>>
    BY <2>1 DEF Returns
  <2>2. ASSUME NEW t \in Turn, NEW p \in {"route", "abort:take"},
               pc' = [pc EXCEPT ![t] = "queued", ![Loop] = p]
        PROVE  Returns'
    <3>1. \A u \in Turn : call'[u].ret = call[u].ret
      BY <1>4, Actors DEF LoopUserInput, LoopSpawn, NewTurn, TypeInv, CallTyped, CallType
    <3>2. /\ pc'[t] = "queued" /\ pc'[Loop] = p
          /\ \A u \in Turn \ {t} : pc'[u] = pc[u]
      BY <2>2, Actors DEF TypeInv, PcTyped
    <3> QED
      BY <3>1, <3>2 DEF Returns
  <2>3. \/ UNCHANGED <<pc, call>>
        \/ \E t \in Turn, p \in {"route", "abort:take"} :
             pc' = [pc EXCEPT ![t] = "queued", ![Loop] = p]
    BY <1>4 DEF LoopUserInput, LoopSpawn, NewTurn
  <2> QED
    BY <2>1, <2>2, <2>3
<1> QED
  BY <1>1, <1>3, <1>4 DEF Request

(* What a step of a start does to the places mail may be in, and where its *)
(* actor goes.                                                             *)
LEMMA StartShape ==
  ASSUME TypeInv, UnusedIsUnused, TurnsApart, NEW a \in Actor, StartStep(a)
  PROVE  /\ UNCHANGED <<todo, staged, abort>> /\ mailbox' \subseteq mailbox
         /\ \A b \in Actor : call'[b].ret = call[b].ret
         /\ pc[a] \in Looks \cup Choice
         /\ pc'[a] \in Looks \cup Choice \cup {call[a].ret}
         /\ pc'[a] \in Choice => pc[a] \in Choice
         /\ \A b \in Actor \ {a} :
              \/ pc'[b] = pc[b]
              \/ /\ b \in Turn
                 /\ pc[b] \in {"unused"} \cup Undecided \/ slot' # NoSlot
                 /\ pc'[b] \in {"queued", "rejected", "begin", "dropped"}
<1> USE DEF Undecided, ChoicePoint, TryPoint, Choice, Looks, StartPoint
<1>d. ASSUME DrainPendingInput PROVE mailbox' \subseteq mailbox /\ staged' = staged
  BY <1>d DEF DrainPendingInput
<1>1. CASE MaybeCheck(a) \/ TryExtend(a) \/ TryCheck(a) \/ StartTake(a) \/ StartAttach(a)
  <2>1. UNCHANGED <<todo, staged, abort>> /\ mailbox' \subseteq mailbox
    BY <1>1, <1>d DEF MaybeCheck, TryExtend, TryCheck, StartTake, StartAttach, queueVars
  <2>2. \A b \in Actor : call'[b].ret = call[b].ret
    BY <1>1 DEF MaybeCheck, TryExtend, TryCheck, StartTake, StartAttach, TypeInv, CallTyped,
                CallType
  <2>3. CASE TryCheck(a)
    <3>1. pc[a] = "try:check" /\ \E p \in {"try:reserve", call[a].ret} : Goto(a, p)
      BY <2>3 DEF TryCheck, Return
    <3> QED
      BY <2>1, <2>2, <3>1, Went
  <2>4. CASE ~TryCheck(a)
    <3>1. /\ pc[a] \in Looks
          /\ \E p \in {"maybe:reserve", "start:take", "start:attach", "start:install",
                       call[a].ret} : Goto(a, p)
      BY <1>1, <2>4 DEF MaybeCheck, TryExtend, StartTake, StartAttach, Return
    <3>2. call[a].ret \notin Choice
      BY CallFields DEF TypeInv, CallTyped
    <3> QED
      BY <2>1, <2>2, <3>1, <3>2, Went
  <2> QED
    BY <2>3, <2>4
<1>r. call[a].ret \notin Choice
  BY CallFields DEF TypeInv, CallTyped
<1>2. CASE MaybeReserve(a) \/ TryReserve(a)
  <2>1. /\ UNCHANGED <<todo, queueVars, abort>>
        /\ pc[a] \in {"maybe:reserve", "try:reserve"}
    BY <1>2 DEF MaybeReserve, TryReserve
  <2>2. CASE Goto(a, call[a].ret) /\ call' \in {call, [call EXCEPT ![a].items = {}]}
    <3>1. \A b \in Actor : call'[b].ret = call[b].ret
      BY <2>2 DEF TypeInv, CallTyped, CallType
    <3> QED
      BY <1>r, <2>1, <2>2, <3>1, Went DEF queueVars
  <2>3. ASSUME NEW t \in Turn, NEW p \in {"start:take", "try:recheck"},
               NewTurn(a, t, "Regular", {}, p), p = "try:recheck" => pc[a] = "try:reserve"
        PROVE  /\ \A b \in Actor : call'[b].ret = call[b].ret
               /\ pc'[a] = p /\ pc[t] = "unused" /\ pc'[t] = "queued"
               /\ \A b \in Actor \ {a, t} : pc'[b] = pc[b]
    <3>1. t # a
      BY <2>1, <2>3 DEF NewTurn, FreshTurn
    <3> QED
      BY <2>3, <3>1, TurnTaken
  <2>4. \/ Goto(a, call[a].ret) /\ call' \in {call, [call EXCEPT ![a].items = {}]}
        \/ \E t \in Turn, p \in {"start:take", "try:recheck"} :
             NewTurn(a, t, "Regular", {}, p) /\ (p = "try:recheck" => pc[a] = "try:reserve")
    BY <1>2 DEF MaybeReserve, TryReserve, Return
  <2> QED
    BY <2>1, <2>2, <2>3, <2>4 DEF queueVars
<1>3. ASSUME NEW p \in {call[a].ret, "maybe:check"}, GiveUpReservation(a, p),
             pc[a] \in TryPoint
      PROVE  /\ UNCHANGED <<todo, staged, abort>> /\ mailbox' \subseteq mailbox
             /\ \A b \in Actor : call'[b].ret = call[b].ret
             /\ pc'[a] = p
             /\ \A b \in Actor \ {a} :
                  \/ pc'[b] = pc[b]
                  \/ b \in Turn /\ pc[b] \in Undecided /\ pc'[b] = "rejected"
  <2>1. call[a].turn \in Turn /\ pc[call[a].turn] \in Undecided /\ call[a].turn # a
    BY <1>3 DEF TurnsApart
  <2> QED
    BY <1>3, <2>1, GivenUp
<1>4. CASE TryRecheck(a) \/ TryRoute(a) \/ TryClaim(a)
  <2>1. pc[a] \in TryPoint
    BY <1>4 DEF TryRecheck, TryRoute, TryClaim
  <2>2. CASE \E p \in {call[a].ret, "maybe:check"} : GiveUpReservation(a, p)
    BY <1>3, <1>r, <2>1, <2>2
  <2>3. CASE /\ UNCHANGED <<todo, queueVars, abort, call>>
             /\ \E p \in {"try:route", "try:routed", "try:claim", "try:extend"} : Goto(a, p)
    BY <2>1, <2>3, Went DEF queueVars
  <2> QED
    BY <1>4, <2>2, <2>3 DEF TryRecheck, TryRoute, TryClaim
<1>5. CASE StartInstall(a)
  <2> DEFINE t == call[a].turn
  <2>1. pc[a] = "start:install" /\ t \in Turn
    BY <1>5 DEF StartInstall, TypeInv, StartKnows
  <2>2. t # a /\ slot.task \in Turn \cup {NoTurn}
    BY <2>1, Actors DEF TurnsApart, TypeInv, SlotTyped, SlotType
  <2>3. /\ pc' = [b \in Actor |-> CASE b = a -> call[a].ret
                                  [] b = t -> "begin"
                                  [] b = slot.task /\ b # a -> "dropped"
                                  [] OTHER -> pc[b]]
        /\ UNCHANGED <<todo, queueVars, abort>> /\ slot'.task = t
    BY <1>5 DEF StartInstall
  <2>4. \A b \in Actor : call'[b].ret = call[b].ret
    BY <1>5 DEF StartInstall, TypeInv, CallTyped, CallType
  <2> HIDE DEF t
  <2>5. slot' # NoSlot
    BY <2>1, <2>3, Actors DEF NoSlot
  <2>6. pc'[a] = call[a].ret
    BY <2>2, <2>3
  <2>7. \A b \in Actor \ {a} :
          pc'[b] = pc[b] \/ (b \in Turn /\ pc'[b] \in {"begin", "dropped"})
    BY <2>1, <2>2, <2>3, Actors
  <2> QED
    BY <1>r, <2>1, <2>3, <2>4, <2>5, <2>6, <2>7 DEF queueVars
<1> QED
  BY <1>1, <1>2, <1>4, <1>5 DEF StartStep

LEMMA ReturnsStarts ==
  ASSUME TypeInv, UnusedIsUnused, TurnsApart, Returns, NEW a \in Actor, StartStep(a)
  PROVE  Returns'
<1>1. /\ \A b \in Actor : call'[b].ret = call[b].ret
      /\ pc'[a] \in Choice => pc[a] \in Choice
      /\ \A b \in Actor \ {a} :
           pc'[b] = pc[b] \/ pc'[b] \in {"queued", "rejected", "begin", "dropped"}
  BY StartShape
<1> QED
  BY <1>1, ReturnsFrame DEF Choice, TryPoint

LEMMA ReturnsLoop ==
  ASSUME TypeInv, Returns,
         LoopRouted \/ AbortTake \/ AbortCancel \/ AbortKill \/ AbortEvent \/ AbortClear
  PROVE  Returns'
<1> USE DEF Choice, TryPoint
<1>r. call[Loop].ret \in {"idle", "exited", "finish:wake", "done"}
  BY CallFields, Actors DEF TypeInv, CallTyped
<1>1. \A t \in Turn : call'[t].ret = call[t].ret
  BY Actors DEF LoopRouted, AbortTake, AbortCancel, AbortKill, AbortEvent, AbortClear, TypeInv,
                CallTyped, CallType
<1>2. /\ pc'[Loop] \notin Choice
      /\ \A b \in Turn : pc'[b] = pc[b] \/ pc'[b] \in {"done", "rejected", "killed", "dropped"}
  <2>1. CASE \E p \in {"abort:take", "abort:cancel", "start:take", call[Loop].ret, "abort:kill",
                       "abort:clear", "maybe:check"} : Goto(Loop, p)
    BY <1>r, <2>1, Went, Actors
  <2>2. ASSUME NEW p \in {"idle", "abort:clear", "abort:event"}, NEW u \in Turn,
               NEW q \in {"done", "rejected", "killed", "dropped"},
               pc' = [pc EXCEPT ![Loop] = p, ![u] = q]
        PROVE  /\ pc'[Loop] = p /\ pc'[u] = q
               /\ \A b \in Turn \ {u} : pc'[b] = pc[b]
    BY <2>2, Actors DEF TypeInv, PcTyped
  <2>3. CASE LoopRouted
    <3>1. call[Loop].turn \in Turn
      BY <2>3, Actors DEF LoopRouted, TypeInv, LoopKnows
    <3> QED
      BY <2>1, <2>2, <2>3, <3>1 DEF LoopRouted
  <2>4. CASE AbortCancel \/ AbortKill
    <3>1. abort.victim \in Turn
      BY <2>4, Actors DEF AbortCancel, AbortKill, TypeInv, LoopKnows, AbortPoint
    <3>2. \/ Goto(Loop, "abort:kill")
          \/ \E p \in {"abort:clear", "abort:event"}, q \in {"done", "killed", "dropped"} :
               pc' = [pc EXCEPT ![Loop] = p, ![abort.victim] = q]
      <4>1. pc[Loop] # "abort:cancel" \/ ~task[abort.victim].cancelled
            \/ pc' = [pc EXCEPT ![Loop] = "abort:clear",
                             ![abort.victim] = IF pc[abort.victim] = "done"
                                               THEN "done" ELSE "dropped"] \/ AbortKill
        BY <2>4, <3>1, Actors DEF AbortCancel
      <4>2. AbortKill => pc' = [pc EXCEPT ![Loop] = "abort:event",
                             ![abort.victim] = IF pc[abort.victim] = "done"
                                               THEN "done" ELSE "killed"]
        BY <3>1, Actors DEF AbortKill
      <4> QED
        BY <2>4, <4>1, <4>2 DEF AbortCancel, Goto
    <3> QED
      BY <2>1, <2>2, <3>1, <3>2
  <2>5. CASE AbortTake \/ AbortEvent \/ AbortClear
    BY <2>1, <2>5 DEF AbortTake, AbortEvent, AbortClear
  <2> QED
    BY <2>3, <2>4, <2>5
<1> QED
  BY <1>1, <1>2 DEF Returns

LEMMA ReturnsTasks ==
  ASSUME TypeInv, Returns, NEW t \in Turn, RunStep(t) \/ FinishStep(t)
  PROVE  Returns'
<1> USE DEF Choice, TryPoint
<1>1. CASE RunStep(t)
  <2>1. /\ call' = call /\ pc'[t] \in RunPoint \cup {"done"}
        /\ \A a \in Actor \ {t} : pc'[a] = pc[a]
    BY <1>1, RunShape
  <2> QED
    BY <2>1, ReturnsFrame DEF RunPoint
<1>2. CASE FinishIdle(t)
  <2>1. CASE Goto(t, "finish:wake") /\ call' = call
    <3>1. pc'[t] = "finish:wake" /\ \A b \in Actor \ {t} : pc'[b] = pc[b]
      BY <2>1, Went, Actors
    <3> QED
      BY <2>1, <3>1, ReturnsFrame
  <2>2. ASSUME NEW x, call' = [call EXCEPT ![t].items = x, ![t].ret = "finish:wake"],
               Goto(t, "try:check")
        PROVE  Returns'
    <3>1. pc'[t] = "try:check" /\ \A b \in Actor \ {t} : pc'[b] = pc[b]
      BY <2>2, Went, Actors
    <3>2. call'[t].ret = "finish:wake" /\ \A b \in Actor \ {t} : call'[b].ret = call[b].ret
      BY <2>2, Actors DEF TypeInv, CallTyped, CallType
    <3> QED
      BY <3>1, <3>2, Actors DEF Returns
  <2> QED
    BY <1>2, <2>1, <2>2 DEF FinishIdle
<1>3. CASE FinishTake(t) \/ FinishRecord(t) \/ FinishEvent(t) \/ FinishClear(t) \/ FinishWake(t)
  <2>1. \E p \in {"done", "finish:record", "finish:event", "finish:clear", "finish:idle",
                  "maybe:check"} : Goto(t, p)
    BY <1>3 DEF FinishTake, FinishRecord, FinishEvent, FinishClear, FinishWake
  <2>2. pc'[t] \notin Choice /\ \A b \in Actor \ {t} : pc'[b] = pc[b]
    BY <2>1, Went, Actors
  <2>3. \A b \in Actor \ {t} : call'[b].ret = call[b].ret
    BY <1>3 DEF FinishTake, FinishRecord, FinishEvent, FinishClear, FinishWake, TypeInv,
                CallTyped, CallType
  <2> QED
    BY <2>2, <2>3, Actors DEF Returns
<1> QED
  BY <1>1, <1>2, <1>3 DEF FinishStep

LEMMA ReturnsStep ==
  ASSUME TypeInv, UnusedIsUnused, TurnsApart, Returns, [Next]_vars
  PROVE  Returns'
<1>1. CASE UNCHANGED vars
  BY <1>1 DEF vars, Returns
<1>2. CASE LoopStep
  BY <1>2, ReturnsLoop, ReturnsStarts, Actors DEF LoopStep
<1>3. ASSUME NEW t \in Turn, TaskStep(t) PROVE Returns'
  BY <1>3, ReturnsTasks, ReturnsStarts, Actors DEF TaskStep
<1> QED
  BY <1>1, <1>2, <1>3, ReturnsRequests, ReturnsStarts, Actors DEF Next

-----------------------------------------------------------------------------
(* Nothing but a request adds to the mailbox, and the requests are known.  *)

(* What the steps that are not requests leave alone.                       *)
LEMMA Unasked ==
  ASSUME TypeInv, UnusedIsUnused, TurnsApart,
         LoopStep \/ StartStep(Ext) \/ \E t \in Turn : TaskStep(t)
  PROVE  /\ todo' \subseteq todo /\ staged' = staged /\ mailbox' \subseteq mailbox
         /\ abort'.reason = abort.reason \/ abort'.reason = "Replaced"
         /\ \A o \in todo : o.op # "IdleStart" => o \in todo'
<1>1. ASSUME NEW a \in Actor, StartStep(a)
      PROVE  /\ UNCHANGED <<todo, staged>> /\ mailbox' \subseteq mailbox
             /\ abort'.reason = abort.reason
  BY <1>1, StartShape
<1>2. CASE LoopStep /\ ~StartStep(Loop)
  BY <1>2 DEF LoopStep, LoopRouted, AbortTake, AbortCancel, AbortKill, AbortEvent, AbortClear,
              queueVars, TypeInv, AbortTyped, AbortType
<1>3. ASSUME NEW t \in Turn, FinishStep(t)
      PROVE  /\ UNCHANGED <<staged, mailbox, abort>> /\ todo' \subseteq todo
             /\ \A o \in todo : o.op # "IdleStart" => o \in todo'
  BY <1>3 DEF FinishStep, FinishTake, FinishRecord, FinishEvent, FinishClear, FinishIdle,
              FinishWake, queueVars, Take
<1>4. ASSUME NEW t \in Turn, RunStep(t)
      PROVE  UNCHANGED <<staged, todo, abort>> /\ mailbox' \subseteq mailbox
  <2>1. UNCHANGED <<todo, abort>>
    BY <1>4, RunShape
  <2>2. CASE TaskDrain(t)
    BY <2>1, <2>2 DEF TaskDrain, DrainPendingInput, queueVars
  <2>3. CASE ~TaskDrain(t)
    BY <1>4, <2>1, <2>3
    DEF RunStep, TaskBegin, TaskWork, TaskPrepare, TaskPrepareFailed, TaskRecord, TaskStream,
        TaskFollowUp, TaskAnswered, TaskSampleFailed, TaskStop, TaskStopBlocked,
        TaskAfterTurn, TaskCheckCancelled, queueVars
  <2> QED
    BY <2>2, <2>3
<1> QED
  BY <1>1, <1>2, <1>3, <1>4, Actors DEF TaskStep, LoopStep

LEMMA Asked ==
  ASSUME TypeInv, NEW o \in todo, Request(o)
  PROVE  /\ todo \ {o} \subseteq todo'
         /\ \A p \in todo' : p \in todo \ {o} \/ p.op = "InjectOrRecord"
<1>1. CASE Take(o)
  BY <1>1 DEF Take
<1>2. CASE todo' = (todo \ {o}) \cup {[op |-> "InjectOrRecord", item |-> o.item]}
  BY <1>2
<1> QED
  BY <1>1, <1>2 DEF Request, Steer, CancelSteer, Inject, LoopUserInput, LoopSpawn, LoopMail,
     LoopStage, LoopRelease, LoopStartPendingWork, LoopInterrupt, ExtIdleStart

LEMMA TodoStep ==
  ASSUME TypeInv, UnusedIsUnused, TurnsApart, TodoKnown, [Next]_vars
  PROVE  TodoKnown'
<1>1. CASE UNCHANGED vars
  BY <1>1 DEF vars, TodoKnown
<1>2. ASSUME NEW o \in todo, Request(o) PROVE TodoKnown'
  BY <1>2, Asked DEF TodoKnown
<1>3. CASE LoopStep \/ StartStep(Ext) \/ \E t \in Turn : TaskStep(t)
  BY <1>3, Unasked DEF TodoKnown
<1> QED
  BY <1>1, <1>2, <1>3 DEF Next

(* A request to queue mail brings no mail that asks for a turn.            *)
LEMMA QueuedMail ==
  ASSUME MailIsFollowed, TodoKnown, NEW o \in todo, o.op = "QueueMail"
  PROVE  o.item \notin TriggerMail
<1>1. o \in Op
  BY DEF TodoKnown
<1>2. o.item \in QueueMail
  BY <1>1 DEF QueueMail, ItemsOf
<1> QED
  BY <1>2 DEF MailIsFollowed

(* What requests that bring no mail do to it.                              *)
LEMMA OtherRequests ==
  ASSUME MailIsFollowed, TodoKnown, NEW o \in todo, Request(o)
  PROVE  /\ o.op # "StageMail" /\ o.op # "ReleaseMail" => staged' = staged
         /\ o.op \notin {"TriggerMail", "ReleaseMail"} =>
              mailbox' \cap TriggerMail = mailbox \cap TriggerMail
<1>1. CASE LoopMail(o)
  <2>1. staged' = staged /\ o.op \in {"QueueMail", "TriggerMail"}
        /\ mailbox' = mailbox \cup {o.item}
    BY <1>1 DEF LoopMail
  <2> QED
    BY <2>1, QueuedMail
<1>2. CASE LoopStage(o)
  BY <1>2 DEF LoopStage
<1>3. CASE LoopRelease(o)
  BY <1>3 DEF LoopRelease
<1>4. CASE ~LoopMail(o) /\ ~LoopStage(o) /\ ~LoopRelease(o)
  <2>1. UNCHANGED <<mailbox, staged>>
    BY <1>4 DEF Request, Steer, CancelSteer, Inject, LoopUserInput, LoopSpawn,
       LoopStartPendingWork, LoopInterrupt, ExtIdleStart, AddToSlot, queueVars
  <2> QED
    BY <2>1
<1> QED
  BY <1>1, <1>2, <1>3, <1>4

LEMMA NoMailStep ==
  ASSUME MailIsFollowed, TypeInv, UnusedIsUnused, TurnsApart, TodoKnown, NoMail, [Next]_vars
  PROVE  NoMail'
<1>1. CASE UNCHANGED vars
  BY <1>1 DEF vars, queueVars, NoMail, HasTriggerMail
<1>2. ASSUME NEW o \in todo, Request(o) PROVE NoMail'
  <2>1. o.op \notin MailOp
    BY DEF NoMail
  <2>2. staged' = staged /\ mailbox' \cap TriggerMail = mailbox \cap TriggerMail
    BY <1>2, <2>1, OtherRequests DEF MailOp
  <2>3. \A p \in todo' : p.op \notin MailOp
    BY <1>2, Asked DEF NoMail, MailOp
  <2> QED
    BY <2>2, <2>3 DEF NoMail, HasTriggerMail
<1>3. CASE LoopStep \/ StartStep(Ext) \/ \E t \in Turn : TaskStep(t)
  BY <1>3, Unasked DEF NoMail, HasTriggerMail
<1> QED
  BY <1>1, <1>2, <1>3 DEF Next

-----------------------------------------------------------------------------
(* Somebody is going to look at the mail.                                  *)

(* The slot is not emptied, and who looks at the mail goes on to do so.    *)
LEMMA WatchStays ==
  ASSUME MailWatched, mailbox' \cap TriggerMail \subseteq mailbox,
         slot' = slot \/ slot' # NoSlot,
         \A a \in Actor : pc[a] \in WatchPoint(a) => pc'[a] \in WatchPoint(a),
         \A o \in todo : o.op = "StartPendingWork" => o \in todo'
  PROVE  MailWatched'
<1>1. HasTriggerMail' => HasTriggerMail
  BY DEF HasTriggerMail
<1>2. Watched => Watched'
  BY DEF Watched
<1> QED
  BY <1>1, <1>2 DEF MailWatched

(* An actor is where it looks at the mail.                                 *)
LEMMA WatchHere ==
  ASSUME NEW a \in Actor, pc'[a] \in WatchPoint(a)
  PROVE  MailWatched'
BY DEF MailWatched, Watched

(* Who waits to be started, or is started, is not looking.                 *)
LEMMA WatchStarts ==
  ASSUME TypeInv, UnusedIsUnused, TurnsApart, Returns, Calm, MailWatched,
         NEW a \in Actor, StartStep(a)
  PROVE  MailWatched'
<1>1. /\ UNCHANGED todo /\ mailbox' \subseteq mailbox
      /\ pc[a] \in Looks \cup Choice
      /\ pc'[a] \in Looks \cup Choice \cup {call[a].ret}
      /\ pc'[a] \in Choice => pc[a] \in Choice
      /\ \A b \in Actor \ {a} :
           \/ pc'[b] = pc[b]
           \/ b \in Turn /\ (pc[b] \in {"unused"} \cup Undecided \/ slot' # NoSlot)
  BY StartShape
<1>s. slot' # NoSlot => MailWatched'
  BY DEF MailWatched, Watched
<1>2. CASE pc'[a] \in WatchPoint(a)
  BY <1>2, WatchHere
<1>3. CASE pc'[a] \notin WatchPoint(a) /\ slot' = NoSlot
  <2> USE DEF Looks, Choice, TryPoint, StartPoint
  <2>1. ASSUME pc[a] \notin WatchPoint(a), slot' = slot PROVE MailWatched'
    <3>1. \A b \in Actor : pc[b] \in WatchPoint(b) => pc'[b] \in WatchPoint(b)
      <4> SUFFICES ASSUME NEW b \in Actor, pc[b] \in WatchPoint(b)
                   PROVE  pc'[b] \in WatchPoint(b)
        OBVIOUS
      <4>1. b # a
        BY <2>1
      <4>2. b \in Turn => pc[b] \notin {"unused"} \cup Undecided
        BY Actors DEF WatchPoint, Undecided
      <4> QED
        BY <1>1, <1>3, <4>1, <4>2
    <3> QED
      BY <1>1, <2>1, <3>1, WatchStays
  <2>2. CASE pc[a] \in Choice
    <3>1. a = Ext
      <4>1. a \in Turn => pc'[a] \in WatchPoint(a)
        BY <1>1, <2>2, Actors DEF Returns, WatchPoint
      <4>2. a # Loop
        BY <2>2 DEF Returns
      <4> QED
        BY <1>3, <4>1, <4>2 DEF Actor
    <3>2. ~RouterScript
      BY <2>2, <3>1 DEF Calm
    <3>w. \A p \in Looks : p \in WatchPoint(a)
      BY <3>1, Actors DEF WatchPoint
    <3>3. CASE pc[a] = "try:extend"
      <4>1. Goto(a, "start:take")
        BY <3>3 DEF StartStep, MaybeCheck, MaybeReserve, StartTake, StartAttach,
           StartInstall, TryCheck, TryReserve, TryRecheck, TryRoute, TryClaim, TryExtend
      <4> QED
        BY <1>3, <3>w, <4>1, Went
    <3>4. CASE pc[a] # "try:extend"
      <4>1. pc[a] \notin WatchPoint(a)
        BY <2>2, <3>1, <3>4, Actors DEF WatchPoint
      <4>2. slot' = slot
        <5>1. CASE TryCheck(a)
          BY <5>1 DEF TryCheck
        <5>2. CASE TryReserve(a)
          <6>1. slot' = slot \/ \E t \in Turn : slot' = [NoSlot EXCEPT !.ts = <<t, "reserve">>]
            BY <5>2 DEF TryReserve
          <6>2. ASSUME NEW t \in Turn, slot' = [NoSlot EXCEPT !.ts = <<t, "reserve">>]
                PROVE  slot' # NoSlot
            BY <6>2 DEF NoSlot, NoTurnState
          <6> QED
            BY <1>3, <6>1, <6>2
        <5>3. CASE TryRecheck(a)
          <6>1. CASE GiveUpReservation(a, "maybe:check")
            <7>1. pc'[a] = "maybe:check"
              <8>1. call[a].turn # a
                BY <3>1, Actors DEF TurnsApart
              <8> QED
                BY <5>3, <6>1, <8>1, GivenUp DEF TryRecheck
            <7> QED
              BY <1>3, <3>w, <7>1
          <6> QED
            BY <5>3, <6>1 DEF TryRecheck
        <5>4. CASE TryRoute(a)
          BY <3>2, <5>4 DEF TryRoute
        <5>5. CASE TryClaim(a)
          BY <5>5 DEF TryClaim, GiveUpReservation
        <5> QED
          BY <2>2, <3>4, <5>1, <5>2, <5>3, <5>4, <5>5
          DEF StartStep, MaybeCheck, MaybeReserve, StartTake, StartAttach, StartInstall, TryExtend
      <4> QED
        BY <2>1, <4>1, <4>2
    <3> QED
      BY <3>3, <3>4
  <2>3. CASE pc[a] \notin Choice
    <3>w. \A p \in Looks : p \in WatchPoint(a)
      BY Actors DEF WatchPoint, Actor
    <3>1. CASE MaybeCheck(a)
      <4>1. ~HasTriggerMail /\ mailbox' = mailbox
        <5>1. HasTriggerMail => pc'[a] = "maybe:reserve"
          BY <3>1, Went DEF MaybeCheck
        <5> QED
          BY <1>3, <3>1, <3>w, <5>1 DEF MaybeCheck, queueVars
      <4> QED
        BY <4>1 DEF MailWatched, HasTriggerMail
    <3>2. CASE MaybeReserve(a)
      <4>1. CASE slot # NoSlot /\ slot' = slot
        BY <1>3, <4>1
      <4>2. ASSUME NEW t \in Turn, slot' = [NoSlot EXCEPT !.ts = <<t, "reserve">>]
            PROVE  FALSE
        BY <1>3, <4>2 DEF NoSlot, NoTurnState
      <4> QED
        BY <3>2, <4>1, <4>2 DEF MaybeReserve
    <3>3. CASE StartTake(a) \/ StartAttach(a)
      <4>1. \E p \in {"start:attach", "start:install"} : Goto(a, p)
        BY <3>3 DEF StartTake, StartAttach
      <4> QED
        BY <1>3, <3>w, <4>1, Went
    <3>4. CASE StartInstall(a)
      <4>1. slot'.task = call[a].turn /\ call[a].turn \in Turn
        BY <3>4 DEF StartInstall, TypeInv, StartKnows
      <4> QED
        BY <1>3, <4>1, Actors DEF NoSlot
    <3> QED
      BY <2>3, <3>1, <3>2, <3>3, <3>4 DEF StartStep, TryCheck, TryReserve, TryRecheck, TryRoute,
         TryClaim, TryExtend
  <2> QED
    BY <2>2, <2>3
<1> QED
  BY <1>s, <1>2, <1>3

(* The loop goes from an abort to a start, a check or its exit.            *)
LEMMA WatchLoop ==
  ASSUME TypeInv, UnusedIsUnused, TurnsApart, Calm, MailWatched,
         LoopRouted \/ AbortTake \/ AbortCancel \/ AbortKill \/ AbortEvent \/ AbortClear
  PROVE  MailWatched'
<1>w. \A p \in Looks \cup {"abort:take", "exited"} \cup AbortPoint : p \in WatchPoint(Loop)
  BY DEF WatchPoint
<1>g. ASSUME NEW p \in Looks \cup {"abort:take", "exited"} \cup AbortPoint, Goto(Loop, p)
      PROVE  MailWatched'
  BY <1>g, <1>w, Went, WatchHere, Actors
<1> USE DEF Looks, AbortPoint, StartPoint
<1>1. CASE LoopRouted
  <2> DEFINE u == call[Loop].turn
  <2>1. CASE pc' = [pc EXCEPT ![Loop] = "idle", ![u] = "rejected"]
    <3>1. pc[Loop] = "route" /\ UNCHANGED <<todo, slot, queueVars>>
      BY <1>1 DEF LoopRouted
    <3>2. u \in Turn /\ pc[u] \in Undecided
      BY <3>1, Actors DEF TurnsApart, ChoicePoint
    <3>3. \A b \in Actor \ {Loop, u} : pc'[b] = pc[b]
      BY <2>1, <3>2, Actors DEF TypeInv, PcTyped
    <3> HIDE DEF u
    <3>4. pc[u] \notin WatchPoint(u) /\ pc[Loop] \notin WatchPoint(Loop)
      BY <3>1, <3>2, Actors DEF WatchPoint, Undecided, Choice, TryPoint
    <3>5. \A b \in Actor : pc[b] \in WatchPoint(b) => pc'[b] \in WatchPoint(b)
      BY <3>3, <3>4
    <3> QED
      BY <3>1, <3>5, WatchStays DEF queueVars
  <2> QED
    BY <1>1, <1>g, <2>1 DEF LoopRouted
<1>2. CASE AbortTake
  <2>1. \E p \in {"abort:cancel", "start:take", "exited"} : Goto(Loop, p)
    <3>1. abort.reason # "Replaced" => call[Loop].ret = "exited"
      BY <1>2 DEF AbortTake, Calm, TypeInv, AbortTyped, AbortType
    <3> QED
      BY <1>2, <3>1 DEF AbortTake
  <2> QED
    BY <1>g, <2>1
<1>3. CASE AbortEvent \/ AbortClear
  <2>1. \E p \in {"abort:clear", "start:take", "maybe:check"} : Goto(Loop, p)
    BY <1>3 DEF AbortEvent, AbortClear
  <2> QED
    BY <1>g, <2>1
<1>4. CASE AbortCancel \/ AbortKill
  <2>1. abort.victim \in Turn
    BY <1>4, Actors DEF AbortCancel, AbortKill, TypeInv, LoopKnows
  <2>2. pc'[Loop] \in AbortPoint
    BY <1>4, <2>1, Actors DEF AbortCancel, AbortKill, TypeInv, PcTyped
  <2> QED
    BY <1>w, <2>2, WatchHere, Actors
<1> QED
  BY <1>1, <1>2, <1>3, <1>4

(* A turn that ends without emptying the slot leaves it to another; one    *)
(* that empties it goes on to look.                                        *)
LEMMA WatchTasks ==
  ASSUME TypeInv, UnusedIsUnused, TurnsApart, MailWatched, NEW t \in Turn,
         RunStep(t) \/ FinishStep(t)
  PROVE  MailWatched'
<1> USE DEF Looks, StartPoint, Choice, TryPoint
<1>1. /\ mailbox' \subseteq mailbox
      /\ \A o \in todo : o.op = "StartPendingWork" => o \in todo'
  BY Unasked DEF TaskStep
<1>2. t # Loop /\ t # Ext /\ t \in Actor
  BY Actors
<1>3. ASSUME pc[t] \notin WatchPoint(t), slot' = slot \/ slot' # NoSlot,
             \A a \in Actor \ {t} : pc'[a] = pc[a]
      PROVE  MailWatched'
  <2>1. \A b \in Actor : pc[b] \in WatchPoint(b) => pc'[b] \in WatchPoint(b)
    BY <1>3
  <2> QED
    BY <1>1, <1>3, <2>1, WatchStays
<1>4. CASE RunStep(t)
  <2>1. slot' = slot /\ pc[t] \in RunPoint /\ \A a \in Actor \ {t} : pc'[a] = pc[a]
    BY <1>4, RunShape
  <2> QED
    BY <1>2, <1>3, <2>1 DEF WatchPoint, RunPoint
<1>5. CASE FinishTake(t) \/ FinishRecord(t) \/ FinishEvent(t)
  <2>1. /\ pc[t] \in {"finish:take", "finish:record", "finish:event"}
        /\ \E p : Goto(t, p)
        /\ slot' = slot \/ (slot.task # NoTurn /\ slot' = [slot EXCEPT !.task = NoTurn])
    BY <1>5 DEF FinishTake, FinishRecord, FinishEvent
  <2>2. slot.task # NoTurn => slot.ts \in TurnStateId
    BY DEF TypeInv, SlotTyped, NoSlot
  <2>3. slot' = slot \/ slot' # NoSlot
    <3>1. ASSUME slot.task # NoTurn, slot' = [slot EXCEPT !.task = NoTurn]
          PROVE  slot' # NoSlot
      <4>1. slot'.ts = slot.ts
        BY <3>1 DEF TypeInv, SlotTyped, SlotType
      <4> QED
        BY <2>2, <3>1, <4>1, Actors DEF NoSlot
    <3> QED
      BY <2>1, <3>1
  <2>4. \A a \in Actor \ {t} : pc'[a] = pc[a]
    BY <1>2, <2>1, Went
  <2> QED
    BY <1>2, <1>3, <2>1, <2>3, <2>4 DEF WatchPoint
<1>6. CASE FinishClear(t)
  <2>1. CASE Goto(t, "finish:idle")
    BY <1>2, <2>1, Went, WatchHere DEF WatchPoint
  <2>2. CASE Goto(t, "done") /\ slot' = slot
    BY <1>2, <1>3, <1>6, <2>2, Went DEF WatchPoint, FinishClear
  <2> QED
    BY <1>6, <2>1, <2>2 DEF FinishClear
<1>7. CASE FinishIdle(t) \/ FinishWake(t)
  <2>1. \E p \in {"try:check", "finish:wake", "maybe:check"} : Goto(t, p)
    BY <1>7 DEF FinishIdle, FinishWake
  <2> QED
    BY <1>2, <2>1, Went, WatchHere DEF WatchPoint
<1> QED
  BY <1>4, <1>5, <1>6, <1>7 DEF FinishStep

(* A request that brings mail is looked after by its own handler, or by    *)
(* the request to wake the session that comes after it.                    *)
LEMMA WatchRequests ==
  ASSUME MailIsFollowed, TypeInv, UnusedIsUnused, TurnsApart, TodoKnown, Calm, MailWatched,
         NEW o \in todo, Request(o)
  PROVE  MailWatched'
<1> USE DEF Looks, StartPoint, Choice, TryPoint
<1>1. todo \ {o} \subseteq todo'
  BY Asked
<1>s. ASSUME pc' = pc, slot' = slot, o.op # "StartPendingWork",
             mailbox' \cap TriggerMail = mailbox \cap TriggerMail
      PROVE  MailWatched'
  BY <1>1, <1>s, WatchStays
<1>2. CASE Steer(o) \/ CancelSteer(o) \/ Inject(o) \/ LoopStage(o)
  <2>1. pc' = pc /\ slot' = slot /\ o.op \notin {"StartPendingWork", "TriggerMail", "ReleaseMail"}
    BY <1>2 DEF Steer, CancelSteer, Inject, LoopStage
  <2> QED
    BY <1>s, <2>1, OtherRequests
<1>3. CASE LoopRelease(o)
  <2>1. o.op = "ReleaseMail"
    BY <1>3 DEF LoopRelease
  <2>2. \E p \in todo' : p.op = "StartPendingWork"
    BY <1>1, <2>1 DEF Calm
  <2> QED
    BY <2>2 DEF MailWatched, Watched
<1>g. ASSUME NEW p \in {"maybe:check", "abort:take"}, Goto(Loop, p)
      PROVE  MailWatched'
  BY <1>g, Went, WatchHere, Actors DEF WatchPoint
<1>4. CASE LoopMail(o)
  <2>1. CASE o.op = "TriggerMail"
    BY <1>4, <1>g, <2>1 DEF LoopMail
  <2>2. CASE o.op = "QueueMail"
    <3>1. pc[Loop] = "idle" /\ Goto(Loop, "idle") /\ slot' = slot
      BY <1>4, <2>2 DEF LoopMail
    <3>2. pc' = pc
      BY <3>1, Actors DEF Goto, TypeInv, PcTyped
    <3> QED
      BY <1>s, <2>2, <3>1, <3>2, OtherRequests
  <2> QED
    BY <1>4, <2>1, <2>2 DEF LoopMail
<1>5. CASE LoopStartPendingWork(o) \/ LoopInterrupt(o)
  BY <1>5, <1>g DEF LoopStartPendingWork, LoopInterrupt
<1>6. CASE LoopUserInput(o) \/ ExtIdleStart(o)
  <2>1. slot' = slot /\ o.op \in {"UserInput", "IdleStart"}
    BY <1>6 DEF LoopUserInput, ExtIdleStart
  <2>2. mailbox' \cap TriggerMail = mailbox \cap TriggerMail
    BY <2>1, OtherRequests
  <2>3. \A b \in Actor : pc[b] \in WatchPoint(b) => pc'[b] \in WatchPoint(b)
    <3>1. CASE pc' = pc
      BY <3>1
    <3>2. ASSUME NEW t \in Turn, NewTurn(Loop, t, "Regular", {o.item}, "route"),
                 pc[Loop] = "idle"
          PROVE  \A b \in Actor : pc[b] \in WatchPoint(b) => pc'[b] \in WatchPoint(b)
      <4>1. pc[t] = "unused" /\ \A b \in Actor \ {Loop, t} : pc'[b] = pc[b]
        BY <3>2, TurnTaken, Actors
      <4>2. pc[t] \notin WatchPoint(t) /\ pc[Loop] \notin WatchPoint(Loop)
        BY <3>2, <4>1, Actors DEF WatchPoint, AbortPoint
      <4> QED
        BY <4>1, <4>2
    <3>3. CASE ExtIdleStart(o)
      <4>1. pc[Ext] = "idle" /\ Goto(Ext, "try:check")
        BY <3>3 DEF ExtIdleStart
      <4>2. pc[Ext] \notin WatchPoint(Ext)
        BY <4>1, Actors DEF WatchPoint
      <4> QED
        BY <4>1, <4>2, Went, Actors
    <3> QED
      BY <1>6, <3>1, <3>2, <3>3 DEF LoopUserInput
  <2> QED
    BY <1>1, <2>1, <2>2, <2>3, WatchStays
<1>7. CASE LoopSpawn(o)
  <2>1. slot' = slot /\ o.op \in TaskKind /\ mailbox' = mailbox
    BY <1>7 DEF LoopSpawn, queueVars
  <2>2. CASE pc' = pc
    BY <1>s, <2>1, <2>2 DEF TaskKind
  <2>3. ASSUME NEW t \in Turn, pc' = [pc EXCEPT ![t] = "queued", ![Loop] = "abort:take"]
        PROVE  MailWatched'
    <3>1. pc'[Loop] = "abort:take"
      BY <2>3, Actors DEF TypeInv, PcTyped
    <3> QED
      BY <3>1, WatchHere, Actors DEF WatchPoint
  <2> QED
    BY <1>7, <2>2, <2>3 DEF LoopSpawn
<1> QED
  BY <1>2, <1>3, <1>4, <1>5, <1>6, <1>7 DEF Request

(* The loop is not interrupted, and the starter leaves the router alone.   *)
LEMMA CalmRequests ==
  ASSUME TypeInv, Calm, NEW o \in todo, Request(o)
  PROVE  Calm'
<1>1. /\ todo \ {o} \subseteq todo'
      /\ \A p \in todo' : p \in todo \ {o} \/ p.op = "InjectOrRecord"
  BY Asked
<1>2. \A p \in todo' : p.op # "Interrupt"
  BY <1>1 DEF Calm
<1>3. (\E p \in todo' : p.op = "ReleaseMail") => \E p \in todo' : p.op = "StartPendingWork"
  <2>1. CASE o.op = "StartPendingWork"
    <3>1. \A p \in todo : p.op # "ReleaseMail"
      BY <2>1 DEF Request, Steer, CancelSteer, Inject, LoopUserInput, LoopSpawn, LoopMail,
         LoopStage, LoopRelease, LoopStartPendingWork, LoopInterrupt, ExtIdleStart, Take,
         TaskKind
    <3> QED
      BY <1>1, <3>1
  <2>2. CASE o.op # "StartPendingWork"
    BY <1>1, <2>2 DEF Calm
  <2> QED
    BY <2>1, <2>2
<1>4. RouterScript => pc'[Ext] = "idle" /\ \A p \in todo' : p.op # "IdleStart"
  <2> SUFFICES ASSUME RouterScript PROVE pc'[Ext] = "idle" /\ \A p \in todo' : p.op # "IdleStart"
    OBVIOUS
  <2>1. ~ExtIdleStart(o)
    BY DEF Calm, ExtIdleStart
  <2>2. pc'[Ext] = pc[Ext]
    BY <2>1, Actors DEF Request, Steer, CancelSteer, Inject, LoopUserInput, LoopSpawn, LoopMail,
       LoopStage, LoopRelease, LoopStartPendingWork, LoopInterrupt, NewTurn, Goto, TypeInv,
       PcTyped
  <2> QED
    BY <1>1, <2>2 DEF Calm
<1>5. pc'[Loop] = "abort:take" /\ abort'.reason = "Interrupted" => call'[Loop].ret = "exited"
  <2>1. CASE LoopInterrupt(o)
    <3>1. o.op = "Shutdown"
      BY <2>1 DEF LoopInterrupt, Calm
    <3>2. call' = [call EXCEPT ![Loop].ret = "exited"]
      BY <2>1, <3>1 DEF LoopInterrupt
    <3> QED
      BY <3>2, Actors DEF TypeInv, CallTyped, CallType
  <2>2. CASE LoopSpawn(o)
    <3>1. CASE abort' = [abort EXCEPT !.reason = "Replaced"]
      BY <3>1 DEF TypeInv, AbortTyped, AbortType
    <3>2. CASE UNCHANGED <<pc, call, abort>>
      BY <3>2 DEF Calm
    <3> QED
      BY <2>2, <3>1, <3>2 DEF LoopSpawn
  <2>3. CASE LoopMail(o) \/ LoopStartPendingWork(o)
    <3>1. \E p \in {"maybe:check", "idle"} : Goto(Loop, p)
      BY <2>3 DEF LoopMail, LoopStartPendingWork
    <3> QED
      BY <3>1, Went, Actors
  <2>4. CASE LoopUserInput(o)
    <3>1. CASE UNCHANGED <<pc, call>>
      BY <2>4, <3>1 DEF Calm, LoopUserInput
    <3>2. ASSUME NEW t \in Turn, NewTurn(Loop, t, "Regular", {o.item}, "route")
          PROVE  pc'[Loop] = "route"
      BY <3>2, TurnTaken, Actors
    <3> QED
      BY <2>4, <3>1, <3>2 DEF LoopUserInput
  <2>5. CASE ExtIdleStart(o)
    <3>1. UNCHANGED abort /\ Goto(Ext, "try:check") /\ call' = [call EXCEPT ![Ext].items = {o.item}]
      BY <2>5 DEF ExtIdleStart
    <3>2. pc'[Loop] = pc[Loop] /\ call'[Loop] = call[Loop]
      BY <3>1, Went, Actors DEF TypeInv, CallTyped
    <3> QED
      BY <3>1, <3>2 DEF Calm
  <2>6. CASE Steer(o) \/ CancelSteer(o) \/ Inject(o) \/ LoopStage(o) \/ LoopRelease(o)
    BY <2>6 DEF Steer, CancelSteer, Inject, LoopStage, LoopRelease, Calm
  <2> QED
    BY <2>1, <2>2, <2>3, <2>4, <2>5, <2>6 DEF Request
<1> QED
  BY <1>2, <1>3, <1>4, <1>5 DEF Calm

LEMMA CalmActors ==
  ASSUME TypeInv, UnusedIsUnused, TurnsApart, Calm,
         LoopStep \/ StartStep(Ext) \/ \E t \in Turn : TaskStep(t)
  PROVE  Calm'
<1> USE DEF Looks, Choice, TryPoint, StartPoint, AbortPoint
<1>1. /\ todo' \subseteq todo
      /\ abort'.reason = abort.reason \/ abort'.reason = "Replaced"
      /\ \A o \in todo : o.op # "IdleStart" => o \in todo'
  BY Unasked
<1>r. \A a \in Actor : call[a].ret \in {"idle", "exited", "finish:wake", "done"}
  BY CallFields DEF TypeInv, CallTyped
<1>2. ASSUME \/ pc'[Loop] # "abort:take"
             \/ abort'.reason = "Replaced"
             \/ pc'[Loop] = pc[Loop] /\ call'[Loop].ret = call[Loop].ret,
             RouterScript => pc'[Ext] = pc[Ext]
      PROVE  Calm'
  BY <1>1, <1>2 DEF Calm
<1>3. ASSUME NEW a \in Actor, StartStep(a) PROVE Calm'
  <2>1. /\ pc[a] \in Looks \cup Choice
        /\ pc'[a] \in Looks \cup Choice \cup {call[a].ret}
        /\ \A b \in Actor : call'[b].ret = call[b].ret
        /\ \A b \in Actor \ ({a} \cup Turn) : pc'[b] = pc[b]
    BY <1>3, StartShape
  <2>2. RouterScript => a # Ext
    BY <2>1 DEF Calm
  <2> QED
    BY <1>2, <1>r, <2>1, <2>2, Actors
<1>4. CASE LoopStep /\ ~StartStep(Loop)
  <2>1. pc'[Ext] = pc[Ext]
    <3>1. pc[Loop] = "route" => call[Loop].turn \in Turn
      BY DEF TypeInv, LoopKnows
    <3>2. pc[Loop] \in AbortPoint => abort.victim \in Turn
      BY DEF TypeInv, LoopKnows
    <3>3. CASE \E p : Goto(Loop, p)
      BY <3>3, Went, Actors
    <3>4. CASE LoopRouted
      BY <3>1, <3>3, <3>4, Actors DEF LoopRouted, TypeInv, PcTyped
    <3>5. CASE AbortCancel \/ AbortKill
      BY <3>2, <3>5, Actors DEF AbortCancel, AbortKill, TypeInv, PcTyped
    <3>6. CASE AbortTake \/ AbortEvent \/ AbortClear
      BY <3>3, <3>6 DEF AbortTake, AbortEvent, AbortClear
    <3> QED
      BY <1>4, <3>4, <3>5, <3>6 DEF LoopStep
  <2>2. pc'[Loop] # "abort:take" \/ abort'.reason = "Replaced"
    <3>1. CASE LoopRouted
      <4>1. CASE abort' = [abort EXCEPT !.reason = "Replaced"]
        BY <4>1 DEF TypeInv, AbortTyped, AbortType
      <4>2. CASE pc' = [pc EXCEPT ![Loop] = "idle", ![call[Loop].turn] = "rejected"]
        BY <4>2, <3>1, Actors DEF LoopRouted, TypeInv, LoopKnows, PcTyped
      <4> QED
        BY <3>1, <4>1, <4>2 DEF LoopRouted
    <3>2. CASE AbortTake \/ AbortEvent \/ AbortClear
      <4>1. \E p \in {"abort:cancel", "start:take", "abort:clear", "maybe:check",
                      call[Loop].ret} : Goto(Loop, p)
        BY <3>2 DEF AbortTake, AbortEvent, AbortClear
      <4> QED
        BY <1>r, <4>1, Went, Actors
    <3>3. CASE AbortCancel \/ AbortKill
      <4>1. abort.victim \in Turn
        BY <3>3, Actors DEF AbortCancel, AbortKill, TypeInv, LoopKnows
      <4> QED
        BY <3>3, <4>1, Actors DEF AbortCancel, AbortKill, TypeInv, PcTyped
    <3> QED
      BY <1>4, <3>1, <3>2, <3>3 DEF LoopStep
  <2> QED
    BY <1>2, <2>1, <2>2
<1>5. ASSUME NEW t \in Turn, RunStep(t) \/ FinishStep(t) PROVE Calm'
  <2>1. /\ pc'[Loop] = pc[Loop] /\ pc'[Ext] = pc[Ext] /\ call'[Loop] = call[Loop]
    <3>1. CASE RunStep(t)
      BY <3>1, RunShape, Actors
    <3>2. CASE FinishStep(t)
      <4>1. \E p : Goto(t, p)
        BY <3>2 DEF FinishStep, FinishTake, FinishRecord, FinishEvent, FinishClear, FinishIdle,
           FinishWake
      <4>2. call'[Loop] = call[Loop]
        BY <3>2, Actors DEF FinishStep, FinishTake, FinishRecord, FinishEvent, FinishClear,
           FinishIdle, FinishWake, TypeInv, CallTyped
      <4> QED
        BY <4>1, <4>2, Went, Actors
    <3> QED
      BY <1>5, <3>1, <3>2
  <2> QED
    BY <1>2, <2>1
<1> QED
  BY <1>3, <1>4, <1>5, Actors DEF TaskStep

LEMMA FollowedStep ==
  ASSUME MailIsFollowed, TypeInv, UnusedIsUnused, TurnsApart, Returns, TodoKnown, Calm,
         MailWatched, [Next]_vars
  PROVE  (Calm /\ MailWatched)'
<1>1. CASE UNCHANGED vars
  BY <1>1 DEF vars, queueVars, Calm, MailWatched, HasTriggerMail, Watched
<1>2. ASSUME NEW o \in todo, Request(o) PROVE (Calm /\ MailWatched)'
  BY <1>2, CalmRequests, WatchRequests
<1>3. CASE LoopStep \/ StartStep(Ext) \/ \E t \in Turn : TaskStep(t)
  <2>1. MailWatched'
    BY <1>3, WatchLoop, WatchStarts, WatchTasks, Actors DEF LoopStep, TaskStep
  <2> QED
    BY <1>3, <2>1, CalmActors
<1> QED
  BY <1>1, <1>2, <1>3 DEF Next

LEMMA MailInit ==
  ASSUME MailIsFollowed, Init
  PROVE  TurnsApart /\ Returns /\ TodoKnown /\ (NoMail \/ (Calm /\ MailWatched))
<1>1. /\ todo \in Workloads /\ todo \subseteq Op /\ mailbox = {} /\ staged = {}
      /\ \A a \in Actor : pc[a] \in {"unused", "idle"} /\ call[a].turn = NoTurn
      /\ pc[Loop] = "idle" /\ pc[Ext] = "idle"
  BY WorkloadAssumption, Actors DEF Init
<1>2. TurnsApart /\ Returns /\ TodoKnown
  BY <1>1, Actors DEF TurnsApart, Returns, TodoKnown, ChoicePoint, TryPoint, Choice
<1>3. ~HasTriggerMail
  BY <1>1 DEF HasTriggerMail
<1>4. CASE \E o \in todo : o.op \in MailOp
  <2>1. MailFollowed(todo)
    BY <1>1 DEF MailIsFollowed
  <2> QED
    BY <1>1, <1>2, <1>3, <1>4, <2>1 DEF MailFollowed, Calm, MailWatched
<1>5. CASE ~\E o \in todo : o.op \in MailOp
  BY <1>1, <1>2, <1>3, <1>5 DEF NoMail
<1> QED
  BY <1>4, <1>5

(* Where whoever releases staged mail wakes the session afterwards, and    *)
(* no interrupt, nor an idle start under a router script, comes with mail, *)
(* no interleaving of turns that end, idle starts that give up and turns   *)
(* that replace one another leaves mail behind that asked for a turn: as   *)
(* long as it is in the mailbox the slot is taken, or some actor is yet to *)
(* run maybe_start_turn_for_pending_work.                                  *)
THEOREM TriggerMailIsSeen ==
  ASSUME MailIsFollowed
  PROVE  Spec => []NoStrandedMail
<1> DEFINE Inv == /\ TypeInv /\ ReviewInv /\ TurnsApart /\ Returns /\ TodoKnown
                  /\ NoMail \/ (Calm /\ MailWatched)
<1>1. Inv /\ [Next]_vars => Inv'
  <2> SUFFICES ASSUME Inv, [Next]_vars PROVE Inv'
    OBVIOUS
  <2>1. UnusedIsUnused
    BY DEF ReviewInv
  <2>2. TypeInv' /\ ReviewInv'
    BY TypeStep, ReviewStep
  <2>3. TurnsApart' /\ Returns' /\ TodoKnown'
    BY <2>1, ApartStep, ReturnsStep, TodoStep
  <2>4. NoMail' \/ (Calm /\ MailWatched)'
    BY <2>1, NoMailStep, FollowedStep
  <2> QED
    BY <2>2, <2>3, <2>4
<1>2. Init => Inv
  BY TypeInit, ReviewInit, MailInit
<1>3. Inv => NoStrandedMail
  <2> SUFFICES ASSUME TypeInv, NoMail \/ (Calm /\ MailWatched), Quiescent, HasTriggerMail
               PROVE  FALSE
    BY DEF NoStrandedMail
  <2>1. Watched
    BY DEF NoMail, MailWatched
  <2>2. \A a \in Actor : pc[a] \notin WatchPoint(a)
    BY Actors DEF Quiescent, WatchPoint, Actor, Looks, Choice, TryPoint, StartPoint, AbortPoint
  <2> QED
    BY <2>1, <2>2 DEF Quiescent, Watched
<1> HIDE DEF Inv
<1> QED
  BY <1>1, <1>2, <1>3, PTL DEF Spec
=============================================================================
