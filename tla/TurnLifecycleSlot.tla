-------------------------- MODULE TurnLifecycleSlot --------------------------
(***************************************************************************)
(* One turn at a time: proofs that the slot `active_turn` of a session     *)
(* names the one task that runs, that every turn is reported over once,    *)
(* and that a shutdown leaves nothing running, for any set of turns and    *)
(* requests in which the submission loop is the only one to start turns.   *)
(*                                                                         *)
(* LoopInv is the inductive invariant.  There is one lemma per action, of  *)
(* the form TypeInv /\ LoopInv /\ Action => LoopInv'; step <1>0 of each    *)
(* says what the action does to the control points and to the slot, and    *)
(* the steps after it take the conjuncts of LoopInv one by one.            *)
(***************************************************************************)
EXTENDS TurnLifecycleTypes

(***************************************************************************)
(* Sessions in which only the submission loop starts turns: no mail that   *)
(* asks for a turn, and no extension that starts one.  With either, the    *)
(* two debug_asserts of start_task can fail (run idle_user).               *)
(***************************************************************************)
LoopStartsAlone ==
    \A o \in Op : o.op \notin {"TriggerMail", "StageMail", "IdleStart"}

StartsOnly == \A o \in todo : o.op \notin {"TriggerMail", "StageMail", "IdleStart"}

Over == {"finish:clear", "finish:idle", "finish:wake", "maybe:check"}

(* Nobody but the loop is ever in start_task or try_start_turn_if_idle.    *)
OthersDoNotStart ==
    /\ pc[Ext] = "idle"
    /\ \A t \in Turn :
         /\ pc[t] \in {"unused", "queued", "rejected", "done", "killed",
                       "finish:record", "finish:event"} \cup Over \cup RunPoint
         /\ pc[t] = "maybe:check" => call[t].ret = "done"
    /\ pc[Loop] \in {"idle", "route", "exited", "abort:take", "maybe:check"}
                    \cup StartPoint \cup AbortPoint
    /\ call[Loop].ret \in {"idle", "exited"}

(* The turn the loop is about to start waits, untouched, for it.           *)
Replacing == pc[Loop] \in {"abort:take"} \cup AbortPoint /\ abort.reason = "Replaced"

NextTurnWaits ==
    /\ pc[Loop] = "route" \/ Replacing \/ pc[Loop] \in StartPoint =>
         pc[call[Loop].turn] = "queued"
    /\ Replacing \/ pc[Loop] \in StartPoint => call[Loop].ret = "idle"
    /\ \A t \in Turn : pc[t] = "queued" => ~task[t].cancelled

(* While the loop aborts or starts, the slot holds no task, and the turn   *)
(* being aborted goes from running to stopped.                             *)
LoopOwnsSlot ==
    /\ pc[Loop] \in AbortPoint \cup StartPoint => slot.task = NoTurn
    /\ pc[Loop] \in {"abort:cancel", "abort:kill"} =>
         Running(abort.victim) \/ pc[abort.victim] = "done"
    /\ pc[Loop] \in {"abort:event", "abort:clear"} =>
         pc[abort.victim] \in {"done", "killed"}
    /\ pc[Loop] = "exited" \/ (pc[Loop] = "maybe:check" /\ call[Loop].ret = "exited")
         => slot.task = NoTurn

(* The turn taken out of the slot to be aborted is not cancelled yet, so   *)
(* handle_task_abort does not return early.                                *)
VictimNotCancelled ==
    pc[Loop] = "abort:cancel" => ~task[abort.victim].cancelled

(* A turn has been reported over exactly when its task has sent the event, *)
(* or has been stopped and the loop has sent it.                           *)
EndsOnce ==
    \A t \in Turn :
        Ends(t) = IF pc[t] \in Over \/ (pc[t] \in {"done", "killed"} /\ ~Aborting(t))
                  THEN 1 ELSE 0

LoopInv ==
    /\ StartsOnly /\ OthersDoNotStart /\ NextTurnWaits /\ LoopOwnsSlot
    /\ VictimNotCancelled /\ SlotHoldsRunningTask /\ EndsOnce

-----------------------------------------------------------------------------
(* What is left alone                                                      *)

(* A mailbox without requests for trigger mail never has any.              *)
LEMMA NoTriggerMail ==
  ASSUME LoopStartsAlone
  PROVE  ~HasTriggerMail
BY DEF LoopStartsAlone, HasTriggerMail, TriggerMail, ItemsOf

(* Steps that leave the slot's task, the control points, the loop's        *)
(* locals, cancellation and terminal events alone.                         *)
LEMMA SlotFrame ==
  ASSUME TypeInv, LoopInv, todo' \subseteq todo,
         slot'.task = slot.task, UNCHANGED <<pc, call, abort, sent>>,
         \A t \in Turn : task'[t].cancelled = task[t].cancelled
  PROVE  LoopInv'
<1>1. StartsOnly'
  BY DEF LoopInv, StartsOnly
<1>2. OthersDoNotStart'
  BY DEF LoopInv, OthersDoNotStart
<1>3. NextTurnWaits'
  BY DEF LoopInv, NextTurnWaits, Replacing
<1>4. LoopOwnsSlot'
  BY DEF LoopInv, LoopOwnsSlot, Running
<1>5. SlotHoldsRunningTask'
  BY DEF LoopInv, SlotHoldsRunningTask, Running, Aborting
<1>6. EndsOnce'
  BY DEF LoopInv, EndsOnce, Ends, Aborting
<1>7. VictimNotCancelled'
  BY DEF LoopInv, VictimNotCancelled, TypeInv, LoopKnows, AbortPoint
<1> QED
  BY <1>1, <1>2, <1>3, <1>4, <1>5, <1>6, <1>7 DEF LoopInv

(* Steps of a running task that keep it running and send no terminal       *)
(* event.                                                                  *)
LEMMA RunFrame ==
  ASSUME TypeInv, LoopInv, NEW t \in Turn, pc[t] \in RunPoint, NEW p \in
         RunPoint,
         Goto(t, p), UNCHANGED <<todo, slot, call, abort>>,
         \A u \in Turn : task'[u].cancelled = task[u].cancelled,
         \A u \in Turn : Ends(u)' = Ends(u)
  PROVE  LoopInv'
<1>0. /\ pc' = [pc EXCEPT ![t] = p] /\ pc \in [Actor -> Control] /\ pc'[Loop] = pc[Loop] /\ pc'[Ext] = pc[Ext]
      /\ \A u \in Turn \ {t} : pc'[u] = pc[u]
      /\ pc'[t] = p
  BY Actors DEF Goto, TypeInv, PcTyped
<1>a. \A u \in Turn : Running(u)' <=> Running(u)
  BY <1>0 DEF Running
<1>1. StartsOnly'
  BY DEF LoopInv, StartsOnly
<1>2. OthersDoNotStart'
  BY <1>0 DEF LoopInv, OthersDoNotStart, Over, RunPoint
<1>3. NextTurnWaits'
  BY <1>0
  DEF LoopInv, NextTurnWaits, Replacing, TypeInv, LoopKnows, StartKnows,
      RunPoint
<1>4. LoopOwnsSlot'
  BY <1>0, <1>a
  DEF LoopInv, LoopOwnsSlot, TypeInv, LoopKnows, RunPoint, AbortPoint
<1>5. SlotHoldsRunningTask'
  BY <1>0, <1>a DEF LoopInv, SlotHoldsRunningTask, Aborting
<1>6. EndsOnce'
  BY <1>0 DEF LoopInv, EndsOnce, Aborting, RunPoint, Over
<1>7. VictimNotCancelled'
  BY <1>0 DEF LoopInv, VictimNotCancelled, TypeInv, LoopKnows, AbortPoint
<1> QED
  BY <1>1, <1>2, <1>3, <1>4, <1>5, <1>6, <1>7 DEF LoopInv

-----------------------------------------------------------------------------
(* Requests served outside the loop                                        *)

(* steer_input puts an item into the slot's TurnState.                     *)
LEMMA SteerSlot ==
  ASSUME TypeInv, LoopInv, NEW o \in todo, Steer(o)
  PROVE  LoopInv'
BY SlotFrame DEF Steer, Take

(* cancel_pending_steer takes it back.                                     *)
LEMMA CancelSteerSlot ==
  ASSUME TypeInv, LoopInv, NEW o \in todo, CancelSteer(o)
  PROVE  LoopInv'
BY SlotFrame DEF CancelSteer, Take

(* inject_if_running and inject_no_new_turn                                *)
LEMMA InjectSlot ==
  ASSUME TypeInv, LoopInv, NEW o \in todo, Inject(o)
  PROVE  LoopInv'
BY SlotFrame DEF Inject, Take

-----------------------------------------------------------------------------
(* The submission loop                                                     *)

(* A new turn, named in the loop's locals, waits for the loop.             *)
LEMMA NewTurnWaits ==
  ASSUME TypeInv, LoopInv, pc[Loop] = "idle", NEW t \in Turn, pc[t] =
         "unused",
         NEW p \in {"route", "abort:take"},
         pc' = [pc EXCEPT ![t] = "queued", ![Loop] = p],
         call'[Loop].turn = t, call'[Loop].ret \in {"idle", "exited"},
         p = "abort:take" => call'[Loop].ret = "idle",
         \A u \in Turn : call'[u] = call[u],
         ~task'[t].cancelled, \A u \in Turn \ {t} : task'[u] = task[u],
         UNCHANGED <<slot, sent>>, todo' \subseteq todo
  PROVE  LoopInv'
<1>0. /\ pc'[Loop] = p /\ pc'[t] = "queued" /\ pc'[Ext] = pc[Ext]
      /\ \A u \in Turn \ {t} : pc'[u] = pc[u]
  BY Actors DEF TypeInv, PcTyped
<1>a. \A u \in Turn : (Running(u)' <=> Running(u)) /\ ~Aborting(u) /\ ~Aborting(u)'
  BY <1>0 DEF Running, Aborting, RunPoint, AbortPoint
<1>1. StartsOnly'
  BY DEF LoopInv, StartsOnly
<1>2. OthersDoNotStart'
  BY <1>0 DEF LoopInv, OthersDoNotStart
<1>3. NextTurnWaits'
  <2>1. \A u \in Turn : pc'[u] = "queued" => ~task'[u].cancelled
    BY <1>0 DEF LoopInv, NextTurnWaits
  <2>2. pc'[call'[Loop].turn] = "queued"
    BY <1>0
  <2>3. pc'[Loop] \in StartPoint \/ Replacing' => call'[Loop].ret = "idle"
    BY <1>0 DEF Replacing, StartPoint, AbortPoint
  <2> QED
    BY <2>1, <2>2, <2>3 DEF NextTurnWaits
<1>4. LoopOwnsSlot'
  BY <1>0 DEF LoopInv, LoopOwnsSlot, StartPoint, AbortPoint
<1>5. SlotHoldsRunningTask'
  <2>1. ~Running(t)
    BY DEF Running, RunPoint
  <2> QED
    BY <1>a, <2>1 DEF LoopInv, SlotHoldsRunningTask
<1>6. EndsOnce'
  BY <1>0, <1>a DEF LoopInv, EndsOnce, Ends, Over
<1>7. VictimNotCancelled'
  BY <1>0 DEF VictimNotCancelled
<1> QED
  BY <1>1, <1>2, <1>3, <1>4, <1>5, <1>6, <1>7 DEF LoopInv

(* Op::UserInput steers, refuses, or creates the turn.                     *)
LEMMA LoopUserInputSlot ==
  ASSUME TypeInv, LoopInv, NEW o \in todo, LoopUserInput(o)
  PROVE  LoopInv'
<1>1. CASE UNCHANGED <<pc, call, task>>
  BY <1>1, SlotFrame DEF LoopUserInput, Take
<1>2. ASSUME NEW t \in Turn, NewTurn(Loop, t, "Regular", {o.item}, "route")
      PROVE  LoopInv'
  <2>1. /\ call'[Loop].turn = t /\ call'[Loop].ret = call[Loop].ret
        /\ \A u \in Turn : call'[u] = call[u]
    BY <1>2, Actors DEF NewTurn, TypeInv, CallTyped, CallType
  <2>2. ~task'[t].cancelled /\ \A u \in Turn \ {t} : task'[u] = task[u]
    BY <1>2 DEF NewTurn, NewTask, TypeInv, TaskTyped
  <2>3. call[Loop].ret \in {"idle", "exited"}
    BY DEF LoopInv, OthersDoNotStart
  <2> QED
    BY <1>2, <2>1, <2>2, <2>3, NewTurnWaits
    DEF LoopUserInput, NewTurn, FreshTurn, Take
<1> QED
  BY <1>1, <1>2 DEF LoopUserInput

(* The routed turn goes on to replace the old one, or is given up.         *)
LEMMA LoopRoutedSlot ==
  ASSUME LoopStartsAlone, TypeInv, LoopInv, LoopRouted
  PROVE  LoopInv'
<1> DEFINE t == call[Loop].turn
<1>0. /\ t \in Turn /\ pc[t] = "queued" /\ pc[Loop] = "route"
      /\ call'[Loop].turn = t /\ call'[Loop].ret = "idle"
      /\ \A u \in Turn : call'[u] = call[u] /\ task'[u].cancelled = task[u].cancelled
  BY Actors
  DEF LoopRouted, LoopInv, NextTurnWaits, TypeInv, LoopKnows, CallTyped,
      CallType, TaskTyped, TaskType
<1>a. \/ /\ pc'[Loop] = "abort:take" /\ pc'[Ext] = pc[Ext]
         /\ \A u \in Turn : pc'[u] = pc[u]
      \/ /\ pc'[Loop] = "idle" /\ pc'[t] = "rejected" /\ pc'[Ext] = pc[Ext]
         /\ \A u \in Turn \ {t} : pc'[u] = pc[u]
  BY <1>0, Actors DEF LoopRouted, Goto, TypeInv, PcTyped
<1>b. UNCHANGED <<slot, sent>>
  BY DEF LoopRouted
<1>1. StartsOnly'
  BY DEF LoopInv, LoopRouted, StartsOnly
<1>2. OthersDoNotStart'
  BY <1>0, <1>a DEF LoopInv, OthersDoNotStart
<1>3. NextTurnWaits'
  BY <1>0, <1>a DEF LoopInv, NextTurnWaits, Replacing, StartPoint, AbortPoint
<1>4. LoopOwnsSlot'
  BY <1>a DEF LoopOwnsSlot, AbortPoint, StartPoint
<1>5. SlotHoldsRunningTask'
  BY <1>0, <1>a, <1>b
  DEF LoopInv, SlotHoldsRunningTask, Running, RunPoint, Aborting, AbortPoint
<1>6. EndsOnce'
  BY <1>0, <1>a, <1>b DEF LoopInv, EndsOnce, Ends, Over, Aborting, AbortPoint
<1>7. VictimNotCancelled'
  BY <1>a DEF VictimNotCancelled
<1> QED
  BY <1>1, <1>2, <1>3, <1>4, <1>5, <1>6, <1>7 DEF LoopInv

(* Op::Compact, Op::Review and Op::RunUserShellCommand                     *)
LEMMA LoopSpawnSlot ==
  ASSUME TypeInv, LoopInv, NEW o \in todo, LoopSpawn(o)
  PROVE  LoopInv'
<1>1. StartsOnly'
  BY DEF LoopSpawn, Take, LoopInv, StartsOnly
<1>2. CASE UNCHANGED <<pc, task, call, abort>>
  <2>1. UNCHANGED <<slot, sent>>
    BY DEF LoopSpawn
  <2>2. OthersDoNotStart' /\ NextTurnWaits' /\ LoopOwnsSlot'
        /\ VictimNotCancelled' /\ SlotHoldsRunningTask' /\ EndsOnce'
    BY <1>2, <2>1
    DEF LoopInv, OthersDoNotStart, NextTurnWaits, Replacing, LoopOwnsSlot,
        VictimNotCancelled, SlotHoldsRunningTask, EndsOnce, Running, Aborting,
        Ends
  <2> QED
    BY <1>1, <2>2 DEF LoopInv
<1>3. ASSUME NEW t \in Turn, Take(o), FreshTurn(t), NEW s,
             pc' = [pc EXCEPT ![t] = "queued", ![Loop] = "abort:take"],
             task' = [task EXCEPT ![t] = NewTask(o.op, s)],
             call' = [call EXCEPT ![Loop].turn = t, ![Loop].ret = "idle"]
      PROVE  LoopInv'
  <2>1. /\ call'[Loop].turn = t /\ call'[Loop].ret = "idle"
        /\ \A u \in Turn : call'[u] = call[u]
    BY <1>3, Actors DEF TypeInv, CallTyped, CallType
  <2>2. ~task'[t].cancelled /\ \A u \in Turn \ {t} : task'[u] = task[u]
    BY <1>3 DEF NewTask, TypeInv, TaskTyped
  <2> QED
    BY <1>3, <2>1, <2>2, NewTurnWaits DEF LoopSpawn, FreshTurn, Take
<1> QED
  BY <1>2, <1>3 DEF LoopSpawn

(* Op::InterAgentCommunication, here without trigger_turn                  *)
LEMMA LoopMailSlot ==
  ASSUME LoopStartsAlone, TypeInv, LoopInv, NEW o \in todo, LoopMail(o)
  PROVE  LoopInv'
<1>0. /\ UNCHANGED <<pc, slot, abort, task, sent>> /\ pc[Loop] = "idle"
      /\ call'[Loop].ret = "idle" /\ \A u \in Turn : call'[u] = call[u]
  BY Actors
  DEF LoopMail, Goto, LoopInv, StartsOnly, TypeInv, CallTyped, CallType,
      PcTyped
<1>1. StartsOnly'
  BY DEF LoopInv, LoopMail, Take, StartsOnly
<1>2. OthersDoNotStart'
  BY <1>0 DEF LoopInv, OthersDoNotStart
<1>3. NextTurnWaits'
  BY <1>0 DEF LoopInv, NextTurnWaits, Replacing, StartPoint, AbortPoint
<1>4. LoopOwnsSlot'
  BY <1>0 DEF LoopInv, LoopOwnsSlot
<1>5. VictimNotCancelled'
  BY <1>0 DEF LoopInv, VictimNotCancelled
<1>6. SlotHoldsRunningTask'
  BY <1>0 DEF LoopInv, SlotHoldsRunningTask, Running, Aborting
<1>7. EndsOnce'
  BY <1>0 DEF LoopInv, EndsOnce, Ends, Aborting
<1> QED
  BY <1>1, <1>2, <1>3, <1>4, <1>5, <1>6, <1>7 DEF LoopInv

(* Op::ReleaseInterAgentCommunication                                      *)
LEMMA LoopReleaseSlot ==
  ASSUME TypeInv, LoopInv, NEW o \in todo, LoopRelease(o)
  PROVE  LoopInv'
BY SlotFrame DEF LoopRelease, Take

(* Op::StartPendingWork looks for pending work.                            *)
LEMMA LoopStartPendingWorkSlot ==
  ASSUME LoopStartsAlone, TypeInv, LoopInv, NEW o \in todo,
         LoopStartPendingWork(o)
  PROVE  LoopInv'
<1>0. /\ pc[Loop] = "idle" /\ pc'[Loop] = "maybe:check"
      /\ pc'[Ext] = pc[Ext] /\ \A u \in Turn : pc'[u] = pc[u]
      /\ call'[Loop].ret = "idle" /\ \A u \in Turn : call'[u] = call[u]
      /\ UNCHANGED <<slot, abort, task, sent>>
  BY Actors
  DEF LoopStartPendingWork, Goto, TypeInv, CallTyped, CallType, PcTyped
<1>1. StartsOnly'
  BY DEF LoopInv, LoopStartPendingWork, Take, StartsOnly
<1>2. OthersDoNotStart'
  BY <1>0 DEF LoopInv, OthersDoNotStart
<1>3. NextTurnWaits'
  BY <1>0 DEF LoopInv, NextTurnWaits, Replacing, StartPoint, AbortPoint
<1>4. LoopOwnsSlot'
  BY <1>0 DEF LoopInv, LoopOwnsSlot, AbortPoint, StartPoint
<1>5. VictimNotCancelled'
  BY <1>0 DEF LoopInv, VictimNotCancelled
<1>6. SlotHoldsRunningTask'
  BY <1>0 DEF LoopInv, SlotHoldsRunningTask, Running, Aborting, AbortPoint
<1>7. EndsOnce'
  BY <1>0 DEF LoopInv, EndsOnce, Ends, Aborting, AbortPoint
<1> QED
  BY <1>1, <1>2, <1>3, <1>4, <1>5, <1>6, <1>7 DEF LoopInv

(* Op::Interrupt and Op::Shutdown begin an abort.                          *)
LEMMA LoopInterruptSlot ==
  ASSUME LoopStartsAlone, TypeInv, LoopInv, NEW o \in todo, LoopInterrupt(o)
  PROVE  LoopInv'
<1>0. /\ pc[Loop] = "idle" /\ pc'[Loop] = "abort:take"
      /\ pc'[Ext] = pc[Ext] /\ \A u \in Turn : pc'[u] = pc[u]
      /\ call'[Loop].ret \in {"idle", "exited"} /\ \A u \in Turn : call'[u] = call[u]
      /\ abort'.reason = "Interrupted" /\ UNCHANGED <<slot, task, sent>>
  BY Actors
  DEF LoopInterrupt, Goto, TypeInv, CallTyped, CallType, PcTyped, AbortTyped,
      AbortType
<1>1. StartsOnly'
  BY DEF LoopInv, LoopInterrupt, Take, StartsOnly
<1>2. OthersDoNotStart'
  BY <1>0 DEF LoopInv, OthersDoNotStart
<1>3. NextTurnWaits'
  BY <1>0 DEF LoopInv, NextTurnWaits, Replacing, StartPoint, AbortPoint
<1>4. LoopOwnsSlot'
  BY <1>0 DEF LoopInv, LoopOwnsSlot, AbortPoint, StartPoint
<1>5. VictimNotCancelled'
  BY <1>0 DEF LoopInv, VictimNotCancelled
<1>6. SlotHoldsRunningTask'
  BY <1>0 DEF LoopInv, SlotHoldsRunningTask, Running, Aborting, AbortPoint
<1>7. EndsOnce'
  BY <1>0 DEF LoopInv, EndsOnce, Ends, Aborting, AbortPoint
<1> QED
  BY <1>1, <1>2, <1>3, <1>4, <1>5, <1>6, <1>7 DEF LoopInv

-----------------------------------------------------------------------------
(* abort_all_tasks and handle_task_abort                                   *)

(* The slot's task becomes the victim: it runs and is not cancelled.       *)
LEMMA AbortTakeSlot ==
  ASSUME LoopStartsAlone, TypeInv, LoopInv, AbortTake
  PROVE  LoopInv'
<1>0. /\ pc[Loop] = "abort:take"
      /\ pc'[Loop] = IF slot.task # NoTurn THEN "abort:cancel"
                     ELSE IF abort.reason = "Replaced" THEN "start:take"
                     ELSE call[Loop].ret
      /\ pc'[Ext] = pc[Ext] /\ \A u \in Turn : pc'[u] = pc[u]
      /\ slot'.task = NoTurn /\ UNCHANGED <<call, task, sent>>
      /\ abort'.victim = slot.task /\ abort'.reason = abort.reason
  BY Actors
  DEF AbortTake, Goto, TypeInv, PcTyped, AbortTyped, AbortType, NoSlot
<1>1. StartsOnly'
  BY DEF LoopInv, AbortTake, StartsOnly
<1>2. OthersDoNotStart'
  BY <1>0 DEF LoopInv, OthersDoNotStart, StartPoint, AbortPoint
<1>3. NextTurnWaits'
  BY <1>0, Actors
  DEF LoopInv, NextTurnWaits, Replacing, OthersDoNotStart, LoopOwnsSlot,
      Running, RunPoint, StartPoint, AbortPoint, TypeInv, LoopKnows,
      StartKnows
<1>4. LoopOwnsSlot'
  BY <1>0, Actors
  DEF LoopInv, LoopOwnsSlot, SlotHoldsRunningTask, OthersDoNotStart,
      NextTurnWaits, Replacing, Running, RunPoint, AbortPoint, StartPoint,
      TypeInv, LoopKnows, StartKnows, SlotTyped, SlotType
<1>5. VictimNotCancelled'
  BY <1>0
  DEF LoopInv, VictimNotCancelled, SlotHoldsRunningTask, OthersDoNotStart,
      TypeInv, SlotTyped, SlotType
<1>6. SlotHoldsRunningTask'
  BY <1>0, Actors
  DEF LoopInv, SlotHoldsRunningTask, Running, RunPoint, Aborting, AbortPoint
<1>7. EndsOnce'
  BY <1>0, Actors
  DEF LoopInv, EndsOnce, Ends, Aborting, AbortPoint, LoopOwnsSlot,
      SlotHoldsRunningTask, OthersDoNotStart, Over, Running, RunPoint, TypeInv
<1> QED
  BY <1>1, <1>2, <1>3, <1>4, <1>5, <1>6, <1>7 DEF LoopInv

(* The victim is cancelled; the early return is not taken.                 *)
LEMMA AbortCancelSlot ==
  ASSUME LoopStartsAlone, TypeInv, LoopInv, AbortCancel
  PROVE  LoopInv'
<1>0. /\ pc[Loop] = "abort:cancel" /\ pc'[Loop] = "abort:kill"
      /\ pc'[Ext] = pc[Ext] /\ \A u \in Turn : pc'[u] = pc[u]
      /\ abort.victim \in Turn /\ UNCHANGED <<slot, call, abort, sent>>
      /\ \A u \in Turn \ {abort.victim} : task'[u] = task[u]
  BY Actors
  DEF AbortCancel, LoopInv, VictimNotCancelled, TypeInv, PcTyped, LoopKnows,
      AbortPoint, TaskTyped
<1>1. StartsOnly'
  BY DEF LoopInv, AbortCancel, StartsOnly
<1>2. OthersDoNotStart'
  BY <1>0 DEF LoopInv, OthersDoNotStart, StartPoint, AbortPoint
<1>3. NextTurnWaits'
  BY <1>0, Actors
  DEF LoopInv, NextTurnWaits, Replacing, OthersDoNotStart, LoopOwnsSlot,
      Running, RunPoint, StartPoint, AbortPoint, TypeInv, LoopKnows,
      StartKnows
<1>4. LoopOwnsSlot'
  BY <1>0
  DEF LoopInv, LoopOwnsSlot, Running, RunPoint, AbortPoint, TypeInv, LoopKnows
<1>5. VictimNotCancelled'
  BY <1>0 DEF LoopInv, VictimNotCancelled
<1>6. SlotHoldsRunningTask'
  BY <1>0, Actors
  DEF LoopInv, SlotHoldsRunningTask, LoopOwnsSlot, Running, RunPoint,
      Aborting, AbortPoint
<1>7. EndsOnce'
  BY <1>0 DEF LoopInv, EndsOnce, Ends, Aborting, AbortPoint
<1> QED
  BY <1>1, <1>2, <1>3, <1>4, <1>5, <1>6, <1>7 DEF LoopInv

(* The victim is stopped; no terminal event is sent yet.                   *)
LEMMA AbortKillSlot ==
  ASSUME LoopStartsAlone, TypeInv, LoopInv, AbortKill
  PROVE  LoopInv'
<1>0. /\ pc[Loop] = "abort:kill" /\ pc'[Loop] = "abort:event"
      /\ abort.victim \in Turn /\ pc'[abort.victim] \in {"done", "killed"}
      /\ pc'[Ext] = pc[Ext] /\ \A u \in Turn \ {abort.victim} : pc'[u] = pc[u]
      /\ \A u \in Turn \ {abort.victim} : task'[u] = task[u]
      /\ UNCHANGED <<slot, call, abort>>
  BY Actors DEF AbortKill, TypeInv, PcTyped, LoopKnows, AbortPoint, TaskTyped
<1>a. \A u \in Turn : Ends(u)' = Ends(u)
  BY DEF AbortKill, Emit, Ends, TypeInv, SentTyped, EventName
<1>1. StartsOnly'
  BY DEF LoopInv, AbortKill, StartsOnly
<1>2. OthersDoNotStart'
  BY <1>0 DEF LoopInv, OthersDoNotStart, StartPoint, AbortPoint
<1>3. NextTurnWaits'
  BY <1>0, Actors
  DEF LoopInv, NextTurnWaits, Replacing, OthersDoNotStart, LoopOwnsSlot,
      Running, RunPoint, StartPoint, AbortPoint, TypeInv, LoopKnows,
      StartKnows
<1>4. LoopOwnsSlot'
  BY <1>0 DEF LoopInv, LoopOwnsSlot, AbortPoint, StartPoint
<1>5. VictimNotCancelled'
  BY <1>0 DEF LoopInv, VictimNotCancelled
<1>6. SlotHoldsRunningTask'
  BY <1>0, Actors
  DEF LoopInv, SlotHoldsRunningTask, LoopOwnsSlot, Running, RunPoint,
      Aborting, AbortPoint
<1>7. EndsOnce'
  <2>1. Aborting(abort.victim) /\ Aborting(abort.victim)'
    BY <1>0 DEF Aborting, AbortPoint
  <2>2. pc[abort.victim] \notin Over
    BY <1>0 DEF LoopInv, LoopOwnsSlot, Running, RunPoint, Over
  <2>3. pc'[abort.victim] \notin Over
    BY <1>0 DEF Over
  <2>4. \A u \in Turn \ {abort.victim} : ~Aborting(u) /\ ~Aborting(u)'
    BY <1>0 DEF Aborting
  <2> QED
    BY <1>0, <1>a, <2>1, <2>2, <2>3, <2>4 DEF LoopInv, EndsOnce
<1> QED
  BY <1>1, <1>2, <1>3, <1>4, <1>5, <1>6, <1>7 DEF LoopInv

(* The victim's terminal event is sent, its first.                         *)
LEMMA AbortEventSlot ==
  ASSUME LoopStartsAlone, TypeInv, LoopInv, AbortEvent
  PROVE  LoopInv'
<1>0. /\ pc[Loop] = "abort:event" /\ pc'[Loop] = "abort:clear" /\ abort.victim \in Turn
      /\ pc'[Ext] = pc[Ext] /\ \A u \in Turn : pc'[u] = pc[u]
      /\ UNCHANGED <<slot, call, abort, task>>
  BY Actors DEF AbortEvent, Goto, TypeInv, PcTyped, LoopKnows, AbortPoint
<1>1. StartsOnly'
  BY DEF LoopInv, AbortEvent, StartsOnly
<1>2. OthersDoNotStart'
  BY <1>0 DEF LoopInv, OthersDoNotStart, StartPoint, AbortPoint
<1>3. NextTurnWaits'
  BY <1>0, Actors
  DEF LoopInv, NextTurnWaits, Replacing, StartPoint, AbortPoint, TypeInv,
      LoopKnows, StartKnows
<1>4. LoopOwnsSlot'
  BY <1>0 DEF LoopInv, LoopOwnsSlot, AbortPoint, StartPoint
<1>5. VictimNotCancelled'
  BY <1>0 DEF LoopInv, VictimNotCancelled
<1>6. SlotHoldsRunningTask'
  BY <1>0, Actors
  DEF LoopInv, SlotHoldsRunningTask, LoopOwnsSlot, Running, RunPoint,
      Aborting, AbortPoint
<1>7. EndsOnce'
  BY <1>0
  DEF LoopInv, EndsOnce, Ends, Aborting, AbortPoint, LoopOwnsSlot, Over,
      AbortEvent, Emit, SentTyped, EventName, TypeInv
<1> QED
  BY <1>1, <1>2, <1>3, <1>4, <1>5, <1>6, <1>7 DEF LoopInv

(* The victim is forgotten: it is over and has been reported.              *)
LEMMA AbortClearSlot ==
  ASSUME LoopStartsAlone, TypeInv, LoopInv, AbortClear
  PROVE  LoopInv'
<1>0. /\ pc[Loop] = "abort:clear"
      /\ pc'[Loop] = IF abort.reason = "Replaced" THEN "start:take" ELSE "maybe:check"
      /\ pc'[Ext] = pc[Ext] /\ \A u \in Turn : pc'[u] = pc[u]
      /\ UNCHANGED <<slot, call, task, sent>>
  BY Actors DEF AbortClear, Goto, TypeInv, PcTyped
<1>1. StartsOnly'
  BY DEF LoopInv, AbortClear, StartsOnly
<1>2. OthersDoNotStart'
  BY <1>0 DEF LoopInv, OthersDoNotStart, StartPoint, AbortPoint
<1>3. NextTurnWaits'
  BY <1>0, Actors
  DEF LoopInv, NextTurnWaits, Replacing, StartPoint, AbortPoint, TypeInv,
      LoopKnows, StartKnows
<1>4. LoopOwnsSlot'
  BY <1>0 DEF LoopInv, LoopOwnsSlot, AbortPoint, StartPoint
<1>5. VictimNotCancelled'
  BY <1>0 DEF LoopInv, VictimNotCancelled
<1>6. SlotHoldsRunningTask'
  BY <1>0 DEF LoopInv, SlotHoldsRunningTask, Running, Aborting
<1>7. EndsOnce'
  BY <1>0 DEF LoopInv, EndsOnce, Ends, Aborting, AbortPoint
<1> QED
  BY <1>1, <1>2, <1>3, <1>4, <1>5, <1>6, <1>7 DEF LoopInv

-----------------------------------------------------------------------------
(* start_task and maybe_start_turn_for_pending_work                        *)

(* Without trigger mail the check returns to its caller.                   *)
LEMMA MaybeCheckSlot ==
  ASSUME LoopStartsAlone, TypeInv, LoopInv, NEW a \in Actor, MaybeCheck(a)
  PROVE  LoopInv'
<1>0. /\ pc[a] = "maybe:check" /\ pc'[a] = call[a].ret /\ a \in Turn \cup {Loop}
      /\ \A b \in Actor \ {a} : pc'[b] = pc[b]
      /\ UNCHANGED <<slot, call, abort, task, sent>>
  BY NoTriggerMail
  DEF MaybeCheck, Goto, Return, LoopInv, OthersDoNotStart, TypeInv, PcTyped,
      Actor
<1>1. StartsOnly'
  BY DEF LoopInv, MaybeCheck, StartsOnly
<1>2. OthersDoNotStart'
  BY <1>0, Actors
  DEF LoopInv, OthersDoNotStart, Over, RunPoint, StartPoint, AbortPoint,
      TypeInv, CallTyped, CallType
<1>3. NextTurnWaits'
  BY <1>0, Actors
  DEF LoopInv, NextTurnWaits, Replacing, OthersDoNotStart, LoopOwnsSlot,
      Running, RunPoint, StartPoint, AbortPoint, TypeInv, LoopKnows,
      StartKnows
<1>4. LoopOwnsSlot'
  BY <1>0, Actors
  DEF LoopInv, LoopOwnsSlot, SlotHoldsRunningTask, OthersDoNotStart,
      NextTurnWaits, Replacing, Running, RunPoint, AbortPoint, StartPoint,
      TypeInv, LoopKnows, StartKnows, SlotTyped, SlotType
<1>5. VictimNotCancelled'
  BY <1>0, Actors DEF LoopInv, VictimNotCancelled, OthersDoNotStart
<1>6. SlotHoldsRunningTask'
  BY <1>0, Actors
  DEF LoopInv, SlotHoldsRunningTask, LoopOwnsSlot, OthersDoNotStart, Running,
      RunPoint, Aborting, AbortPoint, StartPoint, TypeInv, LoopKnows,
      SlotTyped, SlotType
<1>7. EndsOnce'
  BY <1>0, Actors
  DEF LoopInv, EndsOnce, Ends, Aborting, AbortPoint, LoopOwnsSlot,
      SlotHoldsRunningTask, OthersDoNotStart, Over, Running, RunPoint, TypeInv
<1> QED
  BY <1>1, <1>2, <1>3, <1>4, <1>5, <1>6, <1>7 DEF LoopInv

(* start_task takes the pending input of the slot.                         *)
LEMMA StartTakeSlot ==
  ASSUME LoopStartsAlone, TypeInv, LoopInv, NEW a \in Actor, StartTake(a)
  PROVE  LoopInv'
<1>0. /\ a = Loop /\ pc[Loop] = "start:take" /\ pc'[Loop] = "start:attach"
      /\ pc'[Ext] = pc[Ext] /\ \A u \in Turn : pc'[u] = pc[u]
      /\ call'[Loop].turn = call[Loop].turn /\ call'[Loop].ret = call[Loop].ret
      /\ \A u \in Turn : call'[u] = call[u]
      /\ slot'.task = slot.task /\ UNCHANGED <<abort, task, sent>>
  BY Actors
  DEF StartTake, Goto, LoopInv, OthersDoNotStart, Over, RunPoint, TypeInv,
      PcTyped, CallTyped, CallType, SlotTyped, SlotType, Actor
<1>1. StartsOnly'
  BY DEF LoopInv, StartTake, StartsOnly
<1>2. OthersDoNotStart'
  BY <1>0 DEF LoopInv, OthersDoNotStart, StartPoint, AbortPoint
<1>3. NextTurnWaits'
  BY <1>0, Actors
  DEF LoopInv, NextTurnWaits, Replacing, StartPoint, AbortPoint, TypeInv,
      LoopKnows, StartKnows
<1>4. LoopOwnsSlot'
  BY <1>0 DEF LoopInv, LoopOwnsSlot, AbortPoint, StartPoint
<1>5. VictimNotCancelled'
  BY <1>0 DEF LoopInv, VictimNotCancelled
<1>6. SlotHoldsRunningTask'
  BY <1>0 DEF LoopInv, SlotHoldsRunningTask, Running, Aborting, AbortPoint
<1>7. EndsOnce'
  BY <1>0 DEF LoopInv, EndsOnce, Ends, Aborting, AbortPoint
<1> QED
  BY <1>1, <1>2, <1>3, <1>4, <1>5, <1>6, <1>7 DEF LoopInv

(* start_task attaches it to an empty slot.                                *)
LEMMA StartAttachSlot ==
  ASSUME LoopStartsAlone, TypeInv, LoopInv, NEW a \in Actor, StartAttach(a)
  PROVE  LoopInv'
<1>0. /\ a = Loop /\ pc[Loop] = "start:attach" /\ pc'[Loop] = "start:install"
      /\ pc'[Ext] = pc[Ext] /\ \A u \in Turn : pc'[u] = pc[u]
      /\ call'[Loop].turn = call[Loop].turn /\ call'[Loop].ret = call[Loop].ret
      /\ \A u \in Turn : call'[u] = call[u]
      /\ slot'.task = slot.task /\ UNCHANGED <<abort, task, sent>>
  BY Actors
  DEF StartAttach, Goto, LoopInv, OthersDoNotStart, Over, RunPoint, TypeInv,
      PcTyped, CallTyped, CallType, SlotTyped, SlotType, Actor
<1>1. StartsOnly'
  BY DEF LoopInv, StartAttach, StartsOnly
<1>2. OthersDoNotStart'
  BY <1>0 DEF LoopInv, OthersDoNotStart, StartPoint, AbortPoint
<1>3. NextTurnWaits'
  BY <1>0, Actors
  DEF LoopInv, NextTurnWaits, Replacing, StartPoint, AbortPoint, TypeInv,
      LoopKnows, StartKnows
<1>4. LoopOwnsSlot'
  BY <1>0 DEF LoopInv, LoopOwnsSlot, AbortPoint, StartPoint
<1>5. VictimNotCancelled'
  BY <1>0 DEF LoopInv, VictimNotCancelled
<1>6. SlotHoldsRunningTask'
  BY <1>0 DEF LoopInv, SlotHoldsRunningTask, Running, Aborting, AbortPoint
<1>7. EndsOnce'
  BY <1>0 DEF LoopInv, EndsOnce, Ends, Aborting, AbortPoint
<1> QED
  BY <1>1, <1>2, <1>3, <1>4, <1>5, <1>6, <1>7 DEF LoopInv

(* start_task installs its task in the slot, which is empty.               *)
LEMMA StartInstallSlot ==
  ASSUME LoopStartsAlone, TypeInv, LoopInv, NEW a \in Actor, StartInstall(a)
  PROVE  LoopInv'
<1> DEFINE t == call[Loop].turn
<1>0. /\ a = Loop /\ pc[Loop] = "start:install" /\ t \in Turn /\ pc[t] = "queued"
      /\ ~task[t].cancelled /\ slot.task = NoTurn /\ call[Loop].ret = "idle"
  BY DEF StartInstall, LoopInv, OthersDoNotStart, NextTurnWaits, LoopOwnsSlot,
         TypeInv, StartKnows, StartPoint, Actor, Over, RunPoint
<1>a. /\ pc'[Loop] = "idle" /\ pc'[t] = "begin" /\ pc'[Ext] = pc[Ext]
      /\ \A u \in Turn \ {t} : pc'[u] = pc[u]
  BY <1>0, Actors DEF StartInstall, TypeInv, PcTyped
<1>b. /\ slot'.task = t /\ call'[Loop].ret = "idle"
      /\ \A u \in Turn : call'[u] = call[u]
      /\ UNCHANGED <<task, sent, abort>>
  <2>1. slot'.task = t
    BY <1>0 DEF StartInstall
  <2>2. call' = [call EXCEPT ![Loop].turn = NoTurn] /\ UNCHANGED <<task, sent, abort>>
    BY <1>0 DEF StartInstall
  <2>3. call'[Loop].ret = "idle" /\ \A u \in Turn : call'[u] = call[u]
    BY <1>0, <2>2, Actors DEF TypeInv, CallTyped, CallType
  <2> QED
    BY <2>1, <2>2, <2>3
<1>c. \A u \in Turn : ~Aborting(u) /\ ~Aborting(u)'
  BY <1>0, <1>a DEF Aborting, AbortPoint
<1>1. StartsOnly'
  BY DEF LoopInv, StartInstall, StartsOnly
<1>2. OthersDoNotStart'
  BY <1>0, <1>a, <1>b DEF LoopInv, OthersDoNotStart, RunPoint
<1>3. NextTurnWaits'
  BY <1>a, <1>b DEF LoopInv, NextTurnWaits, Replacing, StartPoint, AbortPoint
<1>4. LoopOwnsSlot'
  BY <1>a DEF LoopOwnsSlot, StartPoint, AbortPoint
<1>5. SlotHoldsRunningTask'
  BY <1>0, <1>a, <1>b, <1>c, Actors
  DEF LoopInv, SlotHoldsRunningTask, Running, RunPoint
<1>6. EndsOnce'
  BY <1>0, <1>a, <1>b, <1>c DEF LoopInv, EndsOnce, Ends, Over
<1>7. VictimNotCancelled'
  BY <1>a DEF VictimNotCancelled
<1> QED
  BY <1>1, <1>2, <1>3, <1>4, <1>5, <1>6, <1>7 DEF LoopInv

-----------------------------------------------------------------------------
(* A running task                                                          *)

(* The task begins to run.                                                 *)
LEMMA TaskBeginSlot ==
  ASSUME TypeInv, LoopInv, NEW t \in Turn, TaskBegin(t)
  PROVE  LoopInv'
<1>1. \A u \in Turn : task'[u].cancelled = task[u].cancelled
  BY DEF TaskBegin, TypeInv, TaskTyped, TaskType
<1>2. \A u \in Turn : Ends(u)' = Ends(u)
  BY DEF TaskBegin, Ends, Emit, TypeInv, SentTyped, EventName
<1> QED
  BY <1>1, <1>2, RunFrame DEF TaskBegin, RunPoint

(* A task other than a regular one does its work.                          *)
LEMMA TaskWorkSlot ==
  ASSUME TypeInv, LoopInv, NEW t \in Turn, TaskWork(t)
  PROVE  LoopInv'
<1>1. \A u \in Turn : task'[u].cancelled = task[u].cancelled
  BY DEF TaskWork, TypeInv, TaskTyped, TaskType
<1>2. \A u \in Turn : Ends(u)' = Ends(u)
  BY DEF TaskWork, Ends, Emit, TypeInv, SentTyped, EventName
<1> QED
  BY <1>1, <1>2, RunFrame DEF TaskWork, RunPoint

(* run_turn prepares the turn.                                             *)
LEMMA TaskPrepareSlot ==
  ASSUME TypeInv, LoopInv, NEW t \in Turn, TaskPrepare(t)
  PROVE  LoopInv'
<1>1. \A u \in Turn : task'[u].cancelled = task[u].cancelled
  BY DEF TaskPrepare, TypeInv, TaskTyped, TaskType
<1>2. \A u \in Turn : Ends(u)' = Ends(u)
  BY DEF TaskPrepare, Ends, Emit, TypeInv, SentTyped, EventName
<1>3. \E p \in {"after", "drain", "flush"} : Goto(t, p)
  BY DEF TaskPrepare, RecordInputs
<1>4. pc[t] \in RunPoint /\ UNCHANGED <<todo, slot, call, abort>>
  BY DEF TaskPrepare, RunPoint
<1> QED
  BY <1>1, <1>2, <1>3, <1>4, RunFrame DEF RunPoint

(* The preparation fails.                                                  *)
LEMMA TaskPrepareFailedSlot ==
  ASSUME TypeInv, LoopInv, NEW t \in Turn, TaskPrepareFailed(t)
  PROVE  LoopInv'
<1>1. \A u \in Turn : task'[u].cancelled = task[u].cancelled
  BY DEF TaskPrepareFailed, TypeInv, TaskTyped, TaskType
<1>2. \A u \in Turn : Ends(u)' = Ends(u)
  BY DEF TaskPrepareFailed, Ends, Emit, TypeInv, SentTyped, EventName
<1> QED
  BY <1>1, <1>2, RunFrame DEF TaskPrepareFailed, RunPoint

(* run_turn drains the pending input.                                      *)
LEMMA TaskDrainSlot ==
  ASSUME TypeInv, LoopInv, NEW t \in Turn, TaskDrain(t)
  PROVE  LoopInv'
<1>1. \A u \in Turn : task'[u].cancelled = task[u].cancelled
  BY DEF TaskDrain, TypeInv, TaskTyped, TaskType
<1>2. \A u \in Turn : Ends(u)' = Ends(u)
  BY DEF TaskDrain, Ends, Emit, TypeInv, SentTyped, EventName
<1> QED
  BY <1>1, <1>2, RunFrame DEF TaskDrain, RunPoint

(* The drained input is recorded.                                          *)
LEMMA TaskRecordSlot ==
  ASSUME TypeInv, LoopInv, NEW t \in Turn, TaskRecord(t)
  PROVE  LoopInv'
<1>1. \A u \in Turn : task'[u].cancelled = task[u].cancelled
  BY DEF TaskRecord, TypeInv, TaskTyped, TaskType
<1>2. \A u \in Turn : Ends(u)' = Ends(u)
  BY DEF TaskRecord, Ends, Emit, TypeInv, SentTyped, EventName
<1> QED
  BY <1>1, <1>2, RunFrame DEF TaskRecord, RecordInputs, RunPoint

(* The stream accepts or defers mailbox delivery.                          *)
LEMMA TaskStreamSlot ==
  ASSUME TypeInv, LoopInv, NEW t \in Turn, TaskStream(t)
  PROVE  LoopInv'
BY SlotFrame DEF TaskStream

(* The model asks for a follow-up.                                         *)
LEMMA TaskFollowUpSlot ==
  ASSUME TypeInv, LoopInv, NEW t \in Turn, TaskFollowUp(t)
  PROVE  LoopInv'
<1>1. \A u \in Turn : task'[u].cancelled = task[u].cancelled
  BY DEF TaskFollowUp, TypeInv, TaskTyped, TaskType
<1>2. \A u \in Turn : Ends(u)' = Ends(u)
  BY DEF TaskFollowUp, Ends, Emit, TypeInv, SentTyped, EventName
<1> QED
  BY <1>1, <1>2, RunFrame DEF TaskFollowUp, RunPoint

(* The model is done.                                                      *)
LEMMA TaskAnsweredSlot ==
  ASSUME TypeInv, LoopInv, NEW t \in Turn, TaskAnswered(t)
  PROVE  LoopInv'
<1>1. \A u \in Turn : task'[u].cancelled = task[u].cancelled
  BY DEF TaskAnswered, TypeInv, TaskTyped, TaskType
<1>2. \A u \in Turn : Ends(u)' = Ends(u)
  BY DEF TaskAnswered, Ends, Emit, TypeInv, SentTyped, EventName
<1> QED
  BY <1>1, <1>2, RunFrame DEF TaskAnswered, RunPoint

(* The request to the model fails.                                         *)
LEMMA TaskSampleFailedSlot ==
  ASSUME TypeInv, LoopInv, NEW t \in Turn, TaskSampleFailed(t)
  PROVE  LoopInv'
<1>1. \A u \in Turn : task'[u].cancelled = task[u].cancelled
  BY DEF TaskSampleFailed, TypeInv, TaskTyped, TaskType
<1>2. \A u \in Turn : Ends(u)' = Ends(u)
  BY DEF TaskSampleFailed, Ends, Emit, TypeInv, SentTyped, EventName
<1> QED
  BY <1>1, <1>2, RunFrame DEF TaskSampleFailed, RunPoint

(* Stop hooks let the turn end.                                            *)
LEMMA TaskStopSlot ==
  ASSUME TypeInv, LoopInv, NEW t \in Turn, TaskStop(t)
  PROVE  LoopInv'
<1>1. \A u \in Turn : task'[u].cancelled = task[u].cancelled
  BY DEF TaskStop, TypeInv, TaskTyped, TaskType
<1>2. \A u \in Turn : Ends(u)' = Ends(u)
  BY DEF TaskStop, Ends, Emit, TypeInv, SentTyped, EventName
<1> QED
  BY <1>1, <1>2, RunFrame DEF TaskStop, RunPoint

(* A stop hook makes the turn go on.                                       *)
LEMMA TaskStopBlockedSlot ==
  ASSUME TypeInv, LoopInv, NEW t \in Turn, TaskStopBlocked(t)
  PROVE  LoopInv'
<1>1. \A u \in Turn : task'[u].cancelled = task[u].cancelled
  BY DEF TaskStopBlocked, TypeInv, TaskTyped, TaskType
<1>2. \A u \in Turn : Ends(u)' = Ends(u)
  BY DEF TaskStopBlocked, Ends, Emit, TypeInv, SentTyped, EventName
<1> QED
  BY <1>1, <1>2, RunFrame DEF TaskStopBlocked, RunPoint

(* RegularTask::run looks for more input.                                  *)
LEMMA TaskAfterTurnSlot ==
  ASSUME TypeInv, LoopInv, NEW t \in Turn, TaskAfterTurn(t)
  PROVE  LoopInv'
<1>1. \A u \in Turn : task'[u].cancelled = task[u].cancelled
  BY DEF TaskAfterTurn, TypeInv, TaskTyped, TaskType
<1>2. \A u \in Turn : Ends(u)' = Ends(u)
  BY DEF TaskAfterTurn, Ends, Emit, TypeInv, SentTyped, EventName
<1> QED
  BY <1>1, <1>2, RunFrame DEF TaskAfterTurn, RunPoint

(* A cancelled task ends without a word, another goes on to finish.        *)
LEMMA TaskCheckCancelledSlot ==
  ASSUME LoopStartsAlone, TypeInv, LoopInv, NEW t \in Turn,
         TaskCheckCancelled(t)
  PROVE  LoopInv'
<1>0. /\ pc[t] = "flush" /\ pc'[t] = IF task[t].cancelled THEN "done" ELSE "finish:take"
      /\ pc'[Loop] = pc[Loop] /\ pc'[Ext] = pc[Ext] /\ \A u \in Turn \ {t} : pc'[u] = pc[u]
      /\ UNCHANGED <<slot, call, abort, task, sent>>
  BY Actors DEF TaskCheckCancelled, Goto, TypeInv, PcTyped
<1>1. StartsOnly'
  BY DEF LoopInv, TaskCheckCancelled, StartsOnly
<1>2. OthersDoNotStart'
  BY <1>0 DEF LoopInv, OthersDoNotStart, RunPoint
<1>3. NextTurnWaits'
  BY <1>0, Actors
  DEF LoopInv, NextTurnWaits, Replacing, StartPoint, AbortPoint, TypeInv,
      LoopKnows, StartKnows
<1>4. LoopOwnsSlot'
  BY <1>0
  DEF LoopInv, LoopOwnsSlot, Running, RunPoint, AbortPoint, TypeInv, LoopKnows
<1>5. VictimNotCancelled'
  BY <1>0 DEF LoopInv, VictimNotCancelled
<1>6. SlotHoldsRunningTask'
  BY <1>0 DEF LoopInv, SlotHoldsRunningTask, Running, RunPoint, Aborting
<1>7. EndsOnce'
  BY <1>0, Actors
  DEF LoopInv, EndsOnce, Ends, Aborting, AbortPoint, LoopOwnsSlot,
      SlotHoldsRunningTask, OthersDoNotStart, Over, Running, RunPoint, TypeInv
<1> QED
  BY <1>1, <1>2, <1>3, <1>4, <1>5, <1>6, <1>7 DEF LoopInv

-----------------------------------------------------------------------------
(* on_task_finished                                                        *)

(* The finishing task takes itself out of the slot, unless the loop has:   *)
(* it is the slot's task or the one being aborted.                         *)
LEMMA FinishTakeSlot ==
  ASSUME LoopStartsAlone, TypeInv, LoopInv, NEW t \in Turn, FinishTake(t)
  PROVE  LoopInv'
<1>0. /\ pc[t] = "finish:take"
      /\ pc'[t] = IF slot.task = NoTurn THEN "done" ELSE "finish:record"
      /\ pc'[Loop] = pc[Loop] /\ pc'[Ext] = pc[Ext] /\ \A u \in Turn \ {t} : pc'[u] = pc[u]
      /\ slot'.task = NoTurn /\ UNCHANGED <<call, abort, sent>>
      /\ \A u \in Turn : task'[u].cancelled = task[u].cancelled
  BY Actors
  DEF FinishTake, Goto, TypeInv, PcTyped, TaskTyped, TaskType, SlotTyped,
      SlotType
<1>1. StartsOnly'
  BY DEF LoopInv, FinishTake, StartsOnly
<1>2. OthersDoNotStart'
  BY <1>0 DEF LoopInv, OthersDoNotStart
<1>3. NextTurnWaits'
  BY <1>0, Actors
  DEF LoopInv, NextTurnWaits, Replacing, StartPoint, AbortPoint, TypeInv,
      LoopKnows, StartKnows
<1>4. LoopOwnsSlot'
  BY <1>0
  DEF LoopInv, LoopOwnsSlot, Running, RunPoint, AbortPoint, TypeInv, LoopKnows
<1>5. VictimNotCancelled'
  BY <1>0 DEF LoopInv, VictimNotCancelled, TypeInv, LoopKnows, AbortPoint
<1>6. SlotHoldsRunningTask'
  BY <1>0, Actors
  DEF LoopInv, SlotHoldsRunningTask, LoopOwnsSlot, Running, RunPoint,
      Aborting, AbortPoint
<1>7. EndsOnce'
  BY <1>0, Actors
  DEF LoopInv, EndsOnce, Ends, Aborting, AbortPoint, LoopOwnsSlot,
      SlotHoldsRunningTask, OthersDoNotStart, Over, Running, RunPoint, TypeInv
<1> QED
  BY <1>1, <1>2, <1>3, <1>4, <1>5, <1>6, <1>7 DEF LoopInv

(* Input left over is recorded.                                            *)
LEMMA FinishRecordSlot ==
  ASSUME LoopStartsAlone, TypeInv, LoopInv, NEW t \in Turn, FinishRecord(t)
  PROVE  LoopInv'
<1>0. /\ pc[t] = "finish:record" /\ pc'[t] = "finish:event"
      /\ pc'[Loop] = pc[Loop] /\ pc'[Ext] = pc[Ext] /\ \A u \in Turn \ {t} : pc'[u] = pc[u]
      /\ UNCHANGED <<slot, call, abort, task, sent>>
  BY Actors DEF FinishRecord, Goto, TypeInv, PcTyped
<1>1. StartsOnly'
  BY DEF LoopInv, FinishRecord, StartsOnly
<1>2. OthersDoNotStart'
  BY <1>0 DEF LoopInv, OthersDoNotStart
<1>3. NextTurnWaits'
  BY <1>0, Actors
  DEF LoopInv, NextTurnWaits, Replacing, StartPoint, AbortPoint, TypeInv,
      LoopKnows, StartKnows
<1>4. LoopOwnsSlot'
  BY <1>0
  DEF LoopInv, LoopOwnsSlot, Running, RunPoint, AbortPoint, TypeInv, LoopKnows
<1>5. VictimNotCancelled'
  BY <1>0 DEF LoopInv, VictimNotCancelled
<1>6. SlotHoldsRunningTask'
  BY <1>0 DEF LoopInv, SlotHoldsRunningTask, Running, RunPoint, Aborting
<1>7. EndsOnce'
  BY <1>0 DEF LoopInv, EndsOnce, Ends, Aborting, Over
<1> QED
  BY <1>1, <1>2, <1>3, <1>4, <1>5, <1>6, <1>7 DEF LoopInv

(* The terminal event of the turn is sent, its first.                      *)
LEMMA FinishEventSlot ==
  ASSUME LoopStartsAlone, TypeInv, LoopInv, NEW t \in Turn, FinishEvent(t)
  PROVE  LoopInv'
<1>0. /\ pc[t] = "finish:event" /\ pc'[t] = "finish:clear"
      /\ pc'[Loop] = pc[Loop] /\ pc'[Ext] = pc[Ext] /\ \A u \in Turn \ {t} : pc'[u] = pc[u]
      /\ UNCHANGED <<slot, call, abort, task>>
  BY Actors DEF FinishEvent, Goto, TypeInv, PcTyped
<1>1. StartsOnly'
  BY DEF LoopInv, FinishEvent, StartsOnly
<1>2. OthersDoNotStart'
  BY <1>0 DEF LoopInv, OthersDoNotStart, Over
<1>3. NextTurnWaits'
  BY <1>0, Actors
  DEF LoopInv, NextTurnWaits, Replacing, StartPoint, AbortPoint, TypeInv,
      LoopKnows, StartKnows
<1>4. LoopOwnsSlot'
  BY <1>0
  DEF LoopInv, LoopOwnsSlot, Running, RunPoint, AbortPoint, TypeInv, LoopKnows
<1>5. VictimNotCancelled'
  BY <1>0 DEF LoopInv, VictimNotCancelled
<1>6. SlotHoldsRunningTask'
  BY <1>0 DEF LoopInv, SlotHoldsRunningTask, Running, RunPoint, Aborting
<1>7. EndsOnce'
  BY <1>0
  DEF LoopInv, EndsOnce, Ends, Aborting, Over, FinishEvent, Emit, SentTyped,
      EventName, TypeInv
<1> QED
  BY <1>1, <1>2, <1>3, <1>4, <1>5, <1>6, <1>7 DEF LoopInv

(* The slot is cleared if it is still the turn's.                          *)
LEMMA FinishClearSlot ==
  ASSUME LoopStartsAlone, TypeInv, LoopInv, NEW t \in Turn, FinishClear(t)
  PROVE  LoopInv'
<1>0. /\ pc[t] = "finish:clear" /\ pc'[t] \in {"finish:idle", "done"}
      /\ pc'[Loop] = pc[Loop] /\ pc'[Ext] = pc[Ext] /\ \A u \in Turn \ {t} : pc'[u] = pc[u]
      /\ slot'.task = slot.task /\ UNCHANGED <<call, abort, sent>>
      /\ \A u \in Turn \ {t} : task'[u] = task[u]
  BY Actors DEF FinishClear, Goto, TypeInv, PcTyped, TaskTyped, NoSlot
<1>1. StartsOnly'
  BY DEF LoopInv, FinishClear, StartsOnly
<1>2. OthersDoNotStart'
  BY <1>0 DEF LoopInv, OthersDoNotStart, Over
<1>3. NextTurnWaits'
  BY <1>0, Actors
  DEF LoopInv, NextTurnWaits, Replacing, StartPoint, AbortPoint, TypeInv,
      LoopKnows, StartKnows
<1>4. LoopOwnsSlot'
  BY <1>0
  DEF LoopInv, LoopOwnsSlot, Running, RunPoint, AbortPoint, TypeInv, LoopKnows
<1>5. VictimNotCancelled'
  BY <1>0
  DEF LoopInv, VictimNotCancelled, LoopOwnsSlot, Running, RunPoint, TypeInv,
      LoopKnows, AbortPoint
<1>6. SlotHoldsRunningTask'
  BY <1>0 DEF LoopInv, SlotHoldsRunningTask, Running, RunPoint, Aborting
<1>7. EndsOnce'
  BY <1>0, Actors
  DEF LoopInv, EndsOnce, Ends, Aborting, AbortPoint, LoopOwnsSlot, Over,
      Running, RunPoint
<1> QED
  BY <1>1, <1>2, <1>3, <1>4, <1>5, <1>6, <1>7 DEF LoopInv

(* The idle callback, here without an extension to start a turn.           *)
LEMMA FinishIdleSlot ==
  ASSUME LoopStartsAlone, TypeInv, LoopInv, NEW t \in Turn, FinishIdle(t)
  PROVE  LoopInv'
<1>0. /\ pc[t] = "finish:idle" /\ pc'[t] = "finish:wake"
      /\ pc'[Loop] = pc[Loop] /\ pc'[Ext] = pc[Ext] /\ \A u \in Turn \ {t} : pc'[u] = pc[u]
      /\ UNCHANGED <<todo, slot, call, abort, task, sent>>
  BY Actors DEF FinishIdle, Goto, LoopInv, StartsOnly, TypeInv, PcTyped
<1>1. StartsOnly'
  BY <1>0 DEF LoopInv, StartsOnly
<1>2. OthersDoNotStart'
  BY <1>0 DEF LoopInv, OthersDoNotStart, Over
<1>3. NextTurnWaits'
  BY <1>0, Actors
  DEF LoopInv, NextTurnWaits, Replacing, StartPoint, AbortPoint, TypeInv,
      LoopKnows, StartKnows
<1>4. LoopOwnsSlot'
  BY <1>0
  DEF LoopInv, LoopOwnsSlot, Running, RunPoint, AbortPoint, TypeInv, LoopKnows
<1>5. VictimNotCancelled'
  BY <1>0 DEF LoopInv, VictimNotCancelled
<1>6. SlotHoldsRunningTask'
  BY <1>0 DEF LoopInv, SlotHoldsRunningTask, Running, RunPoint, Aborting
<1>7. EndsOnce'
  BY <1>0 DEF LoopInv, EndsOnce, Ends, Aborting, Over
<1> QED
  BY <1>1, <1>2, <1>3, <1>4, <1>5, <1>6, <1>7 DEF LoopInv

(* The last look at pending work.                                          *)
LEMMA FinishWakeSlot ==
  ASSUME LoopStartsAlone, TypeInv, LoopInv, NEW t \in Turn, FinishWake(t)
  PROVE  LoopInv'
<1>0. /\ pc[t] = "finish:wake" /\ pc'[t] = "maybe:check" /\ call'[t].ret = "done"
      /\ pc'[Loop] = pc[Loop] /\ pc'[Ext] = pc[Ext] /\ \A u \in Turn \ {t} : pc'[u] = pc[u]
      /\ call'[Loop] = call[Loop] /\ \A u \in Turn \ {t} : call'[u] = call[u]
      /\ UNCHANGED <<slot, abort, task, sent>>
  BY Actors DEF FinishWake, Goto, TypeInv, PcTyped, CallTyped, CallType
<1>1. StartsOnly'
  BY DEF LoopInv, FinishWake, StartsOnly
<1>2. OthersDoNotStart'
  BY <1>0 DEF LoopInv, OthersDoNotStart, Over
<1>3. NextTurnWaits'
  BY <1>0, Actors
  DEF LoopInv, NextTurnWaits, Replacing, StartPoint, AbortPoint, TypeInv,
      LoopKnows, StartKnows
<1>4. LoopOwnsSlot'
  BY <1>0
  DEF LoopInv, LoopOwnsSlot, Running, RunPoint, AbortPoint, TypeInv, LoopKnows
<1>5. VictimNotCancelled'
  BY <1>0 DEF LoopInv, VictimNotCancelled
<1>6. SlotHoldsRunningTask'
  BY <1>0 DEF LoopInv, SlotHoldsRunningTask, Running, RunPoint, Aborting
<1>7. EndsOnce'
  BY <1>0 DEF LoopInv, EndsOnce, Ends, Aborting, Over
<1> QED
  BY <1>1, <1>2, <1>3, <1>4, <1>5, <1>6, <1>7 DEF LoopInv

-----------------------------------------------------------------------------
(* A message is staged, or an extension starts an idle turn: not in these  *)
(* sessions.                                                               *)
LEMMA NeverRequested ==
  ASSUME LoopInv, NEW o \in todo
  PROVE  ~LoopStage(o) /\ ~ExtIdleStart(o)
BY DEF LoopInv, StartsOnly, LoopStage, ExtIdleStart

(* Without trigger mail and idle starts nobody reserves the slot: these    *)
(* steps of maybe_start_turn_for_pending_work and try_start_turn_if_idle   *)
(* are never reached.                                                      *)
LEMMA NeverReserves ==
  ASSUME LoopInv, NEW a \in Actor
  PROVE  ~MaybeReserve(a) /\ ~TryCheck(a) /\ ~TryReserve(a) /\ ~TryRecheck(a)
         /\ ~TryRoute(a) /\ ~TryClaim(a) /\ ~TryExtend(a)
<1>1. pc[a] \notin {"maybe:reserve", "try:check", "try:reserve"} \cup TryPoint
  BY DEF LoopInv, OthersDoNotStart, Over, RunPoint, StartPoint, AbortPoint,
         TryPoint, Actor
<1> QED
  BY <1>1
  DEF MaybeReserve, TryCheck, TryReserve, TryRecheck, TryRoute, TryClaim,
      TryExtend, TryPoint

(* A session starts with an empty slot, no turn and nobody starting one.   *)
LEMMA SlotInit ==
  ASSUME LoopStartsAlone, Init
  PROVE  LoopInv
<1>0. /\ pc[Loop] = "idle" /\ pc[Ext] = "idle" /\ slot.task = NoTurn
      /\ \A t \in Turn : pc[t] = "unused"
  BY Actors DEF Init, NoSlot
<1>1. StartsOnly
  BY WorkloadAssumption DEF Init, LoopStartsAlone, StartsOnly
<1>2. OthersDoNotStart
  BY <1>0, Actors DEF Init, OthersDoNotStart
<1>3. NextTurnWaits
  BY <1>0 DEF NextTurnWaits, Replacing, StartPoint, AbortPoint
<1>4. LoopOwnsSlot
  BY <1>0 DEF LoopOwnsSlot, StartPoint, AbortPoint
<1>5. SlotHoldsRunningTask
  BY <1>0, Actors DEF SlotHoldsRunningTask, Running, RunPoint
<1>6. EndsOnce
  <2>1. sent = [t \in Turn |-> [e \in EventName |-> 0]]
    BY DEF Init
  <2>2. \A t \in Turn : Ends(t) = 0
    <3> SUFFICES ASSUME NEW t \in Turn
                 PROVE  Ends(t) = 0
      OBVIOUS
    <3>1. sent[t]["TurnComplete"] = 0 /\ sent[t]["TurnAborted"] = 0
      BY <2>1 DEF EventName
    <3> QED
      BY <3>1 DEF Ends
  <2> QED
    BY <1>0, <2>2 DEF EndsOnce, Over
<1>7. VictimNotCancelled
  BY <1>0 DEF VictimNotCancelled
<1> QED
  BY <1>1, <1>2, <1>3, <1>4, <1>5, <1>6, <1>7 DEF LoopInv

(* Every step of the session keeps LoopInv.                                *)
LEMMA SlotStep ==
  ASSUME LoopStartsAlone, TypeInv, LoopInv, [Next]_vars
  PROVE  LoopInv'
<1>1. CASE UNCHANGED vars
  BY <1>1, SlotFrame DEF vars
<1>2. ASSUME NEW o \in todo, Request(o)
      PROVE  LoopInv'
  BY <1>2, SteerSlot, CancelSteerSlot, InjectSlot, LoopUserInputSlot,
     LoopSpawnSlot, LoopMailSlot, LoopReleaseSlot, LoopStartPendingWorkSlot,
     LoopInterruptSlot, NeverRequested
  DEF Request
<1>3. ASSUME NEW a \in Actor, StartStep(a)
      PROVE  LoopInv'
  BY <1>3, MaybeCheckSlot, StartTakeSlot, StartAttachSlot, StartInstallSlot,
     NeverReserves
  DEF StartStep
<1>4. CASE LoopStep
  BY <1>4, <1>3, Actors, LoopRoutedSlot, AbortTakeSlot, AbortCancelSlot,
     AbortKillSlot, AbortEventSlot, AbortClearSlot
  DEF LoopStep
<1>5. ASSUME NEW t \in Turn, TaskStep(t)
      PROVE  LoopInv'
  <2>1. CASE RunStep(t)
    BY <2>1, TaskBeginSlot, TaskWorkSlot, TaskPrepareSlot,
       TaskPrepareFailedSlot, TaskDrainSlot, TaskRecordSlot, TaskStreamSlot,
       TaskFollowUpSlot, TaskAnsweredSlot, TaskSampleFailedSlot, TaskStopSlot,
       TaskStopBlockedSlot, TaskAfterTurnSlot, TaskCheckCancelledSlot
    DEF RunStep
  <2>2. CASE FinishStep(t)
    BY <2>2, FinishTakeSlot, FinishRecordSlot, FinishEventSlot,
       FinishClearSlot, FinishIdleSlot, FinishWakeSlot
    DEF FinishStep
  <2>3. CASE StartStep(t)
    BY <2>3, <1>3, Actors
  <2> QED
    BY <1>5, <2>1, <2>2, <2>3 DEF TaskStep
<1> QED
  BY <1>1, <1>2, <1>3, <1>4, <1>5, Actors DEF Next

(* LoopInv holds of every session in which the loop starts every turn,     *)
(* whatever requests are made, in whatever order, with any number of turns.*)
THEOREM LoopInvariance ==
  ASSUME LoopStartsAlone
  PROVE  Spec => []LoopInv
<1>1. Init => LoopInv
  BY SlotInit
<1>2. TypeInv /\ LoopInv /\ [Next]_vars => LoopInv'
  BY SlotStep
<1> QED
  BY <1>1, <1>2, TypeInvariance, PTL DEF Spec

(* A running task is always the slot's task or being aborted, and the      *)
(* slot's task always runs and is not cancelled: no interleaving of user   *)
(* turns, steers, interrupts, replacements and finishing tasks makes a     *)
(* task unreachable (abort_all_tasks, start_task, on_task_finished).       *)
THEOREM SlotHoldsTheRunningTask ==
  ASSUME LoopStartsAlone
  PROVE  Spec => []SlotHoldsRunningTask
<1>1. LoopInv => SlotHoldsRunningTask
  BY DEF LoopInv
<1> QED
  BY <1>1, LoopInvariance, PTL

(* Neither debug_assert!(turn.task.is_none()) of start_task fails when the *)
(* loop starts every turn.                                                 *)
THEOREM AssertsHoldForTheLoop ==
  ASSUME LoopStartsAlone
  PROVE  Spec => []DebugAssertsHold
<1>1. LoopInv => DebugAssertsHold
  BY DEF LoopInv, OthersDoNotStart, LoopOwnsSlot, DebugAssertsHold, Over,
         RunPoint, StartPoint, Actor
<1> QED
  BY <1>1, LoopInvariance, PTL

(* Every turn is reported over once: the finishing task and the aborting   *)
(* loop (on_task_finished, handle_task_abort) never both send the terminal *)
(* event, and never both leave it to the other.                            *)
THEOREM TurnsEndOnce ==
  ASSUME LoopStartsAlone
  PROVE  Spec => []OneTerminalEvent
<1>1. LoopInv => OneTerminalEvent
  <2> SUFFICES ASSUME LoopInv, NEW t \in Turn
               PROVE  /\ Ends(t) <= 1
                      /\ pc[t] \in {"done", "killed", "dropped"} /\ ~Aborting(t)
                           => Ends(t) = 1
    BY DEF OneTerminalEvent
  <2>2. Ends(t) \in {0, 1}
    BY DEF LoopInv, EndsOnce
  <2>3. pc[t] # "dropped"
    BY DEF LoopInv, OthersDoNotStart, Over, RunPoint
  <2>4. pc[t] \in {"done", "killed"} /\ ~Aborting(t) => Ends(t) = 1
    BY DEF LoopInv, EndsOnce
  <2> QED
    BY <2>2, <2>3, <2>4
<1> QED
  BY <1>1, LoopInvariance, PTL

(* No task runs once the loop has exited after Op::Shutdown                *)
(* (shutdown_session_runtime): the abort that shutdown makes waits for the *)
(* task, and nothing starts another.                                       *)
THEOREM ShutdownStopsTheTask ==
  ASSUME LoopStartsAlone
  PROVE  Spec => []NoTaskAfterShutdown
<1>1. LoopInv => NoTaskAfterShutdown
  BY Actors
  DEF LoopInv, LoopOwnsSlot, SlotHoldsRunningTask, NoTaskAfterShutdown,
      Aborting, AbortPoint
<1> QED
  BY <1>1, LoopInvariance, PTL
=============================================================================
