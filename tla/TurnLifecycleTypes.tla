------------------------ MODULE TurnLifecycleTypes ------------------------
(***************************************************************************)
(* Type correctness of TurnLifecycle, proved for every set of turns and of *)
(* requests.  TypeOK alone is not inductive: an action that starts, aborts *)
(* or finishes a turn uses an id it read in an earlier step, so the        *)
(* invariant adds that the loop knows, at each of its control points, the  *)
(* turn it is about to start and the one it is aborting.                   *)
(***************************************************************************)
EXTENDS TurnLifecycle, TLAPS

(* The conjuncts of TypeOK by variable; each leaf below opens only those   *)
(* it needs.                                                               *)
TodoTyped   == todo \subseteq [op : OpName, item : Item]
SlotTyped   == slot \in SlotType /\ (slot # NoSlot => slot.ts \in TurnStateId)
QueuesTyped == /\ turnState \in [TurnStateId -> QueueType]
               /\ mailbox \in SUBSET Item
               /\ staged \in SUBSET Item
PcTyped     == pc \in [Actor -> Control]
CallTyped   == call \in [Actor -> CallType]
AbortTyped  == abort \in AbortType
TaskTyped   == task \in [Turn -> TaskType]
SentTyped   == sent \in [Turn -> [EventName -> Nat]]
ItemsTyped  == /\ accepted \subseteq Item \X (Turn \cup {NoTurn})
               /\ recorded \subseteq Item \X (Turn \cup {NoTurn})
               /\ discarded \in SUBSET Item

StartKnows ==
    \A a \in Actor : pc[a] \in StartPoint \cup TryPoint => call[a].turn \in Turn
FinishKnows ==
    \A t \in Turn : pc[t] \in FinishPoint => task[t].ts \in TurnStateId
LoopKnows ==
    /\ pc[Loop] = "route" => call[Loop].turn \in Turn
    /\ pc[Loop] \in {"abort:take"} \cup AbortPoint /\ abort.reason = "Replaced"
         => call[Loop].turn \in Turn
    /\ pc[Loop] \in AbortPoint =>
         abort.victim \in Turn /\ abort.ts \in TurnStateId

TypeInv ==
    /\ TodoTyped /\ SlotTyped /\ QueuesTyped /\ PcTyped /\ CallTyped
    /\ AbortTyped /\ TaskTyped /\ SentTyped /\ ItemsTyped
    /\ StartKnows /\ FinishKnows /\ LoopKnows

-----------------------------------------------------------------------------
(* Turn ids, the loop, the external starter and None are all different.    *)
LEMMA Actors ==
  /\ Turn \subseteq Actor /\ Loop \in Actor /\ Ext \in Actor
  /\ Loop \notin Turn /\ Ext \notin Turn /\ Loop # Ext
  /\ NoTurn \notin Actor /\ NoTurnState \notin TurnStateId
BY TurnAssumption DEF Actor, Loop, Ext, NoTurn, TurnStateId, NoTurnState

(* The fields of a task record.                                            *)
LEMMA TaskFields ==
  ASSUME NEW x \in TaskType
  PROVE /\ x.kind \in TaskKind /\ x.items \in SUBSET Item
        /\ x.ts \in TurnStateId \cup {NoTurnState}
BY DEF TaskType

(* An updated task record is a task record.                                *)
LEMMA TaskUpdates ==
  ASSUME NEW x \in TaskType
  PROVE /\ \A v \in SUBSET Item : [x EXCEPT !.items = v] \in TaskType
        /\ \A v \in BOOLEAN : [x EXCEPT !.cancelled = v] \in TaskType
        /\ \A v \in BOOLEAN : [x EXCEPT !.canDrain = v] \in TaskType
        /\ \A v \in {"Ok", "TurnAborted"} : [x EXCEPT !.result = v] \in TaskType
        /\ \A v \in TurnStateId \cup {NoTurnState} :
             [x EXCEPT !.ts = v] \in TaskType
BY DEF TaskType

(* So is a new one.                                                        *)
LEMMA NewTaskType ==
  ASSUME NEW k \in TaskKind, NEW v \in SUBSET Item
  PROVE NewTask(k, v) \in TaskType
BY DEF TaskType, NewTask

(* The fields of a call record.                                            *)
LEMMA CallFields ==
  ASSUME NEW x \in CallType
  PROVE /\ x.ret \in {"idle", "exited", "finish:wake", "done"}
        /\ x.items \in SUBSET Item /\ x.turn \in Turn \cup {NoTurn}
BY DEF CallType

(* An updated call record is a call record.                                *)
LEMMA CallUpdates ==
  ASSUME NEW x \in CallType
  PROVE /\ \A v \in SUBSET Item : [x EXCEPT !.items = v] \in CallType
        /\ \A v \in Turn \cup {NoTurn} : [x EXCEPT !.turn = v] \in CallType
        /\ \A v \in {"idle", "exited", "finish:wake", "done"} :
             [x EXCEPT !.ret = v] \in CallType
BY DEF CallType

(* The pending input of a TurnState.                                       *)
LEMMA QueueFields ==
  ASSUME NEW x \in QueueType
  PROVE x.pending \in SUBSET Item
BY DEF QueueType

(* An updated TurnState is a TurnState.                                    *)
LEMMA QueueUpdates ==
  ASSUME NEW x \in QueueType
  PROVE /\ \A v \in SUBSET Item : [x EXCEPT !.pending = v] \in QueueType
        /\ \A v \in {"CurrentTurn", "NextTurn"} :
             [x EXCEPT !.phase = v] \in QueueType
BY DEF QueueType

(* So is a new one.                                                        *)
LEMMA NewTurnStateType == NewTurnState \in QueueType
BY DEF QueueType, NewTurnState

(* The fields of the slot; None holds no task.                             *)
LEMMA SlotFields ==
  ASSUME slot \in SlotType, slot # NoSlot => slot.ts \in TurnStateId
  PROVE /\ slot.task \in Turn \cup {NoTurn}
        /\ slot.ts \in TurnStateId \cup {NoTurnState}
        /\ slot.task # NoTurn => slot # NoSlot
BY DEF SlotType, NoSlot

(* The kinds of items are items.                                           *)
LEMMA ItemSets ==
  UserItem \subseteq Item /\ TriggerMail \subseteq Item /\ QueueMail \subseteq Item
BY DEF UserItem, TriggerMail, QueueMail, ItemsOf, Item

(* The empty slot, a reserved one, and one whose task was taken.           *)
LEMMA NewSlots ==
  /\ NoSlot \in SlotType
  /\ \A ts \in TurnStateId : [NoSlot EXCEPT !.ts = ts] \in SlotType
  /\ \A ts \in TurnStateId : [NoSlot EXCEPT !.ts = ts].ts = ts
  /\ \A x \in SlotType : \A ts \in TurnStateId :
       [x EXCEPT !.ts = ts] \in SlotType /\ [x EXCEPT !.ts = ts].ts = ts
  /\ \A x \in SlotType :
       [x EXCEPT !.task = NoTurn] \in SlotType /\ [x EXCEPT !.task = NoTurn].ts = x.ts
BY DEF SlotType, NoSlot

(* The names of the TurnStates created for a turn.                         *)
LEMMA TurnStateIds ==
  \A t \in Turn : \A w \in {"reserve", "attach", "install"} : <<t, w>> \in TurnStateId
BY DEF TurnStateId

(* Nothing, as a set of items, a TurnState and a turn.                     *)
LEMMA NoItems ==
  {} \in SUBSET Item /\ NoTurnState \in TurnStateId \cup {NoTurnState}
  /\ NoTurn \in Turn \cup {NoTurn}
OBVIOUS

-----------------------------------------------------------------------------
(* The helpers shared by several actions keep their variables typed.       *)
(* A request has a name and an item.                                       *)
LEMMA TodoItems ==
  ASSUME TodoTyped, NEW o \in todo
  PROVE o.op \in OpName /\ o.item \in Item
BY DEF TodoTyped

(* Steers and injections.                                                  *)
LEMMA AddToSlotTyped ==
  ASSUME QueuesTyped, SlotTyped, slot # NoSlot, NEW i \in Item, NEW u,
         AddToSlot(i, u)
  PROVE QueuesTyped'
<1> DEFINE q == [turnState[slot.ts] EXCEPT !.pending = @ \cup {i}]
           r == [q EXCEPT !.phase = "CurrentTurn"]
<1>1. slot.ts \in TurnStateId
  BY DEF SlotTyped
<1>2. q \in QueueType
  BY <1>1, QueueFields, QueueUpdates DEF QueuesTyped
<1>3. r \in QueueType
  BY <1>2, QueueUpdates
<1>4. turnState' = [turnState EXCEPT ![slot.ts] = r]
  BY <1>1 DEF AddToSlot, QueuesTyped
<1> QED
  BY <1>1, <1>3, <1>4 DEF AddToSlot, QueuesTyped

(* get_pending_input.                                                      *)
LEMMA DrainTyped ==
  ASSUME QueuesTyped, SlotTyped, DrainPendingInput
  PROVE PendingInput \in SUBSET Item /\ QueuesTyped'
<1>1. slot # NoSlot => slot.ts \in TurnStateId
  BY DEF SlotTyped
<1>2. PendingInput \in SUBSET Item
  BY <1>1, QueueFields DEF QueuesTyped, PendingInput, SlotPending
<1>3. slot # NoSlot => [turnState[slot.ts] EXCEPT !.pending = {}] \in QueueType
  BY <1>1, QueueUpdates, NoItems DEF QueuesTyped
<1>4. turnState' \in [TurnStateId -> QueueType]
  <2>1. CASE turnState' = turnState
    BY <2>1 DEF QueuesTyped
  <2>2. CASE slot # NoSlot /\ turnState' = [turnState EXCEPT ![slot.ts].pending = {}]
    BY <1>1, <1>3, <2>2 DEF QueuesTyped
  <2> QED BY <2>1, <2>2 DEF DrainPendingInput
<1> QED
  BY <1>2, <1>4 DEF DrainPendingInput, QueuesTyped

(* Reopening and closing the mailbox.                                      *)
LEMMA MailboxTyped ==
  ASSUME QueuesTyped, NEW t, AcceptMailbox(t) \/ DeferMailbox(t)
  PROVE turnState' \in [TurnStateId -> QueueType]
<1>1. \A p \in {"CurrentTurn", "NextTurn"}, ts \in TurnStateId :
        [turnState[ts] EXCEPT !.phase = p] \in QueueType
  BY QueueUpdates DEF QueuesTyped
<1>2. CASE turnState' = turnState
  BY <1>2 DEF QueuesTyped
<1>3. CASE \E p \in {"CurrentTurn", "NextTurn"} :
             turnState' = [turnState EXCEPT ![slot.ts].phase = p]
  <2>1. CASE slot.ts \in TurnStateId
    BY <1>1, <1>3, <2>1 DEF QueuesTyped
  <2>2. CASE slot.ts \notin TurnStateId
    BY <1>3, <2>2 DEF QueuesTyped
  <2> QED BY <2>1, <2>2
<1> QED
  BY <1>2, <1>3 DEF AcceptMailbox, DeferMailbox

(* A subroutine that drops the items it holds.                             *)
LEMMA CallDropTyped ==
  ASSUME CallTyped, NEW a \in Actor, call' = [call EXCEPT ![a].items = {}]
  PROVE CallTyped'
BY CallUpdates DEF CallTyped

(* A new turn context.                                                     *)
LEMMA NewTurnTyped ==
  ASSUME CallTyped, TaskTyped, PcTyped, NEW a \in Actor, NEW t \in Turn,
         NEW kind \in TaskKind, NEW input \in SUBSET Item, NEW p \in Control,
         NewTurn(a, t, kind, input, p)
  PROVE CallTyped' /\ TaskTyped' /\ PcTyped'
<1>1. PcTyped'
  BY DEF NewTurn, PcTyped, Control
<1>2. [call[a] EXCEPT !.turn = t] \in CallType
  BY CallUpdates DEF CallTyped
<1>3. CallTyped'
  BY <1>2 DEF NewTurn, CallTyped
<1>4. TaskTyped'
  BY NewTaskType DEF NewTurn, TaskTyped
<1> QED BY <1>1, <1>3, <1>4

(* clear_reserved_idle_turn.                                               *)
LEMMA GiveUpTyped ==
  ASSUME SlotTyped, CallTyped, PcTyped, NEW a \in Actor, NEW p \in Control,
         GiveUpReservation(a, p)
  PROVE SlotTyped' /\ CallTyped' /\ PcTyped'
<1>1. SlotTyped'
  BY NewSlots DEF GiveUpReservation, SlotTyped
<1>2. PcTyped'
  BY DEF GiveUpReservation, PcTyped, Control
<1>3. [call[a] EXCEPT !.turn = NoTurn] \in CallType
  BY CallUpdates DEF CallTyped
<1>4. [[call[a] EXCEPT !.turn = NoTurn] EXCEPT !.items = {}] \in CallType
  BY <1>3, CallUpdates
<1>5. CallTyped'
  BY <1>4 DEF GiveUpReservation, CallTyped
<1> QED BY <1>1, <1>2, <1>5

(* A reserved slot.                                                        *)
LEMMA ReserveTyped ==
  ASSUME NEW t \in Turn, slot' = [NoSlot EXCEPT !.ts = <<t, "reserve">>]
  PROVE SlotTyped'
BY NewSlots, TurnStateIds DEF SlotTyped

(* A task that moves on.                                                   *)
LEMMA TaskGotoTyped ==
  ASSUME TypeInv, NEW t \in Turn, UNCHANGED <<call, abort>>,
         NEW p \in RunPoint \cup FinishPoint \cup {"done", "finish:idle"}, Goto(t, p)
  PROVE  PcTyped' /\ StartKnows' /\ LoopKnows'
<1>1. p \in Control \ (StartPoint \cup TryPoint)
  BY DEF Control, RunPoint, FinishPoint, StartPoint, TryPoint
<1>2. PcTyped' /\ pc'[Loop] = pc[Loop]
      /\ \A a \in Actor : pc'[a] = pc[a] \/ pc'[a] = p
  BY <1>1, Actors DEF TypeInv, Goto, PcTyped
<1> QED
  BY <1>1, <1>2 DEF TypeInv, StartKnows, LoopKnows

-----------------------------------------------------------------------------
(* The initial state, and one lemma per action: under it one step for each *)
(* part of TypeInv the action can disturb.                                 *)
(* TypeInv holds initially.                                               *)
LEMMA TypeInit == Init => TypeInv
<1> SUFFICES ASSUME Init PROVE TypeInv
  OBVIOUS
<1> USE DEF Init, NoSlot, NewTurnState, NewTask
<1>1. todo \subseteq [op : OpName, item : Item]
  BY OpAssumption, WorkloadAssumption DEF Item
<1>2. slot \in SlotType /\ (slot # NoSlot => slot.ts \in TurnStateId)
  BY DEF SlotType
<1>3. turnState \in [TurnStateId -> QueueType]
  BY DEF QueueType
<1>4. pc \in [Actor -> Control]
  BY DEF Control
<1>5. call \in [Actor -> CallType] /\ abort \in AbortType
  BY DEF CallType, AbortType
<1>6. task \in [Turn -> TaskType]
  BY DEF TaskType, TaskKind
<1>7. sent \in [Turn -> [EventName -> Nat]]
  OBVIOUS
<1>8. \A a \in Actor : pc[a] \in {"unused", "idle"}
  OBVIOUS
<1> QED
  BY <1>1, <1>2, <1>3, <1>4, <1>5, <1>6, <1>7, <1>8, Actors
  DEF TypeInv, TodoTyped, SlotTyped, QueuesTyped, PcTyped, CallTyped,
      AbortTyped, TaskTyped, SentTyped, ItemsTyped, StartKnows, FinishKnows,
      LoopKnows, StartPoint, TryPoint, FinishPoint, AbortPoint

(* Steer keeps TypeInv.                                                    *)
LEMMA SteerTypes ==
  ASSUME TypeInv, NEW o \in todo, Steer(o)
  PROVE  TypeInv'
<1>1. TodoTyped'
  BY DEF TypeInv, TodoTyped, Steer, Take
<1>2. QueuesTyped'
  <2>1. CASE UNCHANGED <<turnState, mailbox, staged>>
    BY <2>1 DEF TypeInv, QueuesTyped
  <2>2. CASE \E u : slot # NoSlot /\ AddToSlot(o.item, u)
    BY <2>2, AddToSlotTyped, TodoItems DEF TypeInv
  <2> QED
    BY <2>1, <2>2, SlotFields
    DEF Steer, Steerable, SteerTarget, TypeInv, SlotTyped, queueVars
<1>3. ItemsTyped'
  BY Actors, SlotFields, TaskFields, CallFields, QueueFields
  DEF TypeInv, ItemsTyped, Steer, AddToSlot, TodoTyped, SlotTyped,
      AbortPoint, FinishPoint, StartPoint, TryPoint
<1> QED
  BY <1>1, <1>2, <1>3
  DEF TypeInv, SlotTyped, PcTyped, CallTyped, AbortTyped, TaskTyped,
      SentTyped, StartKnows, FinishKnows, LoopKnows, Steer, AddToSlot

(* CancelSteer keeps TypeInv.                                              *)
LEMMA CancelSteerTypes ==
  ASSUME TypeInv, NEW o \in todo, CancelSteer(o)
  PROVE  TypeInv'
<1>1. TodoTyped'
  BY DEF TypeInv, TodoTyped, CancelSteer, Take
<1>2. QueuesTyped'
  <2>1. \A ts \in TurnStateId :
          [turnState[ts] EXCEPT !.pending = @ \ {o.item}] \in QueueType
    BY QueueFields, QueueUpdates DEF TypeInv, QueuesTyped
  <2>2. CASE slot.task # NoTurn
    BY <2>1, <2>2, SlotFields DEF CancelSteer, TypeInv, SlotTyped, QueuesTyped
  <2>3. CASE slot.task = NoTurn
    BY <2>3 DEF CancelSteer, TypeInv, QueuesTyped
  <2> QED
    BY <2>2, <2>3
<1>3. ItemsTyped'
  BY DEF TypeInv, ItemsTyped, CancelSteer
<1> QED
  BY <1>1, <1>2, <1>3
  DEF TypeInv, SlotTyped, PcTyped, CallTyped, AbortTyped, TaskTyped,
      SentTyped, StartKnows, FinishKnows, LoopKnows, CancelSteer

(* Inject keeps TypeInv.                                                   *)
LEMMA InjectTypes ==
  ASSUME TypeInv, NEW o \in todo, Inject(o)
  PROVE  TypeInv'
<1>1. TodoTyped'
  BY DEF TypeInv, TodoTyped, Inject, Take
<1>2. QueuesTyped'
  <2>1. CASE UNCHANGED <<turnState, mailbox, staged>>
    BY <2>1 DEF TypeInv, QueuesTyped
  <2>2. CASE \E u : slot # NoSlot /\ AddToSlot(o.item, u)
    BY <2>2, AddToSlotTyped, TodoItems DEF TypeInv
  <2> QED
    BY <2>1, <2>2, SlotFields DEF Inject, TypeInv, SlotTyped, queueVars
<1>3. ItemsTyped'
  BY Actors, SlotFields, TaskFields, CallFields, QueueFields
  DEF TypeInv, ItemsTyped, Inject, AddToSlot, TodoTyped, SlotTyped,
      AbortPoint, FinishPoint, StartPoint, TryPoint
<1> QED
  BY <1>1, <1>2, <1>3
  DEF TypeInv, SlotTyped, PcTyped, CallTyped, AbortTyped, TaskTyped,
      SentTyped, StartKnows, FinishKnows, LoopKnows, Inject, AddToSlot

(* LoopUserInput keeps TypeInv.                                            *)
LEMMA LoopUserInputTypes ==
  ASSUME TypeInv, NEW o \in todo, LoopUserInput(o)
  PROVE  TypeInv'
<1>1. TodoTyped'
  BY DEF TypeInv, TodoTyped, LoopUserInput, Take
<1>2. QueuesTyped'
  <2>1. CASE UNCHANGED <<turnState, mailbox, staged>>
    BY <2>1 DEF TypeInv, QueuesTyped
  <2>2. CASE \E u : slot # NoSlot /\ AddToSlot(o.item, u)
    BY <2>2, AddToSlotTyped, TodoItems DEF TypeInv
  <2> QED
    BY <2>1, <2>2, SlotFields
    DEF LoopUserInput, Steerable, SteerTarget, TypeInv, SlotTyped, queueVars
<1>3. PcTyped'
  BY Actors
  DEF TypeInv, PcTyped, LoopUserInput, NewTurn, Control, RunPoint,
      StartPoint, TryPoint, FinishPoint, AbortPoint
<1>4. CallTyped'
  <2>1. CASE UNCHANGED call
    BY <2>1 DEF TypeInv, CallTyped
  <2>2. CASE \E t \in Turn, kind \in TaskKind, input \in SUBSET Item, p \in Control :
               NewTurn(Loop, t, kind, input, p)
    BY <2>2, NewTurnTyped, Actors DEF TypeInv
  <2>3. {o.item} \in SUBSET Item /\ "route" \in Control /\ "Regular" \in TaskKind
    BY TodoItems
    DEF TypeInv, Control, RunPoint, StartPoint, TryPoint, TaskKind
  <2> QED
    BY <2>1, <2>2, <2>3 DEF LoopUserInput
<1>5. TaskTyped'
  <2>1. CASE UNCHANGED task
    BY <2>1 DEF TypeInv, TaskTyped
  <2>2. CASE \E t \in Turn, kind \in TaskKind, input \in SUBSET Item, p \in Control :
               NewTurn(Loop, t, kind, input, p)
    BY <2>2, NewTurnTyped, Actors DEF TypeInv
  <2>3. {o.item} \in SUBSET Item /\ "route" \in Control /\ "Regular" \in TaskKind
    BY TodoItems
    DEF TypeInv, Control, RunPoint, StartPoint, TryPoint, TaskKind
  <2> QED
    BY <2>1, <2>2, <2>3 DEF LoopUserInput
<1>6. ItemsTyped'
  BY Actors, SlotFields, TaskFields, CallFields, QueueFields
  DEF TypeInv, ItemsTyped, LoopUserInput, AddToSlot, TodoTyped, SlotTyped,
      AbortPoint, FinishPoint, StartPoint, TryPoint
<1>7. StartKnows'
  BY Actors, CallFields
  DEF TypeInv, StartKnows, LoopUserInput, NewTurn, PcTyped, CallTyped,
      StartPoint, TryPoint, CallType, AbortPoint
<1>8. FinishKnows'
  BY Actors, TaskFields, SlotFields, CallFields
  DEF TypeInv, FinishKnows, LoopUserInput, NewTurn, PcTyped, TaskTyped,
      FinishPoint, TaskType
<1>9. LoopKnows'
  BY Actors, CallFields, SlotFields
  DEF TypeInv, LoopKnows, LoopUserInput, NewTurn, PcTyped, CallTyped,
      AbortPoint, CallType, AbortType
<1> QED
  BY <1>1, <1>2, <1>3, <1>4, <1>5, <1>6, <1>7, <1>8, <1>9
  DEF TypeInv, SlotTyped, AbortTyped, SentTyped, LoopUserInput, AddToSlot

(* LoopSpawn keeps TypeInv.                                                *)
LEMMA LoopSpawnTypes ==
  ASSUME TypeInv, NEW o \in todo, LoopSpawn(o)
  PROVE  TypeInv'
<1>1. TodoTyped'
  BY Actors DEF TypeInv, TodoTyped, LoopSpawn, Take, OpName, TaskKind
<1>2. PcTyped'
  BY Actors
  DEF TypeInv, PcTyped, LoopSpawn, Control, RunPoint, StartPoint, TryPoint,
      FinishPoint, AbortPoint
<1>3. CallTyped'
  <2>1. \A t \in Turn :
          [[call[Loop] EXCEPT !.turn = t] EXCEPT !.ret = "idle"] \in CallType
    BY CallUpdates, Actors DEF TypeInv, CallTyped
  <2>2. CASE UNCHANGED call
    BY <2>2 DEF TypeInv, CallTyped
  <2>3. CASE \E t \in Turn :
               call' = [call EXCEPT ![Loop].turn = t, ![Loop].ret = "idle"]
    BY <2>1, <2>3, Actors DEF TypeInv, CallTyped
  <2> QED
    BY <2>2, <2>3 DEF LoopSpawn
<1>4. AbortTyped'
  BY Actors DEF TypeInv, AbortTyped, LoopSpawn, AbortType
<1>5. TaskTyped'
  <2>1. \A k \in TaskKind, s \in SUBSET Item : NewTask(k, s) \in TaskType
    BY NewTaskType
  <2>2. o.op \in TaskKind \ {"Regular"}
    BY DEF LoopSpawn
  <2>3. CASE UNCHANGED task
    BY <2>3 DEF TypeInv, TaskTyped
  <2>4. CASE \E t \in Turn, s \in SUBSET Item : task' = [task EXCEPT ![t] = NewTask(o.op, s)]
    BY <2>1, <2>2, <2>4 DEF TypeInv, TaskTyped
  <2>5. (IF o.op = "Review" THEN {o.item} ELSE {}) \in SUBSET Item
    BY TodoItems DEF TypeInv
  <2> QED
    BY <2>3, <2>4, <2>5 DEF LoopSpawn
<1>6. StartKnows'
  <2>1. CASE UNCHANGED <<pc, call, abort>>
    BY <2>1 DEF TypeInv, StartKnows
  <2>2. CASE \E t \in Turn :
          /\ pc' = [pc EXCEPT ![t] = "queued", ![Loop] = "abort:take"]
          /\ call' = [call EXCEPT ![Loop].turn = t, ![Loop].ret = "idle"]
    BY <2>2, Actors
    DEF TypeInv, PcTyped, CallTyped, CallType, StartKnows, StartPoint,
        TryPoint, AbortPoint
  <2> QED
    BY <2>1, <2>2, Zenon DEF LoopSpawn
<1>7. FinishKnows'
  BY Actors, TaskFields, SlotFields, CallFields
  DEF TypeInv, FinishKnows, LoopSpawn, PcTyped, TaskTyped, FinishPoint,
      TaskType
<1>8. LoopKnows'
  <2>1. CASE UNCHANGED <<pc, call, abort>>
    BY <2>1 DEF TypeInv, LoopKnows
  <2>2. CASE \E t \in Turn :
          /\ pc' = [pc EXCEPT ![t] = "queued", ![Loop] = "abort:take"]
          /\ call' = [call EXCEPT ![Loop].turn = t, ![Loop].ret = "idle"]
    BY <2>2, Actors
    DEF TypeInv, PcTyped, CallTyped, CallType, LoopKnows, StartPoint,
        TryPoint, AbortPoint
  <2> QED
    BY <2>1, <2>2, Zenon DEF LoopSpawn
<1> QED
  BY <1>1, <1>2, <1>3, <1>4, <1>5, <1>6, <1>7, <1>8
  DEF TypeInv, SlotTyped, QueuesTyped, SentTyped, ItemsTyped, LoopSpawn,
      queueVars, itemVars

(* LoopMail keeps TypeInv.                                                 *)
LEMMA LoopMailTypes ==
  ASSUME TypeInv, NEW o \in todo, LoopMail(o)
  PROVE  TypeInv'
<1>1. TodoTyped'
  BY DEF TypeInv, TodoTyped, LoopMail, Take
<1>2. QueuesTyped'
  BY Actors, QueueFields, QueueUpdates, NewTurnStateType, SlotFields,
     CallFields, TaskFields, TurnStateIds
  DEF TypeInv, QueuesTyped, LoopMail, SlotTyped, TodoTyped, StartPoint,
      TryPoint, FinishPoint, AbortPoint
<1>3. PcTyped'
  BY Actors
  DEF TypeInv, PcTyped, LoopMail, Goto, Control, RunPoint, StartPoint,
      TryPoint, FinishPoint, AbortPoint
<1>4. CallTyped'
  BY Actors, CallUpdates, QueueFields, SlotFields, NoItems
  DEF TypeInv, CallTyped, LoopMail, TodoTyped, QueuesTyped
<1>5. ItemsTyped'
  BY Actors, SlotFields, TaskFields, CallFields, QueueFields
  DEF TypeInv, ItemsTyped, LoopMail, TodoTyped, SlotTyped, AbortPoint,
      FinishPoint, StartPoint, TryPoint
<1>6. StartKnows'
  BY Actors
  DEF TypeInv, StartKnows, LoopMail, Goto, StartPoint, TryPoint, CallType,
      AbortPoint
<1>7. FinishKnows'
  BY Actors DEF TypeInv, FinishKnows, LoopMail, Goto, FinishPoint, TaskType
<1>8. LoopKnows'
  BY Actors
  DEF TypeInv, LoopKnows, LoopMail, Goto, AbortPoint, CallType, AbortType
<1> QED
  BY <1>1, <1>2, <1>3, <1>4, <1>5, <1>6, <1>7, <1>8
  DEF TypeInv, SlotTyped, AbortTyped, TaskTyped, SentTyped, LoopMail

(* LoopStage keeps TypeInv.                                                *)
LEMMA LoopStageTypes ==
  ASSUME TypeInv, NEW o \in todo, LoopStage(o)
  PROVE  TypeInv'
<1>1. TodoTyped'
  BY DEF TypeInv, TodoTyped, LoopStage, Take
<1>2. QueuesTyped'
  BY Actors, QueueFields, QueueUpdates, NewTurnStateType, SlotFields,
     CallFields, TaskFields, TurnStateIds
  DEF TypeInv, QueuesTyped, LoopStage, SlotTyped, TodoTyped, StartPoint,
      TryPoint, FinishPoint, AbortPoint
<1>3. ItemsTyped'
  BY Actors, SlotFields, TaskFields, CallFields, QueueFields
  DEF TypeInv, ItemsTyped, LoopStage, TodoTyped, SlotTyped, AbortPoint,
      FinishPoint, StartPoint, TryPoint
<1> QED
  BY <1>1, <1>2, <1>3
  DEF TypeInv, SlotTyped, PcTyped, CallTyped, AbortTyped, TaskTyped,
      SentTyped, StartKnows, FinishKnows, LoopKnows, LoopStage

(* LoopRelease keeps TypeInv.                                              *)
LEMMA LoopReleaseTypes ==
  ASSUME TypeInv, NEW o \in todo, LoopRelease(o)
  PROVE  TypeInv'
<1>1. TodoTyped'
  BY DEF TypeInv, TodoTyped, LoopRelease, Take
<1>2. QueuesTyped'
  BY DEF TypeInv, QueuesTyped, LoopRelease
<1> QED
  BY <1>1, <1>2
  DEF TypeInv, SlotTyped, PcTyped, CallTyped, AbortTyped, TaskTyped,
      SentTyped, ItemsTyped, StartKnows, FinishKnows, LoopKnows, LoopRelease,
      itemVars

(* LoopStartPendingWork keeps TypeInv.                                     *)
LEMMA LoopStartPendingWorkTypes ==
  ASSUME TypeInv, NEW o \in todo, LoopStartPendingWork(o)
  PROVE  TypeInv'
<1>1. TodoTyped'
  BY DEF TypeInv, TodoTyped, LoopStartPendingWork, Take
<1>2. PcTyped'
  BY Actors
  DEF TypeInv, PcTyped, LoopStartPendingWork, Goto, Control, RunPoint,
      StartPoint, TryPoint, FinishPoint, AbortPoint
<1>3. CallTyped'
  BY Actors, CallUpdates, QueueFields, SlotFields, NoItems
  DEF TypeInv, CallTyped, LoopStartPendingWork, TodoTyped, QueuesTyped
<1>4. StartKnows'
  BY Actors
  DEF TypeInv, StartKnows, LoopStartPendingWork, Goto, StartPoint, TryPoint,
      CallType, AbortPoint
<1>5. FinishKnows'
  BY Actors
  DEF TypeInv, FinishKnows, LoopStartPendingWork, Goto, FinishPoint, TaskType
<1>6. LoopKnows'
  BY Actors
  DEF TypeInv, LoopKnows, LoopStartPendingWork, Goto, AbortPoint, CallType,
      AbortType
<1> QED
  BY <1>1, <1>2, <1>3, <1>4, <1>5, <1>6
  DEF TypeInv, SlotTyped, QueuesTyped, AbortTyped, TaskTyped, SentTyped,
      ItemsTyped, LoopStartPendingWork, queueVars, itemVars

(* LoopInterrupt keeps TypeInv.                                            *)
LEMMA LoopInterruptTypes ==
  ASSUME TypeInv, NEW o \in todo, LoopInterrupt(o)
  PROVE  TypeInv'
<1>1. TodoTyped'
  BY DEF TypeInv, TodoTyped, LoopInterrupt, Take
<1>2. PcTyped'
  BY Actors
  DEF TypeInv, PcTyped, LoopInterrupt, Goto, Control, RunPoint, StartPoint,
      TryPoint, FinishPoint, AbortPoint
<1>3. CallTyped'
  BY Actors, CallUpdates, QueueFields, SlotFields, NoItems
  DEF TypeInv, CallTyped, LoopInterrupt, TodoTyped, QueuesTyped
<1>4. AbortTyped'
  BY Actors DEF TypeInv, AbortTyped, LoopInterrupt, AbortType
<1>5. StartKnows'
  BY Actors
  DEF TypeInv, StartKnows, LoopInterrupt, Goto, StartPoint, TryPoint,
      CallType, AbortPoint
<1>6. FinishKnows'
  BY Actors
  DEF TypeInv, FinishKnows, LoopInterrupt, Goto, FinishPoint, TaskType
<1>7. LoopKnows'
  BY Actors
  DEF TypeInv, LoopKnows, LoopInterrupt, Goto, AbortPoint, CallType,
      AbortType
<1> QED
  BY <1>1, <1>2, <1>3, <1>4, <1>5, <1>6, <1>7
  DEF TypeInv, SlotTyped, QueuesTyped, TaskTyped, SentTyped, ItemsTyped,
      LoopInterrupt, queueVars, itemVars

(* ExtIdleStart keeps TypeInv.                                             *)
LEMMA ExtIdleStartTypes ==
  ASSUME TypeInv, NEW o \in todo, ExtIdleStart(o)
  PROVE  TypeInv'
<1>1. TodoTyped'
  BY DEF TypeInv, TodoTyped, ExtIdleStart, Take
<1>2. PcTyped'
  BY Actors
  DEF TypeInv, PcTyped, ExtIdleStart, Goto, Control, RunPoint, StartPoint,
      TryPoint, FinishPoint, AbortPoint
<1>3. CallTyped'
  BY Actors, CallUpdates, QueueFields, SlotFields, NoItems
  DEF TypeInv, CallTyped, ExtIdleStart, TodoTyped, QueuesTyped
<1>4. StartKnows'
  BY Actors
  DEF TypeInv, StartKnows, ExtIdleStart, Goto, StartPoint, TryPoint,
      CallType, AbortPoint
<1>5. FinishKnows'
  BY Actors
  DEF TypeInv, FinishKnows, ExtIdleStart, Goto, FinishPoint, TaskType
<1>6. LoopKnows'
  BY Actors
  DEF TypeInv, LoopKnows, ExtIdleStart, Goto, AbortPoint, CallType, AbortType
<1> QED
  BY <1>1, <1>2, <1>3, <1>4, <1>5, <1>6
  DEF TypeInv, SlotTyped, QueuesTyped, AbortTyped, TaskTyped, SentTyped,
      ItemsTyped, ExtIdleStart, queueVars, itemVars

(* LoopRouted keeps TypeInv.                                               *)
LEMMA LoopRoutedTypes ==
  ASSUME TypeInv, LoopRouted
  PROVE  TypeInv'
<1>1. PcTyped'
  BY Actors
  DEF TypeInv, PcTyped, LoopRouted, Goto, Control, RunPoint, StartPoint,
      TryPoint, FinishPoint, AbortPoint
<1>2. CallTyped'
  BY Actors, CallUpdates, QueueFields, SlotFields, NoItems
  DEF TypeInv, CallTyped, LoopRouted, TodoTyped, QueuesTyped
<1>3. AbortTyped'
  BY Actors DEF TypeInv, AbortTyped, LoopRouted, AbortType
<1>4. TaskTyped'
  <2>1. CASE UNCHANGED task
    BY <2>1 DEF TypeInv, TaskTyped
  <2>2. CASE task' = [task EXCEPT ![call[Loop].turn].items = {}]
    <3>1. call[Loop].turn \in Turn
      BY DEF LoopRouted, TypeInv, LoopKnows
    <3> QED
      BY <2>2, <3>1, TaskUpdates, NoItems DEF TypeInv, TaskTyped
  <2> QED
    BY <2>1, <2>2 DEF LoopRouted
<1>5. ItemsTyped'
  BY Actors, SlotFields, TaskFields, CallFields, QueueFields, TodoItems
  DEF TypeInv, ItemsTyped, LoopRouted, TodoTyped, SlotTyped, TaskTyped,
      CallTyped, QueuesTyped, LoopKnows, StartKnows, FinishKnows, AbortPoint,
      FinishPoint, StartPoint, TryPoint
<1>6. StartKnows'
  BY Actors, CallFields
  DEF TypeInv, StartKnows, LoopRouted, Goto, PcTyped, CallTyped, StartPoint,
      TryPoint, CallType, AbortPoint
<1>7. FinishKnows'
  BY Actors, TaskFields, SlotFields, CallFields
  DEF TypeInv, FinishKnows, LoopRouted, Goto, PcTyped, TaskTyped,
      FinishPoint, TaskType
<1>8. LoopKnows'
  BY Actors, CallFields, SlotFields
  DEF TypeInv, LoopKnows, LoopRouted, Goto, PcTyped, CallTyped, AbortPoint,
      CallType, AbortType
<1> QED
  BY <1>1, <1>2, <1>3, <1>4, <1>5, <1>6, <1>7, <1>8
  DEF TypeInv, TodoTyped, SlotTyped, QueuesTyped, SentTyped, LoopRouted,
      queueVars

(* AbortTake keeps TypeInv.                                                *)
LEMMA AbortTakeTypes ==
  ASSUME TypeInv, AbortTake
  PROVE  TypeInv'
<1>1. SlotTyped'
  BY Actors, SlotFields, NewSlots, TurnStateIds
  DEF TypeInv, SlotTyped, AbortTake, StartKnows, PcTyped, StartPoint,
      TryPoint
<1>2. PcTyped'
  BY Actors, CallFields
  DEF TypeInv, PcTyped, AbortTake, Goto, CallTyped, Control, RunPoint,
      StartPoint, TryPoint, FinishPoint, AbortPoint
<1>3. AbortTyped'
  BY Actors, SlotFields
  DEF TypeInv, AbortTyped, AbortTake, SlotTyped, AbortType
<1>4. StartKnows'
  BY Actors, CallFields, TodoItems
  DEF TypeInv, StartKnows, AbortTake, Goto, PcTyped, CallTyped, LoopKnows,
      StartPoint, TryPoint, CallType, AbortPoint
<1>5. FinishKnows'
  BY Actors DEF TypeInv, FinishKnows, AbortTake, Goto, FinishPoint, TaskType
<1>6. LoopKnows'
  BY Actors, CallFields, SlotFields, TodoItems
  DEF TypeInv, LoopKnows, AbortTake, Goto, PcTyped, CallTyped, AbortTyped,
      SlotTyped, AbortPoint, CallType, AbortType
<1> QED
  BY <1>1, <1>2, <1>3, <1>4, <1>5, <1>6
  DEF TypeInv, TodoTyped, QueuesTyped, CallTyped, TaskTyped, SentTyped,
      ItemsTyped, AbortTake, queueVars, itemVars

(* AbortCancel keeps TypeInv.                                              *)
LEMMA AbortCancelTypes ==
  ASSUME TypeInv, AbortCancel
  PROVE  TypeInv'
<1>0. /\ pc[Loop] = "abort:cancel" /\ pc'[Loop] \in {"abort:kill", "abort:clear"}
      /\ \A a \in Actor \ {Loop} : pc'[a] \in {pc[a], "dropped"}
      /\ pc' \in [Actor -> Control]
  BY Actors DEF TypeInv, PcTyped, AbortCancel, LoopKnows, Control, AbortPoint
<1>1. PcTyped'
  BY <1>0 DEF PcTyped
<1>2. TaskTyped'
  BY TaskUpdates DEF TypeInv, TaskTyped, AbortCancel
<1>3. StartKnows'
  BY <1>0 DEF TypeInv, StartKnows, AbortCancel, StartPoint, TryPoint
<1>4. FinishKnows'
  BY <1>0, Actors, TaskFields
  DEF TypeInv, FinishKnows, TaskTyped, AbortCancel, FinishPoint, TaskType
<1>5. LoopKnows'
  BY <1>0 DEF TypeInv, LoopKnows, AbortCancel, AbortPoint
<1> QED
  BY <1>1, <1>2, <1>3, <1>4, <1>5
  DEF TypeInv, TodoTyped, SlotTyped, QueuesTyped, CallTyped, AbortTyped,
      SentTyped, ItemsTyped, AbortCancel, queueVars, itemVars

(* AbortKill keeps TypeInv.                                                *)
LEMMA AbortKillTypes ==
  ASSUME TypeInv, AbortKill
  PROVE  TypeInv'
<1>1. PcTyped'
  BY Actors
  DEF TypeInv, PcTyped, AbortKill, Control, RunPoint, StartPoint, TryPoint,
      FinishPoint, AbortPoint
<1>2. TaskTyped'
  BY Actors, TaskUpdates, TaskFields, NewTaskType, QueueFields, SlotFields,
     NoItems
  DEF TypeInv, TaskTyped, AbortKill, TodoTyped, SlotTyped, TaskKind
<1>3. SentTyped'
  BY DEF TypeInv, SentTyped, AbortKill, Emit
<1>4. ItemsTyped'
  BY Actors, SlotFields, TaskFields, CallFields, QueueFields, TodoItems
  DEF TypeInv, ItemsTyped, AbortKill, TodoTyped, SlotTyped, TaskTyped,
      CallTyped, QueuesTyped, LoopKnows, StartKnows, FinishKnows, AbortPoint,
      FinishPoint, StartPoint, TryPoint, NewTask
<1>5. StartKnows'
  BY Actors, CallFields
  DEF TypeInv, StartKnows, AbortKill, PcTyped, CallTyped, StartPoint,
      TryPoint, CallType, AbortPoint
<1>6. FinishKnows'
  BY Actors, TaskFields, SlotFields, CallFields
  DEF TypeInv, FinishKnows, AbortKill, PcTyped, TaskTyped, FinishPoint,
      TaskType
<1>7. LoopKnows'
  BY Actors, CallFields, SlotFields
  DEF TypeInv, LoopKnows, AbortKill, PcTyped, CallTyped, AbortPoint,
      CallType, AbortType
<1> QED
  BY <1>1, <1>2, <1>3, <1>4, <1>5, <1>6, <1>7
  DEF TypeInv, TodoTyped, SlotTyped, QueuesTyped, CallTyped, AbortTyped,
      AbortKill, queueVars

(* AbortEvent keeps TypeInv.                                               *)
LEMMA AbortEventTypes ==
  ASSUME TypeInv, AbortEvent
  PROVE  TypeInv'
<1>1. PcTyped'
  BY Actors
  DEF TypeInv, PcTyped, AbortEvent, Goto, Control, RunPoint, StartPoint,
      TryPoint, FinishPoint, AbortPoint
<1>2. SentTyped'
  BY Actors, TaskFields
  DEF TypeInv, SentTyped, AbortEvent, Emit, TaskTyped, LoopKnows, EventName,
      AbortPoint
<1>3. StartKnows'
  BY Actors
  DEF TypeInv, StartKnows, AbortEvent, Goto, StartPoint, TryPoint, CallType,
      AbortPoint
<1>4. FinishKnows'
  BY Actors DEF TypeInv, FinishKnows, AbortEvent, Goto, FinishPoint, TaskType
<1>5. LoopKnows'
  BY Actors
  DEF TypeInv, LoopKnows, AbortEvent, Goto, AbortPoint, CallType, AbortType
<1> QED
  BY <1>1, <1>2, <1>3, <1>4, <1>5
  DEF TypeInv, TodoTyped, SlotTyped, QueuesTyped, CallTyped, AbortTyped,
      TaskTyped, ItemsTyped, AbortEvent, queueVars, itemVars

(* AbortClear keeps TypeInv.                                               *)
LEMMA AbortClearTypes ==
  ASSUME TypeInv, AbortClear
  PROVE  TypeInv'
<1>1. QueuesTyped'
  BY Actors, QueueFields, QueueUpdates, NewTurnStateType, SlotFields,
     CallFields, TaskFields, TurnStateIds
  DEF TypeInv, QueuesTyped, AbortClear, SlotTyped, TodoTyped, StartPoint,
      TryPoint, FinishPoint, AbortPoint
<1>2. PcTyped'
  BY Actors
  DEF TypeInv, PcTyped, AbortClear, Goto, Control, RunPoint, StartPoint,
      TryPoint, FinishPoint, AbortPoint
<1>3. AbortTyped'
  BY Actors DEF TypeInv, AbortTyped, AbortClear, AbortType
<1>4. ItemsTyped'
  BY Actors, SlotFields, TaskFields, CallFields, QueueFields, TodoItems
  DEF TypeInv, ItemsTyped, AbortClear, TodoTyped, SlotTyped, TaskTyped,
      CallTyped, QueuesTyped, LoopKnows, StartKnows, FinishKnows, AbortPoint,
      FinishPoint, StartPoint, TryPoint, NewTurnState
<1>5. StartKnows'
  BY Actors, CallFields, TodoItems
  DEF TypeInv, StartKnows, AbortClear, Goto, PcTyped, CallTyped, LoopKnows,
      StartPoint, TryPoint, CallType, AbortPoint, NewTurnState
<1>6. FinishKnows'
  BY Actors DEF TypeInv, FinishKnows, AbortClear, Goto, FinishPoint, TaskType
<1>7. LoopKnows'
  BY Actors, CallFields, SlotFields
  DEF TypeInv, LoopKnows, AbortClear, Goto, PcTyped, CallTyped, AbortPoint,
      CallType, AbortType
<1> QED
  BY <1>1, <1>2, <1>3, <1>4, <1>5, <1>6, <1>7
  DEF TypeInv, TodoTyped, SlotTyped, CallTyped, TaskTyped, SentTyped,
      AbortClear

(* MaybeCheck keeps TypeInv.                                               *)
LEMMA MaybeCheckTypes ==
  ASSUME TypeInv, NEW a \in Actor, MaybeCheck(a)
  PROVE  TypeInv'
<1>1. PcTyped'
  BY Actors, CallFields
  DEF TypeInv, PcTyped, MaybeCheck, Goto, Return, CallTyped, Control,
      RunPoint, StartPoint, TryPoint, FinishPoint, AbortPoint
<1>2. StartKnows'
  BY Actors, CallFields
  DEF TypeInv, StartKnows, MaybeCheck, Goto, Return, PcTyped, CallTyped,
      StartPoint, TryPoint, CallType, AbortPoint
<1>3. FinishKnows'
  BY Actors, TaskFields, SlotFields, CallFields, TodoItems
  DEF TypeInv, FinishKnows, MaybeCheck, Goto, Return, PcTyped, TaskTyped,
      SlotTyped, CallTyped, FinishPoint, TaskType
<1>4. LoopKnows'
  BY Actors, CallFields, SlotFields
  DEF TypeInv, LoopKnows, MaybeCheck, Goto, Return, PcTyped, CallTyped,
      AbortPoint, CallType, AbortType
<1> QED
  BY <1>1, <1>2, <1>3, <1>4
  DEF TypeInv, TodoTyped, SlotTyped, QueuesTyped, CallTyped, AbortTyped,
      TaskTyped, SentTyped, ItemsTyped, MaybeCheck, queueVars, itemVars

(* MaybeReserve keeps TypeInv.                                             *)
LEMMA MaybeReserveTypes ==
  ASSUME TypeInv, NEW a \in Actor, MaybeReserve(a)
  PROVE  TypeInv'
<1>1. SlotTyped'
  <2>1. CASE UNCHANGED slot
    BY <2>1 DEF TypeInv, SlotTyped
  <2>2. CASE \E t \in Turn : slot' = [NoSlot EXCEPT !.ts = <<t, "reserve">>]
    BY <2>2, ReserveTyped
  <2> QED
    BY <2>1, <2>2 DEF MaybeReserve
<1>2. PcTyped'
  BY Actors, CallFields
  DEF TypeInv, PcTyped, MaybeReserve, Return, Goto, NewTurn, CallTyped,
      Control, RunPoint, StartPoint, TryPoint, FinishPoint, AbortPoint
<1>3. CallTyped'
  <2>1. CASE UNCHANGED call
    BY <2>1 DEF TypeInv, CallTyped
  <2>2. CASE \E t \in Turn, kind \in TaskKind, input \in SUBSET Item, p \in Control :
               NewTurn(a, t, kind, input, p)
    BY <2>2, NewTurnTyped, Actors DEF TypeInv
  <2>3. {} \in SUBSET Item /\ "start:take" \in Control /\ "Regular" \in TaskKind
    BY TodoItems
    DEF TypeInv, Control, RunPoint, StartPoint, TryPoint, TaskKind
  <2> QED
    BY <2>1, <2>2, <2>3 DEF MaybeReserve
<1>4. TaskTyped'
  <2>1. CASE UNCHANGED task
    BY <2>1 DEF TypeInv, TaskTyped
  <2>2. CASE \E t \in Turn, kind \in TaskKind, input \in SUBSET Item, p \in Control :
               NewTurn(a, t, kind, input, p)
    BY <2>2, NewTurnTyped, Actors DEF TypeInv
  <2>3. {} \in SUBSET Item /\ "start:take" \in Control /\ "Regular" \in TaskKind
    BY TodoItems
    DEF TypeInv, Control, RunPoint, StartPoint, TryPoint, TaskKind
  <2> QED
    BY <2>1, <2>2, <2>3 DEF MaybeReserve
<1>5. StartKnows'
  BY Actors, CallFields
  DEF TypeInv, StartKnows, MaybeReserve, Return, Goto, NewTurn, PcTyped,
      CallTyped, StartPoint, TryPoint, CallType, AbortPoint
<1>6. FinishKnows'
  BY Actors, TaskFields, SlotFields, CallFields, TodoItems
  DEF TypeInv, FinishKnows, MaybeReserve, Return, Goto, NewTurn, PcTyped,
      TaskTyped, SlotTyped, CallTyped, FinishPoint, TaskType, NewTask
<1>7. LoopKnows'
  BY Actors, CallFields, SlotFields
  DEF TypeInv, LoopKnows, MaybeReserve, Return, Goto, NewTurn, PcTyped,
      CallTyped, AbortPoint, CallType, AbortType
<1> QED
  BY <1>1, <1>2, <1>3, <1>4, <1>5, <1>6, <1>7
  DEF TypeInv, TodoTyped, QueuesTyped, AbortTyped, SentTyped, ItemsTyped,
      MaybeReserve, queueVars, itemVars

(* StartTake keeps TypeInv.                                                *)
LEMMA StartTakeTypes ==
  ASSUME TypeInv, NEW a \in Actor, StartTake(a)
  PROVE  TypeInv'
<1>1. QueuesTyped'
  BY Actors, QueueFields, QueueUpdates, NewTurnStateType, SlotFields,
     CallFields, TaskFields, TurnStateIds
  DEF TypeInv, QueuesTyped, StartTake, DrainPendingInput, SlotTyped,
      TodoTyped, StartPoint, TryPoint, FinishPoint, AbortPoint
<1>2. PcTyped'
  BY Actors
  DEF TypeInv, PcTyped, StartTake, Goto, Control, RunPoint, StartPoint,
      TryPoint, FinishPoint, AbortPoint
<1>3. CallTyped'
  BY Actors, ItemSets, CallUpdates, QueueFields, SlotFields, NoItems
  DEF TypeInv, StartTake, Goto, DrainPendingInput, AcceptsMailbox,
      PendingInput, SlotPending, queueVars, itemVars, CallTyped, TodoTyped,
      QueuesTyped, SlotTyped
<1>4. StartKnows'
  BY Actors
  DEF TypeInv, StartKnows, StartTake, Goto, StartPoint, TryPoint, CallType,
      AbortPoint
<1>5. FinishKnows'
  BY Actors DEF TypeInv, FinishKnows, StartTake, Goto, FinishPoint, TaskType
<1>6. LoopKnows'
  BY Actors
  DEF TypeInv, LoopKnows, StartTake, Goto, AbortPoint, CallType, AbortType
<1> QED
  BY <1>1, <1>2, <1>3, <1>4, <1>5, <1>6
  DEF TypeInv, TodoTyped, SlotTyped, AbortTyped, TaskTyped, SentTyped,
      ItemsTyped, StartTake, DrainPendingInput, itemVars

(* StartAttach keeps TypeInv.                                              *)
LEMMA StartAttachTypes ==
  ASSUME TypeInv, NEW a \in Actor, StartAttach(a)
  PROVE  TypeInv'
<1>1. SlotTyped'
  <2> DEFINE ts == IF slot = NoSlot THEN <<call[a].turn, "attach">> ELSE slot.ts
  <2>1. ts \in TurnStateId
    BY TurnStateIds
    DEF TypeInv, StartAttach, StartKnows, StartPoint, SlotTyped
  <2>2. slot' = [slot EXCEPT !.ts = ts]
    BY DEF StartAttach
  <2> QED
    BY <2>1, <2>2, NewSlots DEF TypeInv, SlotTyped
<1>2. QueuesTyped'
  BY Actors, QueueFields, QueueUpdates, NewTurnStateType, SlotFields,
     CallFields, TaskFields, TurnStateIds, TodoItems
  DEF TypeInv, QueuesTyped, StartAttach, SlotTyped, TodoTyped, CallTyped,
      TaskTyped, PcTyped, StartKnows, FinishKnows, LoopKnows, StartPoint,
      TryPoint, FinishPoint, AbortPoint
<1>3. PcTyped'
  BY Actors
  DEF TypeInv, PcTyped, StartAttach, Goto, Control, RunPoint, StartPoint,
      TryPoint, FinishPoint, AbortPoint
<1>4. CallTyped'
  BY Actors, CallUpdates, QueueFields, SlotFields, NoItems
  DEF TypeInv, CallTyped, StartAttach, TodoTyped, QueuesTyped
<1>5. StartKnows'
  BY Actors
  DEF TypeInv, StartKnows, StartAttach, Goto, StartPoint, TryPoint, CallType,
      AbortPoint
<1>6. FinishKnows'
  BY Actors DEF TypeInv, FinishKnows, StartAttach, Goto, FinishPoint, TaskType
<1>7. LoopKnows'
  BY Actors
  DEF TypeInv, LoopKnows, StartAttach, Goto, AbortPoint, CallType, AbortType
<1> QED
  BY <1>1, <1>2, <1>3, <1>4, <1>5, <1>6, <1>7
  DEF TypeInv, TodoTyped, AbortTyped, TaskTyped, SentTyped, ItemsTyped,
      StartAttach, itemVars

(* StartInstall keeps TypeInv.                                             *)
LEMMA StartInstallTypes ==
  ASSUME TypeInv, NEW a \in Actor, StartInstall(a)
  PROVE  TypeInv'
<1>1. SlotTyped'
  <2>1. call[a].turn \in Turn /\ (slot # NoSlot => slot.ts \in TurnStateId)
    BY DEF StartInstall, TypeInv, StartKnows, StartPoint, SlotTyped
  <2> DEFINE ts == IF slot = NoSlot THEN <<call[a].turn, "install">> ELSE slot.ts
  <2>2. ts \in TurnStateId
    BY <2>1, TurnStateIds
  <2>3. \A b \in BOOLEAN :
          LET s == [ts |-> ts, task |-> call[a].turn, userInput |-> b]
          IN  s \in SlotType /\ s.ts = ts
    BY <2>1, <2>2 DEF SlotType
  <2> QED
    BY <2>2, <2>3 DEF StartInstall, SlotTyped
<1>2. PcTyped'
  BY Actors, CallFields
  DEF TypeInv, PcTyped, StartInstall, CallTyped, Control, RunPoint,
      StartPoint, TryPoint, FinishPoint, AbortPoint
<1>3. CallTyped'
  BY Actors, CallUpdates, QueueFields, SlotFields, NoItems
  DEF TypeInv, CallTyped, StartInstall, TodoTyped, QueuesTyped
<1>4. StartKnows'
  BY Actors, CallFields
  DEF TypeInv, StartKnows, StartInstall, PcTyped, CallTyped, StartPoint,
      TryPoint, CallType, AbortPoint
<1>5. FinishKnows'
  BY Actors, TaskFields, SlotFields, CallFields, TodoItems
  DEF TypeInv, FinishKnows, StartInstall, PcTyped, TaskTyped, SlotTyped,
      CallTyped, FinishPoint, TaskType
<1>6. LoopKnows'
  BY Actors, CallFields, SlotFields
  DEF TypeInv, LoopKnows, StartInstall, PcTyped, CallTyped, AbortPoint,
      CallType, AbortType
<1> QED
  BY <1>1, <1>2, <1>3, <1>4, <1>5, <1>6
  DEF TypeInv, TodoTyped, QueuesTyped, AbortTyped, TaskTyped, SentTyped,
      ItemsTyped, StartInstall, queueVars, itemVars

(* TryCheck keeps TypeInv.                                                 *)
LEMMA TryCheckTypes ==
  ASSUME TypeInv, NEW a \in Actor, TryCheck(a)
  PROVE  TypeInv'
<1>1. PcTyped'
  BY Actors, CallFields
  DEF TypeInv, PcTyped, TryCheck, Goto, Return, CallTyped, Control, RunPoint,
      StartPoint, TryPoint, FinishPoint, AbortPoint
<1>2. CallTyped'
  <2>1. CASE UNCHANGED call
    BY <2>1 DEF TypeInv, CallTyped
  <2>2. CASE call' = [call EXCEPT ![a].items = {}]
    BY <2>2, CallDropTyped DEF TypeInv
  <2> QED
    BY <2>1, <2>2 DEF TryCheck
<1>3. StartKnows'
  BY Actors, CallFields
  DEF TypeInv, StartKnows, TryCheck, Goto, Return, PcTyped, CallTyped,
      StartPoint, TryPoint, CallType, AbortPoint
<1>4. FinishKnows'
  BY Actors, TaskFields, SlotFields, CallFields, TodoItems
  DEF TypeInv, FinishKnows, TryCheck, Goto, Return, PcTyped, TaskTyped,
      SlotTyped, CallTyped, FinishPoint, TaskType
<1>5. LoopKnows'
  BY Actors, CallFields, SlotFields
  DEF TypeInv, LoopKnows, TryCheck, Goto, Return, PcTyped, CallTyped,
      AbortPoint, CallType, AbortType
<1> QED
  BY <1>1, <1>2, <1>3, <1>4, <1>5
  DEF TypeInv, TodoTyped, SlotTyped, QueuesTyped, AbortTyped, TaskTyped,
      SentTyped, ItemsTyped, TryCheck, queueVars, itemVars

(* TryReserve keeps TypeInv.                                               *)
LEMMA TryReserveTypes ==
  ASSUME TypeInv, NEW a \in Actor, TryReserve(a)
  PROVE  TypeInv'
<1>1. SlotTyped'
  <2>1. CASE UNCHANGED slot
    BY <2>1 DEF TypeInv, SlotTyped
  <2>2. CASE \E t \in Turn : slot' = [NoSlot EXCEPT !.ts = <<t, "reserve">>]
    BY <2>2, ReserveTyped
  <2> QED
    BY <2>1, <2>2 DEF TryReserve
<1>2. PcTyped'
  BY Actors, CallFields
  DEF TypeInv, PcTyped, TryReserve, Return, Goto, NewTurn, CallTyped,
      Control, RunPoint, StartPoint, TryPoint, FinishPoint, AbortPoint
<1>3. CallTyped'
  <2>0. CASE call' = [call EXCEPT ![a].items = {}]
    BY <2>0, CallDropTyped DEF TypeInv
  <2>1. CASE UNCHANGED call
    BY <2>1 DEF TypeInv, CallTyped
  <2>2. CASE \E t \in Turn, kind \in TaskKind, input \in SUBSET Item, p \in Control :
               NewTurn(a, t, kind, input, p)
    BY <2>2, NewTurnTyped, Actors DEF TypeInv
  <2>3. {} \in SUBSET Item /\ "try:recheck" \in Control /\ "Regular" \in TaskKind
    BY TodoItems
    DEF TypeInv, Control, RunPoint, StartPoint, TryPoint, TaskKind
  <2> QED
    BY <2>1, <2>2, <2>3, <2>0 DEF TryReserve
<1>4. TaskTyped'
  <2>1. CASE UNCHANGED task
    BY <2>1 DEF TypeInv, TaskTyped
  <2>2. CASE \E t \in Turn, kind \in TaskKind, input \in SUBSET Item, p \in Control :
               NewTurn(a, t, kind, input, p)
    BY <2>2, NewTurnTyped, Actors DEF TypeInv
  <2>3. {} \in SUBSET Item /\ "try:recheck" \in Control /\ "Regular" \in TaskKind
    BY TodoItems
    DEF TypeInv, Control, RunPoint, StartPoint, TryPoint, TaskKind
  <2> QED
    BY <2>1, <2>2, <2>3 DEF TryReserve
<1>5. StartKnows'
  BY Actors, CallFields
  DEF TypeInv, StartKnows, TryReserve, Return, Goto, NewTurn, PcTyped,
      CallTyped, StartPoint, TryPoint, CallType, AbortPoint
<1>6. FinishKnows'
  BY Actors, TaskFields, SlotFields, CallFields, TodoItems
  DEF TypeInv, FinishKnows, TryReserve, Return, Goto, NewTurn, PcTyped,
      TaskTyped, SlotTyped, CallTyped, FinishPoint, TaskType, NewTask
<1>7. LoopKnows'
  BY Actors, CallFields, SlotFields
  DEF TypeInv, LoopKnows, TryReserve, Return, Goto, NewTurn, PcTyped,
      CallTyped, AbortPoint, CallType, AbortType
<1> QED
  BY <1>1, <1>2, <1>3, <1>4, <1>5, <1>6, <1>7
  DEF TypeInv, TodoTyped, QueuesTyped, AbortTyped, SentTyped, ItemsTyped,
      TryReserve, queueVars, itemVars

(* TryRecheck keeps TypeInv.                                               *)
LEMMA TryRecheckTypes ==
  ASSUME TypeInv, NEW a \in Actor, TryRecheck(a)
  PROVE  TypeInv'
<1>1. SlotTyped'
  <2>1. CASE UNCHANGED slot
    BY <2>1 DEF TypeInv, SlotTyped
  <2>2. CASE \E p \in Control : GiveUpReservation(a, p)
    BY <2>2, GiveUpTyped DEF TypeInv
  <2>3. "maybe:check" \in Control /\ call[a].ret \in Control
    BY CallFields DEF TypeInv, CallTyped, Control
  <2> QED
    BY <2>1, <2>2, <2>3 DEF TryRecheck
<1>2. PcTyped'
  BY Actors
  DEF TypeInv, PcTyped, TryRecheck, Goto, GiveUpReservation, Control,
      RunPoint, StartPoint, TryPoint, FinishPoint, AbortPoint
<1>3. CallTyped'
  <2>1. CASE UNCHANGED call
    BY <2>1 DEF TypeInv, CallTyped
  <2>2. CASE \E p \in Control : GiveUpReservation(a, p)
    BY <2>2, GiveUpTyped DEF TypeInv
  <2>3. "maybe:check" \in Control /\ call[a].ret \in Control
    BY CallFields DEF TypeInv, CallTyped, Control
  <2> QED
    BY <2>1, <2>2, <2>3 DEF TryRecheck
<1>4. StartKnows'
  BY Actors, CallFields
  DEF TypeInv, StartKnows, TryRecheck, Goto, GiveUpReservation, PcTyped,
      CallTyped, StartPoint, TryPoint, CallType, AbortPoint
<1>5. FinishKnows'
  BY Actors, TaskFields, SlotFields, CallFields
  DEF TypeInv, FinishKnows, TryRecheck, Goto, GiveUpReservation, PcTyped,
      TaskTyped, FinishPoint, TaskType
<1>6. LoopKnows'
  BY Actors, CallFields, SlotFields
  DEF TypeInv, LoopKnows, TryRecheck, Goto, GiveUpReservation, PcTyped,
      CallTyped, AbortPoint, CallType, AbortType
<1> QED
  BY <1>1, <1>2, <1>3, <1>4, <1>5, <1>6
  DEF TypeInv, TodoTyped, QueuesTyped, AbortTyped, TaskTyped, SentTyped,
      ItemsTyped, TryRecheck, GiveUpReservation, queueVars, itemVars

(* TryRoute keeps TypeInv.                                                 *)
LEMMA TryRouteTypes ==
  ASSUME TypeInv, NEW a \in Actor, TryRoute(a)
  PROVE  TypeInv'
<1>1. SlotTyped'
  <2>1. CASE UNCHANGED slot
    BY <2>1 DEF TypeInv, SlotTyped
  <2>2. CASE \E p \in Control : GiveUpReservation(a, p)
    BY <2>2, GiveUpTyped DEF TypeInv
  <2>3. "maybe:check" \in Control /\ call[a].ret \in Control
    BY CallFields DEF TypeInv, CallTyped, Control
  <2> QED
    BY <2>1, <2>2, <2>3 DEF TryRoute
<1>2. PcTyped'
  BY Actors, CallFields
  DEF TypeInv, PcTyped, TryRoute, Goto, GiveUpReservation, CallTyped,
      Control, RunPoint, StartPoint, TryPoint, FinishPoint, AbortPoint
<1>3. CallTyped'
  <2>1. CASE UNCHANGED call
    BY <2>1 DEF TypeInv, CallTyped
  <2>2. CASE \E p \in Control : GiveUpReservation(a, p)
    BY <2>2, GiveUpTyped DEF TypeInv
  <2>3. "maybe:check" \in Control /\ call[a].ret \in Control
    BY CallFields DEF TypeInv, CallTyped, Control
  <2> QED
    BY <2>1, <2>2, <2>3 DEF TryRoute
<1>4. StartKnows'
  BY Actors, CallFields
  DEF TypeInv, StartKnows, TryRoute, Goto, GiveUpReservation, PcTyped,
      CallTyped, StartPoint, TryPoint, CallType, AbortPoint
<1>5. FinishKnows'
  BY Actors, TaskFields, SlotFields, CallFields, TodoItems
  DEF TypeInv, FinishKnows, TryRoute, Goto, GiveUpReservation, PcTyped,
      TaskTyped, SlotTyped, CallTyped, FinishPoint, TaskType, Reserved
<1>6. LoopKnows'
  BY Actors, CallFields, SlotFields
  DEF TypeInv, LoopKnows, TryRoute, Goto, GiveUpReservation, PcTyped,
      CallTyped, AbortPoint, CallType, AbortType
<1> QED
  BY <1>1, <1>2, <1>3, <1>4, <1>5, <1>6
  DEF TypeInv, TodoTyped, QueuesTyped, AbortTyped, TaskTyped, SentTyped,
      ItemsTyped, TryRoute, GiveUpReservation, queueVars, itemVars

(* TryClaim keeps TypeInv.                                                 *)
LEMMA TryClaimTypes ==
  ASSUME TypeInv, NEW a \in Actor, TryClaim(a)
  PROVE  TypeInv'
<1>1. SlotTyped'
  <2>1. CASE UNCHANGED slot
    BY <2>1 DEF TypeInv, SlotTyped
  <2>2. CASE \E p \in Control : GiveUpReservation(a, p)
    BY <2>2, GiveUpTyped DEF TypeInv
  <2>3. "maybe:check" \in Control /\ call[a].ret \in Control
    BY CallFields DEF TypeInv, CallTyped, Control
  <2> QED
    BY <2>1, <2>2, <2>3 DEF TryClaim
<1>2. PcTyped'
  BY Actors, CallFields
  DEF TypeInv, PcTyped, TryClaim, Goto, GiveUpReservation, CallTyped,
      Control, RunPoint, StartPoint, TryPoint, FinishPoint, AbortPoint
<1>3. CallTyped'
  <2>1. CASE UNCHANGED call
    BY <2>1 DEF TypeInv, CallTyped
  <2>2. CASE \E p \in Control : GiveUpReservation(a, p)
    BY <2>2, GiveUpTyped DEF TypeInv
  <2>3. "maybe:check" \in Control /\ call[a].ret \in Control
    BY CallFields DEF TypeInv, CallTyped, Control
  <2> QED
    BY <2>1, <2>2, <2>3 DEF TryClaim
<1>4. StartKnows'
  BY Actors, CallFields
  DEF TypeInv, StartKnows, TryClaim, Goto, GiveUpReservation, PcTyped,
      CallTyped, StartPoint, TryPoint, CallType, AbortPoint
<1>5. FinishKnows'
  BY Actors, TaskFields, SlotFields, CallFields, TodoItems
  DEF TypeInv, FinishKnows, TryClaim, Goto, GiveUpReservation, PcTyped,
      TaskTyped, SlotTyped, CallTyped, FinishPoint, TaskType, Reserved
<1>6. LoopKnows'
  BY Actors, CallFields, SlotFields
  DEF TypeInv, LoopKnows, TryClaim, Goto, GiveUpReservation, PcTyped,
      CallTyped, AbortPoint, CallType, AbortType
<1> QED
  BY <1>1, <1>2, <1>3, <1>4, <1>5, <1>6
  DEF TypeInv, TodoTyped, QueuesTyped, AbortTyped, TaskTyped, SentTyped,
      ItemsTyped, TryClaim, GiveUpReservation, queueVars, itemVars

(* TryExtend keeps TypeInv.                                                *)
LEMMA TryExtendTypes ==
  ASSUME TypeInv, NEW a \in Actor, TryExtend(a)
  PROVE  TypeInv'
<1>1. QueuesTyped'
  BY Actors, QueueFields, QueueUpdates, NewTurnStateType, SlotFields,
     CallFields, TaskFields, TurnStateIds, TodoItems
  DEF TypeInv, QueuesTyped, TryExtend, SlotTyped, TodoTyped, CallTyped,
      TaskTyped, PcTyped, StartKnows, FinishKnows, LoopKnows, StartPoint,
      TryPoint, FinishPoint, AbortPoint
<1>2. PcTyped'
  BY Actors
  DEF TypeInv, PcTyped, TryExtend, Goto, Control, RunPoint, StartPoint,
      TryPoint, FinishPoint, AbortPoint
<1>3. CallTyped'
  BY Actors, CallUpdates, QueueFields, SlotFields, NoItems
  DEF TypeInv, CallTyped, TryExtend, TodoTyped, QueuesTyped
<1>4. ItemsTyped'
  BY Actors, SlotFields, TaskFields, CallFields, QueueFields, TodoItems
  DEF TypeInv, ItemsTyped, TryExtend, TodoTyped, SlotTyped, TaskTyped,
      CallTyped, QueuesTyped, LoopKnows, StartKnows, FinishKnows, AbortPoint,
      FinishPoint, StartPoint, TryPoint
<1>5. StartKnows'
  BY Actors
  DEF TypeInv, StartKnows, TryExtend, Goto, StartPoint, TryPoint, CallType,
      AbortPoint
<1>6. FinishKnows'
  BY Actors DEF TypeInv, FinishKnows, TryExtend, Goto, FinishPoint, TaskType
<1>7. LoopKnows'
  BY Actors
  DEF TypeInv, LoopKnows, TryExtend, Goto, AbortPoint, CallType, AbortType
<1> QED
  BY <1>1, <1>2, <1>3, <1>4, <1>5, <1>6, <1>7
  DEF TypeInv, TodoTyped, SlotTyped, AbortTyped, TaskTyped, SentTyped,
      TryExtend

(* TaskBegin keeps TypeInv.                                                *)
LEMMA TaskBeginTypes ==
  ASSUME TypeInv, NEW t \in Turn, TaskBegin(t)
  PROVE  TypeInv'
<1>1. PcTyped' /\ StartKnows' /\ LoopKnows'
  BY TaskGotoTyped DEF TaskBegin, RunPoint, FinishPoint
<1>2. SentTyped'
  BY DEF TypeInv, SentTyped, TaskBegin, Emit
<1>3. FinishKnows'
  BY Actors DEF TypeInv, FinishKnows, TaskBegin, Goto, FinishPoint, TaskType
<1> QED
  BY <1>1, <1>2, <1>3
  DEF TypeInv, TodoTyped, SlotTyped, QueuesTyped, CallTyped, AbortTyped,
      TaskTyped, ItemsTyped, TaskBegin, queueVars, itemVars

(* TaskWork keeps TypeInv.                                                 *)
LEMMA TaskWorkTypes ==
  ASSUME TypeInv, NEW t \in Turn, TaskWork(t)
  PROVE  TypeInv'
<1>1. PcTyped' /\ StartKnows' /\ LoopKnows'
  BY TaskGotoTyped DEF TaskWork, RunPoint, FinishPoint
<1>2. TaskTyped'
  <2>1. \A r \in {"Ok", "TurnAborted"} :
          [[task[t] EXCEPT !.result = r] EXCEPT !.items = {}] \in TaskType
    BY TaskUpdates, NoItems DEF TypeInv, TaskTyped
  <2> QED
    BY <2>1 DEF TaskWork, TypeInv, TaskTyped
<1>3. SentTyped'
  BY DEF TypeInv, SentTyped, TaskWork, Emit
<1>4. FinishKnows'
  BY Actors, TaskFields, SlotFields, CallFields
  DEF TypeInv, FinishKnows, TaskWork, Goto, PcTyped, TaskTyped, FinishPoint,
      TaskType
<1> QED
  BY <1>1, <1>2, <1>3, <1>4
  DEF TypeInv, TodoTyped, SlotTyped, QueuesTyped, CallTyped, AbortTyped,
      ItemsTyped, TaskWork, queueVars, itemVars

(* TaskPrepare keeps TypeInv.                                              *)
LEMMA TaskPrepareTypes ==
  ASSUME TypeInv, NEW t \in Turn, TaskPrepare(t)
  PROVE  TypeInv'
<1>1. PcTyped' /\ StartKnows' /\ LoopKnows'
  BY TaskGotoTyped DEF TaskPrepare, RecordInputs, RunPoint, FinishPoint
<1>2. TaskTyped'
  <2>1. \A r \in {"Ok", "TurnAborted"}, b \in BOOLEAN :
          [[[task[t] EXCEPT !.items = {}] EXCEPT !.result = r] EXCEPT !.canDrain = b]
            \in TaskType
    BY TaskUpdates, NoItems DEF TypeInv, TaskTyped
  <2>2. PICK r \in {"Ok", "TurnAborted"} :
          task' = [task EXCEPT ![t].items = {}, ![t].result = r,
                               ![t].canDrain = task[t].items = {}]
    BY DEF TaskPrepare
  <2> QED
    BY <2>1, <2>2 DEF TypeInv, TaskTyped
<1>3. ItemsTyped'
  BY Actors, SlotFields, TaskFields, CallFields, QueueFields, TodoItems
  DEF TypeInv, ItemsTyped, TaskPrepare, RecordInputs, TodoTyped, SlotTyped,
      TaskTyped, CallTyped, QueuesTyped, LoopKnows, StartKnows, FinishKnows,
      AbortPoint, FinishPoint, StartPoint, TryPoint
<1>4. FinishKnows'
  BY Actors, TaskFields, SlotFields, CallFields
  DEF TypeInv, FinishKnows, TaskPrepare, RecordInputs, Goto, PcTyped,
      TaskTyped, FinishPoint, TaskType
<1> QED
  BY <1>1, <1>2, <1>3, <1>4
  DEF TypeInv, TodoTyped, SlotTyped, QueuesTyped, CallTyped, AbortTyped,
      SentTyped, TaskPrepare, queueVars

(* TaskPrepareFailed keeps TypeInv.                                        *)
LEMMA TaskPrepareFailedTypes ==
  ASSUME TypeInv, NEW t \in Turn, TaskPrepareFailed(t)
  PROVE  TypeInv'
<1>1. PcTyped' /\ StartKnows' /\ LoopKnows'
  BY TaskGotoTyped DEF TaskPrepareFailed, RunPoint, FinishPoint
<1>2. TaskTyped'
  <2>1. \A r \in {"Ok", "TurnAborted"} :
          [[task[t] EXCEPT !.items = {}] EXCEPT !.result = r] \in TaskType
    BY TaskUpdates, NoItems DEF TypeInv, TaskTyped
  <2> QED
    BY <2>1 DEF TaskPrepareFailed, TypeInv, TaskTyped
<1>3. ItemsTyped'
  BY Actors, SlotFields, TaskFields, CallFields, QueueFields, TodoItems
  DEF TypeInv, ItemsTyped, TaskPrepareFailed, TodoTyped, SlotTyped,
      TaskTyped, CallTyped, QueuesTyped, LoopKnows, StartKnows, FinishKnows,
      AbortPoint, FinishPoint, StartPoint, TryPoint
<1>4. FinishKnows'
  BY Actors, TaskFields, SlotFields, CallFields
  DEF TypeInv, FinishKnows, TaskPrepareFailed, Goto, PcTyped, TaskTyped,
      FinishPoint, TaskType
<1> QED
  BY <1>1, <1>2, <1>3, <1>4
  DEF TypeInv, TodoTyped, SlotTyped, QueuesTyped, CallTyped, AbortTyped,
      SentTyped, TaskPrepareFailed, queueVars

(* TaskDrain keeps TypeInv.                                                *)
LEMMA TaskDrainTypes ==
  ASSUME TypeInv, NEW t \in Turn, TaskDrain(t)
  PROVE  TypeInv'
<1>1. PcTyped' /\ StartKnows' /\ LoopKnows'
  BY TaskGotoTyped DEF TaskDrain, RunPoint, FinishPoint
<1>2. QueuesTyped'
  <2>1. CASE DrainPendingInput
    BY <2>1, DrainTyped DEF TypeInv
  <2>2. CASE UNCHANGED queueVars
    BY <2>2 DEF TypeInv, QueuesTyped, queueVars
  <2> QED
    BY <2>1, <2>2 DEF TaskDrain
<1>3. TaskTyped'
  <2>1. CASE UNCHANGED task
    BY <2>1 DEF TypeInv, TaskTyped
  <2>2. CASE task' = [task EXCEPT ![t].items = PendingInput] /\ DrainPendingInput
    <3>1. [task[t] EXCEPT !.items = PendingInput] \in TaskType
      BY <2>2, DrainTyped, TaskUpdates DEF TypeInv, TaskTyped
    <3> QED
      BY <2>2, <3>1 DEF TypeInv, TaskTyped
  <2> QED
    BY <2>1, <2>2 DEF TaskDrain
<1>4. FinishKnows'
  BY Actors, TaskFields, SlotFields, CallFields
  DEF TypeInv, FinishKnows, TaskDrain, Goto, PcTyped, TaskTyped, FinishPoint,
      TaskType
<1> QED
  BY <1>1, <1>2, <1>3, <1>4
  DEF TypeInv, TodoTyped, SlotTyped, CallTyped, AbortTyped, SentTyped,
      ItemsTyped, TaskDrain, DrainPendingInput, itemVars

(* TaskRecord keeps TypeInv.                                               *)
LEMMA TaskRecordTypes ==
  ASSUME TypeInv, NEW t \in Turn, TaskRecord(t)
  PROVE  TypeInv'
<1>1. PcTyped' /\ StartKnows' /\ LoopKnows'
  BY TaskGotoTyped DEF TaskRecord, RecordInputs, RunPoint, FinishPoint
<1>2. TaskTyped'
  BY Actors, TaskUpdates, TaskFields, NewTaskType, QueueFields, SlotFields,
     NoItems
  DEF TypeInv, TaskTyped, TaskRecord, TodoTyped, SlotTyped, TaskKind
<1>3. ItemsTyped'
  BY Actors, SlotFields, TaskFields, CallFields, QueueFields, TodoItems
  DEF TypeInv, ItemsTyped, TaskRecord, RecordInputs, TodoTyped, SlotTyped,
      TaskTyped, CallTyped, QueuesTyped, LoopKnows, StartKnows, FinishKnows,
      AbortPoint, FinishPoint, StartPoint, TryPoint
<1>4. FinishKnows'
  BY Actors
  DEF TypeInv, FinishKnows, TaskRecord, RecordInputs, Goto, FinishPoint,
      TaskType
<1> QED
  BY <1>1, <1>2, <1>3, <1>4
  DEF TypeInv, TodoTyped, SlotTyped, QueuesTyped, CallTyped, AbortTyped,
      SentTyped, TaskRecord, queueVars

(* TaskStream keeps TypeInv.                                               *)
LEMMA TaskStreamTypes ==
  ASSUME TypeInv, NEW t \in Turn, TaskStream(t)
  PROVE  TypeInv'
<1>1. QueuesTyped'
  BY Actors, QueueFields, QueueUpdates, NewTurnStateType, SlotFields,
     CallFields, TaskFields, TurnStateIds
  DEF TypeInv, QueuesTyped, TaskStream, AcceptMailbox, DeferMailbox,
      SlotTyped, TodoTyped, StartPoint, TryPoint, FinishPoint, AbortPoint
<1> QED
  BY <1>1
  DEF TypeInv, TodoTyped, SlotTyped, PcTyped, CallTyped, AbortTyped,
      TaskTyped, SentTyped, ItemsTyped, StartKnows, FinishKnows, LoopKnows,
      TaskStream, itemVars

(* TaskFollowUp keeps TypeInv.                                             *)
LEMMA TaskFollowUpTypes ==
  ASSUME TypeInv, NEW t \in Turn, TaskFollowUp(t)
  PROVE  TypeInv'
<1>1. PcTyped' /\ StartKnows' /\ LoopKnows'
  BY TaskGotoTyped DEF TaskFollowUp, RunPoint, FinishPoint
<1>2. QueuesTyped'
  BY Actors, QueueFields, QueueUpdates, NewTurnStateType, SlotFields,
     CallFields, TaskFields, TurnStateIds
  DEF TypeInv, QueuesTyped, TaskFollowUp, AcceptMailbox, SlotTyped,
      TodoTyped, StartPoint, TryPoint, FinishPoint, AbortPoint
<1>3. TaskTyped'
  <2>1. \A b \in BOOLEAN : [task[t] EXCEPT !.canDrain = b] \in TaskType
    BY TaskUpdates DEF TypeInv, TaskTyped
  <2>2. PICK b \in BOOLEAN : task' = [task EXCEPT ![t].canDrain = ~b]
    BY DEF TaskFollowUp
  <2> QED
    BY <2>1, <2>2 DEF TypeInv, TaskTyped
<1>4. FinishKnows'
  BY Actors
  DEF TypeInv, FinishKnows, TaskFollowUp, Goto, FinishPoint, TaskType
<1> QED
  BY <1>1, <1>2, <1>3, <1>4
  DEF TypeInv, TodoTyped, SlotTyped, CallTyped, AbortTyped, SentTyped,
      ItemsTyped, TaskFollowUp, itemVars

(* TaskAnswered keeps TypeInv.                                             *)
LEMMA TaskAnsweredTypes ==
  ASSUME TypeInv, NEW t \in Turn, TaskAnswered(t)
  PROVE  TypeInv'
<1>1. PcTyped' /\ StartKnows' /\ LoopKnows'
  BY TaskGotoTyped DEF TaskAnswered, RunPoint, FinishPoint
<1>2. TaskTyped'
  BY Actors, TaskUpdates, TaskFields, NewTaskType, QueueFields, SlotFields,
     NoItems
  DEF TypeInv, TaskTyped, TaskAnswered, TodoTyped, SlotTyped, TaskKind
<1>3. FinishKnows'
  BY Actors
  DEF TypeInv, FinishKnows, TaskAnswered, Goto, FinishPoint, TaskType
<1> QED
  BY <1>1, <1>2, <1>3
  DEF TypeInv, TodoTyped, SlotTyped, QueuesTyped, CallTyped, AbortTyped,
      SentTyped, ItemsTyped, TaskAnswered, queueVars, itemVars

(* TaskSampleFailed keeps TypeInv.                                         *)
LEMMA TaskSampleFailedTypes ==
  ASSUME TypeInv, NEW t \in Turn, TaskSampleFailed(t)
  PROVE  TypeInv'
<1>1. PcTyped' /\ StartKnows' /\ LoopKnows'
  BY TaskGotoTyped DEF TaskSampleFailed, RunPoint, FinishPoint
<1>2. TaskTyped'
  <2>1. CASE UNCHANGED task
    BY <2>1 DEF TypeInv, TaskTyped
  <2>2. CASE task' = [task EXCEPT ![t].result = "TurnAborted"]
    BY <2>2, TaskUpdates DEF TypeInv, TaskTyped
  <2> QED
    BY <2>1, <2>2 DEF TaskSampleFailed
<1>3. FinishKnows'
  BY Actors, TaskFields, SlotFields, CallFields
  DEF TypeInv, FinishKnows, TaskSampleFailed, Goto, PcTyped, TaskTyped,
      FinishPoint, TaskType
<1> QED
  BY <1>1, <1>2, <1>3
  DEF TypeInv, TodoTyped, SlotTyped, QueuesTyped, CallTyped, AbortTyped,
      SentTyped, ItemsTyped, TaskSampleFailed, queueVars, itemVars

(* TaskStop keeps TypeInv.                                                 *)
LEMMA TaskStopTypes ==
  ASSUME TypeInv, NEW t \in Turn, TaskStop(t)
  PROVE  TypeInv'
<1>1. PcTyped' /\ StartKnows' /\ LoopKnows'
  BY TaskGotoTyped DEF TaskStop, RunPoint, FinishPoint
<1>2. FinishKnows'
  BY Actors DEF TypeInv, FinishKnows, TaskStop, Goto, FinishPoint, TaskType
<1> QED
  BY <1>1, <1>2
  DEF TypeInv, TodoTyped, SlotTyped, QueuesTyped, CallTyped, AbortTyped,
      TaskTyped, SentTyped, ItemsTyped, TaskStop, queueVars, itemVars

(* TaskStopBlocked keeps TypeInv.                                          *)
LEMMA TaskStopBlockedTypes ==
  ASSUME TypeInv, NEW t \in Turn, TaskStopBlocked(t)
  PROVE  TypeInv'
<1>1. PcTyped' /\ StartKnows' /\ LoopKnows'
  BY TaskGotoTyped DEF TaskStopBlocked, RunPoint, FinishPoint
<1>2. QueuesTyped'
  BY Actors, QueueFields, QueueUpdates, NewTurnStateType, SlotFields,
     CallFields, TaskFields, TurnStateIds
  DEF TypeInv, QueuesTyped, TaskStopBlocked, AcceptMailbox, SlotTyped,
      TodoTyped, StartPoint, TryPoint, FinishPoint, AbortPoint
<1>3. FinishKnows'
  BY Actors
  DEF TypeInv, FinishKnows, TaskStopBlocked, Goto, FinishPoint, TaskType
<1> QED
  BY <1>1, <1>2, <1>3
  DEF TypeInv, TodoTyped, SlotTyped, CallTyped, AbortTyped, TaskTyped,
      SentTyped, ItemsTyped, TaskStopBlocked, itemVars

(* TaskAfterTurn keeps TypeInv.                                            *)
LEMMA TaskAfterTurnTypes ==
  ASSUME TypeInv, NEW t \in Turn, TaskAfterTurn(t)
  PROVE  TypeInv'
<1>1. PcTyped' /\ StartKnows' /\ LoopKnows'
  BY TaskGotoTyped DEF TaskAfterTurn, RunPoint, FinishPoint
<1>2. FinishKnows'
  BY Actors
  DEF TypeInv, FinishKnows, TaskAfterTurn, Goto, FinishPoint, TaskType
<1> QED
  BY <1>1, <1>2
  DEF TypeInv, TodoTyped, SlotTyped, QueuesTyped, CallTyped, AbortTyped,
      TaskTyped, SentTyped, ItemsTyped, TaskAfterTurn, queueVars, itemVars

(* TaskCheckCancelled keeps TypeInv.                                       *)
LEMMA TaskCheckCancelledTypes ==
  ASSUME TypeInv, NEW t \in Turn, TaskCheckCancelled(t)
  PROVE  TypeInv'
<1>1. PcTyped' /\ StartKnows' /\ LoopKnows'
  BY TaskGotoTyped DEF TaskCheckCancelled, RunPoint, FinishPoint
<1>2. FinishKnows'
  BY Actors
  DEF TypeInv, FinishKnows, TaskCheckCancelled, Goto, FinishPoint, TaskType
<1> QED
  BY <1>1, <1>2
  DEF TypeInv, TodoTyped, SlotTyped, QueuesTyped, CallTyped, AbortTyped,
      TaskTyped, SentTyped, ItemsTyped, TaskCheckCancelled, queueVars,
      itemVars

(* FinishTake keeps TypeInv.                                               *)
LEMMA FinishTakeTypes ==
  ASSUME TypeInv, NEW t \in Turn, FinishTake(t)
  PROVE  TypeInv'
<1>1. PcTyped' /\ StartKnows' /\ LoopKnows'
  BY TaskGotoTyped DEF FinishTake, RunPoint, FinishPoint
<1>2. SlotTyped'
  BY Actors, SlotFields, NewSlots, TurnStateIds
  DEF TypeInv, SlotTyped, FinishTake, StartKnows, PcTyped, StartPoint,
      TryPoint
<1>3. TaskTyped'
  <2>1. CASE UNCHANGED task
    BY <2>1 DEF TypeInv, TaskTyped
  <2>2. CASE slot.task # NoTurn /\ task' = [task EXCEPT ![t].ts = slot.ts]
    BY <2>2, SlotFields, TaskUpdates DEF TypeInv, SlotTyped, TaskTyped
  <2> QED
    BY <2>1, <2>2 DEF FinishTake
<1>4. FinishKnows'
  BY Actors, TaskFields, SlotFields, CallFields, TodoItems
  DEF TypeInv, FinishKnows, FinishTake, Goto, PcTyped, TaskTyped, SlotTyped,
      CallTyped, FinishPoint, TaskType
<1> QED
  BY <1>1, <1>2, <1>3, <1>4
  DEF TypeInv, TodoTyped, QueuesTyped, CallTyped, AbortTyped, SentTyped,
      ItemsTyped, FinishTake, queueVars, itemVars

(* FinishRecord keeps TypeInv.                                             *)
LEMMA FinishRecordTypes ==
  ASSUME TypeInv, NEW t \in Turn, FinishRecord(t)
  PROVE  TypeInv'
<1>1. PcTyped' /\ StartKnows' /\ LoopKnows'
  BY TaskGotoTyped DEF FinishRecord, RunPoint, FinishPoint
<1>2. QueuesTyped'
  BY Actors, QueueFields, QueueUpdates, NewTurnStateType, SlotFields,
     CallFields, TaskFields, TurnStateIds
  DEF TypeInv, QueuesTyped, FinishRecord, SlotTyped, TodoTyped, StartPoint,
      TryPoint, FinishPoint, AbortPoint
<1>3. ItemsTyped'
  BY Actors, SlotFields, TaskFields, CallFields, QueueFields, TodoItems
  DEF TypeInv, ItemsTyped, FinishRecord, TodoTyped, SlotTyped, TaskTyped,
      CallTyped, QueuesTyped, LoopKnows, StartKnows, FinishKnows, AbortPoint,
      FinishPoint, StartPoint, TryPoint
<1>4. FinishKnows'
  BY Actors
  DEF TypeInv, FinishKnows, FinishRecord, Goto, FinishPoint, TaskType
<1> QED
  BY <1>1, <1>2, <1>3, <1>4
  DEF TypeInv, TodoTyped, SlotTyped, CallTyped, AbortTyped, TaskTyped,
      SentTyped, FinishRecord

(* FinishEvent keeps TypeInv.                                              *)
LEMMA FinishEventTypes ==
  ASSUME TypeInv, NEW t \in Turn, FinishEvent(t)
  PROVE  TypeInv'
<1>1. PcTyped' /\ StartKnows' /\ LoopKnows'
  BY TaskGotoTyped DEF FinishEvent, RunPoint, FinishPoint
<1>2. SentTyped'
  BY Actors DEF TypeInv, SentTyped, FinishEvent, Emit, EventName, AbortPoint
<1>3. FinishKnows'
  BY Actors DEF TypeInv, FinishKnows, FinishEvent, Goto, FinishPoint, TaskType
<1> QED
  BY <1>1, <1>2, <1>3
  DEF TypeInv, TodoTyped, SlotTyped, QueuesTyped, CallTyped, AbortTyped,
      TaskTyped, ItemsTyped, FinishEvent, queueVars, itemVars

(* FinishClear keeps TypeInv.                                              *)
LEMMA FinishClearTypes ==
  ASSUME TypeInv, NEW t \in Turn, FinishClear(t)
  PROVE  TypeInv'
<1>1. PcTyped' /\ StartKnows' /\ LoopKnows'
  BY TaskGotoTyped DEF FinishClear, RunPoint, FinishPoint
<1>2. SlotTyped'
  BY Actors, SlotFields, NewSlots, TurnStateIds
  DEF TypeInv, SlotTyped, FinishClear, StartKnows, PcTyped, StartPoint,
      TryPoint
<1>3. QueuesTyped'
  BY Actors, QueueFields, QueueUpdates, NewTurnStateType, SlotFields,
     CallFields, TaskFields, TurnStateIds
  DEF TypeInv, QueuesTyped, FinishClear, SlotTyped, TodoTyped, StartPoint,
      TryPoint, FinishPoint, AbortPoint
<1>4. TaskTyped'
  BY Actors, TaskUpdates, TaskFields, NewTaskType, QueueFields, SlotFields,
     NoItems
  DEF TypeInv, TaskTyped, FinishClear, TodoTyped, SlotTyped, TaskKind
<1>5. FinishKnows'
  BY Actors, TaskFields, SlotFields, CallFields
  DEF TypeInv, FinishKnows, FinishClear, Goto, PcTyped, TaskTyped,
      FinishPoint, TaskType
<1> QED
  BY <1>1, <1>2, <1>3, <1>4, <1>5
  DEF TypeInv, TodoTyped, CallTyped, AbortTyped, SentTyped, ItemsTyped,
      FinishClear, itemVars

(* FinishIdle keeps TypeInv.                                               *)
LEMMA FinishIdleTypes ==
  ASSUME TypeInv, NEW t \in Turn, FinishIdle(t)
  PROVE  TypeInv'
<1>1. TodoTyped'
  BY DEF TypeInv, TodoTyped, FinishIdle, Take
<1>2. PcTyped'
  BY Actors
  DEF TypeInv, PcTyped, FinishIdle, Goto, Control, RunPoint, StartPoint,
      TryPoint, FinishPoint, AbortPoint
<1>3. CallTyped'
  <2>1. CASE UNCHANGED call
    BY <2>1 DEF TypeInv, CallTyped
  <2>2. CASE \E p \in todo :
               call' = [call EXCEPT ![t].items = {p.item}, ![t].ret = "finish:wake"]
    <3>1. \A p \in todo :
            [[call[t] EXCEPT !.items = {p.item}] EXCEPT !.ret = "finish:wake"] \in CallType
      BY CallUpdates, TodoItems, Actors DEF TypeInv, CallTyped
    <3> QED
      BY <2>2, <3>1, Actors DEF TypeInv, CallTyped
  <2> QED
    BY <2>1, <2>2 DEF FinishIdle
<1>4. StartKnows'
  BY Actors, CallFields
  DEF TypeInv, StartKnows, FinishIdle, Goto, PcTyped, CallTyped, StartPoint,
      TryPoint, CallType, AbortPoint
<1>5. FinishKnows'
  BY Actors, TaskFields, SlotFields, CallFields
  DEF TypeInv, FinishKnows, FinishIdle, Goto, PcTyped, TaskTyped,
      FinishPoint, TaskType
<1>6. LoopKnows'
  BY Actors, CallFields, SlotFields
  DEF TypeInv, LoopKnows, FinishIdle, Goto, PcTyped, CallTyped, AbortPoint,
      CallType, AbortType
<1> QED
  BY <1>1, <1>2, <1>3, <1>4, <1>5, <1>6
  DEF TypeInv, SlotTyped, QueuesTyped, AbortTyped, TaskTyped, SentTyped,
      ItemsTyped, FinishIdle, queueVars, itemVars

(* FinishWake keeps TypeInv.                                               *)
LEMMA FinishWakeTypes ==
  ASSUME TypeInv, NEW t \in Turn, FinishWake(t)
  PROVE  TypeInv'
<1>1. PcTyped'
  BY Actors
  DEF TypeInv, PcTyped, FinishWake, Goto, Control, RunPoint, StartPoint,
      TryPoint, FinishPoint, AbortPoint
<1>2. CallTyped'
  BY Actors, CallUpdates, QueueFields, SlotFields, NoItems
  DEF TypeInv, CallTyped, FinishWake, TodoTyped, QueuesTyped
<1>3. StartKnows'
  BY Actors
  DEF TypeInv, StartKnows, FinishWake, Goto, StartPoint, TryPoint, CallType,
      AbortPoint
<1>4. FinishKnows'
  BY Actors DEF TypeInv, FinishKnows, FinishWake, Goto, FinishPoint, TaskType
<1>5. LoopKnows'
  BY Actors
  DEF TypeInv, LoopKnows, FinishWake, Goto, AbortPoint, CallType, AbortType
<1> QED
  BY <1>1, <1>2, <1>3, <1>4, <1>5
  DEF TypeInv, TodoTyped, SlotTyped, QueuesTyped, AbortTyped, TaskTyped,
      SentTyped, ItemsTyped, FinishWake, queueVars, itemVars

-----------------------------------------------------------------------------
(* Every step of Next keeps TypeInv.                                       *)
LEMMA TypeStep == ASSUME TypeInv, [Next]_vars PROVE TypeInv'
<1>1. CASE UNCHANGED vars
  BY <1>1 DEF TypeInv, TodoTyped, SlotTyped, QueuesTyped, PcTyped, CallTyped,
              AbortTyped, TaskTyped, SentTyped, ItemsTyped, StartKnows,
              FinishKnows, LoopKnows, vars, queueVars, itemVars
<1>2. ASSUME NEW o \in todo, Request(o) PROVE TypeInv'
  BY <1>2, SteerTypes, CancelSteerTypes, InjectTypes, LoopUserInputTypes,
     LoopSpawnTypes, LoopMailTypes, LoopStageTypes, LoopReleaseTypes,
     LoopStartPendingWorkTypes, LoopInterruptTypes, ExtIdleStartTypes
  DEF Request
<1>3. ASSUME NEW a \in Actor, StartStep(a) PROVE TypeInv'
  BY <1>3, MaybeCheckTypes, MaybeReserveTypes, StartTakeTypes,
     StartAttachTypes, StartInstallTypes, TryCheckTypes, TryReserveTypes,
     TryRecheckTypes, TryRouteTypes, TryClaimTypes, TryExtendTypes
  DEF StartStep
<1>4. CASE LoopStep
  BY <1>4, <1>3, Actors, LoopRoutedTypes, AbortTakeTypes, AbortCancelTypes,
     AbortKillTypes, AbortEventTypes, AbortClearTypes
  DEF LoopStep
<1>5. ASSUME NEW t \in Turn, TaskStep(t) PROVE TypeInv'
  <2>1. CASE RunStep(t)
    BY <2>1, TaskBeginTypes, TaskWorkTypes, TaskPrepareTypes,
       TaskPrepareFailedTypes, TaskDrainTypes, TaskRecordTypes,
       TaskStreamTypes, TaskFollowUpTypes, TaskAnsweredTypes,
       TaskSampleFailedTypes, TaskStopTypes, TaskStopBlockedTypes,
       TaskAfterTurnTypes, TaskCheckCancelledTypes
    DEF RunStep
  <2>2. CASE FinishStep(t)
    BY <2>2, FinishTakeTypes, FinishRecordTypes, FinishEventTypes,
       FinishClearTypes, FinishIdleTypes, FinishWakeTypes
    DEF FinishStep
  <2>3. CASE StartStep(t)
    BY <2>3, <1>3, Actors
  <2> QED
    BY <1>5, <2>1, <2>2, <2>3 DEF TaskStep
<1> QED
  BY <1>1, <1>2, <1>3, <1>4, <1>5, Actors DEF Next

(* TypeInv is an invariant of every session: the ids and TurnStates that   *)
(* start_task, abort_all_tasks and on_task_finished carry across their     *)
(* awaits always name something.                                           *)
THEOREM TypeInvariance == Spec => []TypeInv
<1>1. Init => TypeInv
  BY TypeInit
<1>2. TypeInv /\ [Next]_vars => TypeInv'
  BY TypeStep
<1> QED
  BY <1>1, <1>2, PTL DEF Spec

(* TypeOK, the type invariant the runs check (session state of             *)
(* tasks/mod.rs, session/input_queue.rs and session/inject.rs).            *)
THEOREM TypeCorrect == Spec => []TypeOK
<1>1. TypeInv => TypeOK
  BY DEF TypeInv, TypeOK, TodoTyped, SlotTyped, QueuesTyped, PcTyped,
         CallTyped, AbortTyped, TaskTyped, SentTyped, ItemsTyped, StartKnows,
         FinishKnows
<1> QED
  BY <1>1, TypeInvariance, PTL
=============================================================================
