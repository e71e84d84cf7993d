---------------------------- MODULE TurnLifecycle ----------------------------
(***************************************************************************)
(* The turn lifecycle of one session (xedoc-rs/core): the slot             *)
(* `active_turn`, the input queue, the submission loop, the spawned turn   *)
(* tasks, and the callers that reach the slot without going through the    *)
(* loop (direct steers, injections, idle starts).                          *)
(*                                                                         *)
(* An action runs from one acquisition of a lock (or one await) to the     *)
(* next.  Longer handlers are split, and pc holds the control point of     *)
(* every actor: the submission loop, one external starter (the goal        *)
(* extension) and each turn task.  start_task,                             *)
(* maybe_start_turn_for_pending_work and try_start_turn_if_idle are        *)
(* subroutines any of them may be executing; call holds their locals.      *)
(***************************************************************************)
EXTENDS Integers

CONSTANTS
    Turn,         \* turn ids (sub_id), handed out in increasing order
    Op,           \* the requests that are made
    Workloads,    \* the sets of them that are made together, each at most once
    RouterScript  \* whether a model router script is configured

OpName == {"UserInput", "Steer", "CancelSteer", "InjectIfRunning",
           "InjectOrRecord", "QueueMail", "TriggerMail", "StageMail",
           "ReleaseMail", "StartPendingWork", "IdleStart", "Interrupt",
           "Compact", "Shell", "Review", "Shutdown"}

ASSUME TurnAssumption == Turn \subseteq Nat \ {0}

ASSUME OpAssumption == Op \subseteq [op : OpName, item : {o.item : o \in Op}]

ASSUME WorkloadAssumption == Workloads \subseteq SUBSET Op

ASSUME RouterScriptAssumption == RouterScript \in BOOLEAN

NoTurn == 0
Loop   == -1
Ext    == -2
Actor  == Turn \cup {Loop, Ext}

(* The payload of a request is one abstract item; the order of items in a  *)
(* queue is not modelled, so a queue is a set.                             *)
Item == {o.item : o \in Op}
ItemsOf(names) == {o.item : o \in {p \in Op : p.op \in names}}
UserItem    == ItemsOf({"UserInput", "Steer", "Review"})
TriggerMail == ItemsOf({"TriggerMail", "StageMail"})
QueueMail   == ItemsOf({"QueueMail"})

(* A TurnState is an Arc created by ActiveTurn::default(); it is named     *)
(* after the turn being started and the place in the code creating it.     *)
TurnStateId == Turn \X {"reserve", "attach", "install"}
NoTurnState == <<NoTurn, "none">>
NoSlot == [ts |-> NoTurnState, task |-> NoTurn, userInput |-> FALSE]

NewTurnState == [pending |-> {}, phase |-> "CurrentTurn"]

TaskKind  == {"Regular", "Review", "Compact", "Shell"}
NewTask(kind, input) ==
    [kind |-> kind, cancelled |-> FALSE, items |-> input, canDrain |-> FALSE,
     result |-> "Ok", ts |-> NoTurnState]

EventName == {"TurnStarted", "TurnComplete", "TurnAborted", "ExitedReviewMode"}

VARIABLES
    todo,      \* requests not made yet
    slot,      \* Session.active_turn; NoSlot is None
    turnState, \* pending_input and mailbox_delivery_phase of every TurnState
    mailbox,   \* InputQueue.mailbox_pending_mails
    staged,    \* InputQueue.staged_mailbox_communications
    pc,        \* control point of every actor
    call,      \* locals of the subroutine every actor is in
    abort,     \* locals of abort_all_tasks, which only the loop runs
    task,      \* RunningTask and the locals of its future, per turn
    sent,      \* how often each turn event was sent to the client
    accepted,  \* <<item, turn>>: accepted, and the turn named to the caller
    recorded,  \* <<item, turn>>: recorded in the conversation, by which turn
    discarded  \* items dropped by an abort, a blocking hook, a failed turn

queueVars == <<turnState, mailbox, staged>>
itemVars  == <<accepted, recorded, discarded>>
vars == <<todo, slot, queueVars, pc, call, abort, task, sent, itemVars>>

-----------------------------------------------------------------------------
(* Input queue (session/input_queue.rs)                                    *)

AcceptsMailbox == slot # NoSlot => turnState[slot.ts].phase = "CurrentTurn"

SlotPending == IF slot = NoSlot THEN {} ELSE turnState[slot.ts].pending

(* get_pending_input: what it returns, and what it leaves behind           *)
PendingInput == IF AcceptsMailbox THEN SlotPending \cup mailbox ELSE {}

(* Faulty variant: the input is copied, not taken.                         *)
DrainPendingInputCopies == UNCHANGED <<turnState, mailbox, staged>>

DrainPendingInput ==
    /\ mailbox' = IF AcceptsMailbox THEN {} ELSE mailbox
    /\ turnState' = IF AcceptsMailbox /\ slot # NoSlot
                    THEN [turnState EXCEPT ![slot.ts].pending = {}]
                    ELSE turnState
    /\ UNCHANGED staged

HasPendingInput == AcceptsMailbox /\ SlotPending \cup mailbox # {}

HasTriggerMail == mailbox \cap TriggerMail # {}

(* extend_pending_input_and_accept_mailbox_delivery_for_turn_state         *)
AddToSlot(item, turn) ==
    /\ turnState' = [turnState EXCEPT ![slot.ts].pending = @ \cup {item},
                                      ![slot.ts].phase = "CurrentTurn"]
    /\ accepted' = accepted \cup {<<item, turn>>}
    /\ UNCHANGED <<mailbox, staged>>

(* accept_mailbox_delivery_for_current_turn: only for the slot's own task  *)
AcceptMailbox(t) ==
    turnState' = IF slot.task = t
                 THEN [turnState EXCEPT ![slot.ts].phase = "CurrentTurn"]
                 ELSE turnState

(* defer_mailbox_delivery_to_next_turn: not over explicit same-turn work   *)
DeferMailbox(t) ==
    turnState' = IF slot.task = t /\ SlotPending \subseteq QueueMail
                 THEN [turnState EXCEPT ![slot.ts].phase = "NextTurn"]
                 ELSE turnState

-----------------------------------------------------------------------------
Goto(a, p) == pc' = [pc EXCEPT ![a] = p]
Return(a) == Goto(a, call[a].ret)
Emit(t, e) == sent' = [sent EXCEPT ![t][e] = @ + 1]

(* Requests come in any order, except that a staged message is released,   *)
(* and the session then woken, by one sender in that order.                *)
Take(o) ==
    /\ o.op = "ReleaseMail" =>
         [op |-> "StageMail", item |-> o.item] \notin todo
    /\ o.op = "StartPendingWork" => \A p \in todo : p.op # "ReleaseMail"
    /\ todo' = todo \ {o}

FreshTurn(t) == pc[t] = "unused" /\ \A u \in Turn : u < t => pc[u] # "unused"

(* A turn context is created for actor a, which goes on at p; the task     *)
(* exists only once it is installed.                                       *)
NewTurn(a, t, kind, input, p) ==
    /\ FreshTurn(t)
    /\ pc' = [pc EXCEPT ![t] = "queued", ![a] = p]
    /\ task' = [task EXCEPT ![t] = NewTask(kind, input)]
    /\ call' = [call EXCEPT ![a].turn = t]

Init ==
    /\ todo \in Workloads
    /\ slot = NoSlot
    /\ turnState = [ts \in TurnStateId |-> NewTurnState]
    /\ mailbox = {}
    /\ staged = {}
    /\ pc = [a \in Actor |-> IF a \in Turn THEN "unused" ELSE "idle"]
    /\ call = [a \in Actor |-> [ret |-> "idle", turn |-> NoTurn, items |-> {}]]
    /\ abort = [victim |-> NoTurn, ts |-> NoTurnState, reason |-> "Replaced"]
    /\ task = [t \in Turn |-> NewTask("Regular", {})]
    /\ sent = [t \in Turn |-> [e \in EventName |-> 0]]
    /\ accepted = {}
    /\ recorded = {}
    /\ discarded = {}

-----------------------------------------------------------------------------
(* Requests served outside the loop                                        *)

(* steer_input: the conditions under which the slot takes user input       *)
SteerTarget == slot.task # NoTurn /\ slot.userInput
Steerable   == SteerTarget /\ task[slot.task].kind \in {"Regular", "Shell"}

(* turn/steer of the app server names the turn it expects, so it may also  *)
(* fail with a mismatch; a failure changes nothing.                        *)
Steer(o) ==
    /\ o.op = "Steer"
    /\ Take(o)
    /\ \/ Steerable /\ AddToSlot(o.item, slot.task)
       \/ UNCHANGED <<queueVars, accepted>>
    /\ UNCHANGED <<slot, pc, call, abort, task, sent, recorded, discarded>>

(* cancel_pending_steer takes back a user input that is still pending in   *)
(* the turn that accepted it; the caller may name another turn.            *)
CancelSteer(o) ==
    /\ o.op = "CancelSteer"
    /\ Take(o)
    /\ \/ /\ slot.task # NoTurn
          /\ o.item \in SlotPending /\ <<o.item, slot.task>> \in accepted
          /\ turnState' = [turnState EXCEPT ![slot.ts].pending = @ \ {o.item}]
          /\ accepted' = accepted \ {<<o.item, slot.task>>}
       \/ UNCHANGED <<turnState, accepted>>
    /\ UNCHANGED <<slot, mailbox, staged, pc, call, abort, task, sent,
                   recorded, discarded>>

(* inject_if_running; inject_no_new_turn records what it could not inject  *)
Inject(o) ==
    /\ o.op \in {"InjectIfRunning", "InjectOrRecord"}
    /\ Take(o)
    /\ \/ slot # NoSlot /\ AddToSlot(o.item, NoTurn) /\ UNCHANGED recorded
       \/ /\ slot = NoSlot /\ o.op = "InjectOrRecord"
          /\ recorded' = recorded \cup {<<o.item, NoTurn>>}
          /\ accepted' = accepted \cup {<<o.item, NoTurn>>}
          /\ UNCHANGED queueVars
       \/ /\ slot = NoSlot /\ o.op = "InjectIfRunning"
          /\ UNCHANGED <<queueVars, accepted, recorded>>
    /\ UNCHANGED <<slot, pc, call, abort, task, sent, discarded>>

-----------------------------------------------------------------------------
(* Submission loop (session/handlers.rs): one operation at a time          *)

(* Op::UserInput steers the active turn, is refused (its settings are not  *)
(* valid, the turn cannot be steered), or goes on to start a turn.         *)
LoopUserInput(o) ==
    /\ pc[Loop] = "idle"
    /\ o.op = "UserInput"
    /\ Take(o)
    /\ \/ /\ Steerable
          /\ AddToSlot(o.item, slot.task)
          /\ UNCHANGED <<pc, call, task>>
       \/ UNCHANGED <<queueVars, accepted, pc, call, task>>
       \/ /\ ~SteerTarget
          /\ \E t \in Turn : NewTurn(Loop, t, "Regular", {o.item}, "route")
          /\ UNCHANGED <<queueVars, accepted>>
    /\ UNCHANGED <<slot, abort, sent, recorded, discarded>>

(* The turn is spawned; or the router script parks the input in a scripted *)
(* interaction, or is cancelled.                                           *)
LoopRouted ==
    LET t == call[Loop].turn IN
    /\ pc[Loop] = "route"
    /\ \/ /\ Goto(Loop, "abort:take")
          /\ abort' = [abort EXCEPT !.reason = "Replaced"]
          /\ accepted' = accepted \cup (task[t].items \X {t})
          /\ UNCHANGED task
       \/ /\ RouterScript
          /\ pc' = [pc EXCEPT ![Loop] = "idle", ![t] = "rejected"]
          /\ task' = [task EXCEPT ![t].items = {}]
          /\ UNCHANGED <<abort, accepted>>
    /\ call' = [call EXCEPT ![Loop].ret = "idle"]
    /\ UNCHANGED <<todo, slot, queueVars, sent, recorded, discarded>>

(* Op::Compact, Op::Review and Op::RunUserShellCommand spawn their task;   *)
(* a shell command beside an active task runs outside any turn and injects *)
(* its output when it ends.                                                *)
LoopSpawn(o) ==
    /\ pc[Loop] = "idle"
    /\ o.op \in TaskKind \ {"Regular"}
    /\ \/ /\ o.op # "Shell" \/ slot.task = NoTurn
          /\ Take(o)
          /\ \E t \in Turn :
               /\ FreshTurn(t)
               /\ pc' = [pc EXCEPT ![t] = "queued", ![Loop] = "abort:take"]
               /\ task' = [task EXCEPT ![t] =
                    NewTask(o.op, IF o.op = "Review" THEN {o.item} ELSE {})]
               /\ call' = [call EXCEPT ![Loop].turn = t, ![Loop].ret = "idle"]
          /\ abort' = [abort EXCEPT !.reason = "Replaced"]
       \/ /\ o.op = "Shell" /\ slot.task # NoTurn
          /\ todo' = (todo \ {o}) \cup
                       {[op |-> "InjectOrRecord", item |-> o.item]}
          /\ UNCHANGED <<pc, task, call, abort>>
    /\ UNCHANGED <<slot, queueVars, sent, itemVars>>

(* Op::InterAgentCommunication: enqueue, and wake the session if it asks.  *)
LoopMail(o) ==
    /\ pc[Loop] = "idle"
    /\ o.op \in {"QueueMail", "TriggerMail"}
    /\ Take(o)
    /\ mailbox' = mailbox \cup {o.item}
    /\ accepted' = accepted \cup {<<o.item, NoTurn>>}
    /\ Goto(Loop, IF o.op = "TriggerMail" THEN "maybe:check" ELSE "idle")
    /\ call' = [call EXCEPT ![Loop].ret = "idle"]
    /\ UNCHANGED <<slot, turnState, staged, abort, task, sent, recorded,
                   discarded>>

(* Op::StageInterAgentCommunication and Op::ReleaseInterAgentCommunication;*)
(* a released message is marked trigger_turn but starts nothing.           *)
LoopStage(o) ==
    /\ pc[Loop] = "idle"
    /\ o.op = "StageMail"
    /\ Take(o)
    /\ staged' = staged \cup {o.item}
    /\ accepted' = accepted \cup {<<o.item, NoTurn>>}
    /\ UNCHANGED <<slot, turnState, mailbox, pc, call, abort, task, sent,
                   recorded, discarded>>

LoopRelease(o) ==
    /\ pc[Loop] = "idle"
    /\ o.op = "ReleaseMail"
    /\ Take(o)
    /\ mailbox' = mailbox \cup (staged \cap {o.item})
    /\ staged' = staged \ {o.item}
    /\ UNCHANGED <<slot, turnState, pc, call, abort, task, sent, itemVars>>

LoopStartPendingWork(o) ==
    /\ pc[Loop] = "idle"
    /\ o.op = "StartPendingWork"
    /\ Take(o)
    /\ Goto(Loop, "maybe:check")
    /\ call' = [call EXCEPT ![Loop].ret = "idle"]
    /\ UNCHANGED <<slot, queueVars, abort, task, sent, itemVars>>

(* Faulty variant: shutdown ends the loop without aborting the turn.       *)
LoopInterruptShutdownFirst(o) ==
    /\ pc[Loop] = "idle"
    /\ o.op \in {"Interrupt", "Shutdown"}
    /\ Take(o)
    /\ Goto(Loop, IF o.op = "Shutdown" THEN "exited" ELSE "abort:take")
    /\ abort' = [abort EXCEPT !.reason = "Interrupted"]
    /\ UNCHANGED <<slot, queueVars, call, task, sent, itemVars>>

(* Op::Interrupt aborts the turn; Op::Shutdown does so and ends the loop.  *)
LoopInterrupt(o) ==
    /\ pc[Loop] = "idle"
    /\ o.op \in {"Interrupt", "Shutdown"}
    /\ Take(o)
    /\ Goto(Loop, "abort:take")
    /\ call' = [call EXCEPT ![Loop].ret =
                  IF o.op = "Shutdown" THEN "exited" ELSE "idle"]
    /\ abort' = [abort EXCEPT !.reason = "Interrupted"]
    /\ UNCHANGED <<slot, queueVars, task, sent, itemVars>>

-----------------------------------------------------------------------------
(* abort_all_tasks and handle_task_abort (tasks/mod.rs)                    *)

(* Faulty variant: a new turn does not abort the one in the slot.          *)
AbortTakeKeepsTask ==
    /\ pc[Loop] = "abort:take"
    /\ Goto(Loop, IF abort.reason = "Replaced" THEN "start:take"
                                               ELSE call[Loop].ret)
    /\ UNCHANGED <<todo, slot, queueVars, call, abort, task, sent, itemVars>>

(* The slot is emptied whatever it holds.  Without a task there is nothing *)
(* to abort: a replacement goes on to start its turn, an interrupt is over.*)
AbortTake ==
    /\ pc[Loop] = "abort:take"
    /\ slot' = NoSlot
    /\ abort' = [abort EXCEPT !.victim = slot.task,
                  !.ts = IF slot.task = NoTurn THEN NoTurnState ELSE slot.ts]
    /\ Goto(Loop, CASE slot.task # NoTurn -> "abort:cancel"
                    [] slot.task = NoTurn /\ abort.reason = "Replaced" ->
                         "start:take"
                    [] OTHER -> call[Loop].ret)
    /\ UNCHANGED <<todo, queueVars, call, task, sent, itemVars>>

(* A task whose token is cancelled already is given up on the spot: its    *)
(* RunningTask is dropped, and with it the task.                           *)
AbortCancel ==
    LET v == abort.victim IN
    /\ pc[Loop] = "abort:cancel"
    /\ task' = [task EXCEPT ![v].cancelled = TRUE]
    /\ pc' = IF task[v].cancelled
             THEN [pc EXCEPT ![Loop] = "abort:clear",
                             ![v] = IF @ = "done" THEN "done" ELSE "dropped"]
             ELSE [pc EXCEPT ![Loop] = "abort:kill"]
    /\ UNCHANGED <<todo, slot, queueVars, call, abort, sent, itemVars>>

(* Faulty variant: the handle is detached instead of aborted.              *)
AbortKillDetaches ==
    /\ pc[Loop] = "abort:kill"
    /\ Goto(Loop, "abort:event")
    /\ UNCHANGED <<todo, slot, queueVars, call, abort, task, sent, itemVars>>

(* Faulty variant: SessionTask::abort is not called.                       *)
AbortKillNoCleanup ==
    LET v == abort.victim IN
    /\ pc[Loop] = "abort:kill"
    /\ pc' = [pc EXCEPT ![Loop] = "abort:event",
                        ![v] = IF @ = "done" THEN "done" ELSE "killed"]
    /\ task' = [task EXCEPT ![v].items = {}]
    /\ discarded' = discarded \cup task[v].items
    /\ UNCHANGED <<todo, slot, queueVars, call, abort, sent, accepted, recorded>>

(* The grace period ends, by `done` or by the timeout, at any moment:      *)
(* handle.abort() then stops the task wherever it is.  SessionTask::abort  *)
(* leaves review mode for a review.                                        *)
AbortKill ==
    LET v == abort.victim IN
    /\ pc[Loop] = "abort:kill"
    /\ pc' = [pc EXCEPT ![Loop] = "abort:event",
                        ![v] = IF @ = "done" THEN "done" ELSE "killed"]
    /\ task' = [task EXCEPT ![v] =
                  [NewTask(@.kind, {}) EXCEPT !.cancelled = TRUE]]
    /\ discarded' = discarded \cup task[v].items
    /\ IF task[v].kind = "Review" THEN Emit(v, "ExitedReviewMode")
                                  ELSE UNCHANGED sent
    /\ UNCHANGED <<todo, slot, queueVars, call, abort, accepted, recorded>>

(* Faulty variant: TurnAborted is left to the task.                        *)
AbortEventLeftToTask ==
    /\ pc[Loop] = "abort:event"
    /\ Goto(Loop, "abort:clear")
    /\ UNCHANGED <<todo, slot, queueVars, call, abort, task, sent, itemVars>>

AbortEvent ==
    /\ pc[Loop] = "abort:event"
    /\ Emit(abort.victim, "TurnAborted")
    /\ Goto(Loop, "abort:clear")
    /\ UNCHANGED <<todo, slot, queueVars, call, abort, task, itemVars>>

(* clear_pending drops what the aborted turn had not consumed              *)
AbortClear ==
    /\ pc[Loop] = "abort:clear"
    /\ discarded' = discarded \cup turnState[abort.ts].pending
    /\ turnState' = [turnState EXCEPT ![abort.ts] = NewTurnState]
    /\ abort' = [abort EXCEPT !.victim = NoTurn, !.ts = NoTurnState]
    /\ Goto(Loop, IF abort.reason = "Replaced" THEN "start:take"
                                               ELSE "maybe:check")
    /\ UNCHANGED <<todo, slot, mailbox, staged, call, task, sent, accepted,
                   recorded>>

-----------------------------------------------------------------------------
(* maybe_start_turn_for_pending_work (tasks/mod.rs)                        *)

MaybeCheck(a) ==
    /\ pc[a] = "maybe:check"
    /\ IF HasTriggerMail THEN Goto(a, "maybe:reserve") ELSE Return(a)
    /\ UNCHANGED <<todo, slot, queueVars, call, abort, task, sent, itemVars>>

(* Faulty variant: the session is not seen to be busy.                     *)
MaybeReserveBusy(a) ==
    /\ pc[a] = "maybe:reserve"
    /\ \E t \in Turn : NewTurn(a, t, "Regular", {}, "start:take")
    /\ UNCHANGED <<todo, slot, queueVars, abort, sent, itemVars>>

MaybeReserve(a) ==
    /\ pc[a] = "maybe:reserve"
    /\ \/ slot # NoSlot /\ Return(a) /\ UNCHANGED <<slot, call, task>>
       \/ /\ slot = NoSlot
          /\ \E t \in Turn :
               /\ NewTurn(a, t, "Regular", {}, "start:take")
               /\ slot' = [NoSlot EXCEPT !.ts = <<t, "reserve">>]
    /\ UNCHANGED <<todo, queueVars, abort, sent, itemVars>>

-----------------------------------------------------------------------------
(* start_task (tasks/mod.rs)                                               *)

StartTake(a) ==
    /\ pc[a] = "start:take"
    /\ call' = [call EXCEPT ![a].items = PendingInput]
    /\ DrainPendingInput
    /\ Goto(a, "start:attach")
    /\ UNCHANGED <<todo, slot, abort, task, sent, itemVars>>

(* The first debug_assert!(turn.task.is_none()) is evaluated here; release *)
(* builds go on and give the items to whatever turn holds the slot.        *)
StartAttach(a) ==
    LET ts == IF slot = NoSlot THEN <<call[a].turn, "attach">> ELSE slot.ts IN
    /\ pc[a] = "start:attach"
    /\ slot' = [slot EXCEPT !.ts = ts]
    /\ turnState' = [turnState EXCEPT ![ts].pending = @ \cup call[a].items]
    /\ call' = [call EXCEPT ![a].items = {}]
    /\ Goto(a, "start:install")
    /\ UNCHANGED <<todo, mailbox, staged, abort, task, sent, itemVars>>

(* The second debug_assert is evaluated here; a release build overwrites   *)
(* the RunningTask in the slot, whose AbortOnDropHandle stops that task.   *)
StartInstall(a) ==
    LET t == call[a].turn IN
    /\ pc[a] = "start:install"
    /\ slot' = [ts |-> IF slot = NoSlot THEN <<t, "install">> ELSE slot.ts,
                task |-> t,
                userInput |-> task[t].items \cap UserItem # {}]
    /\ pc' = [b \in Actor |-> CASE b = a -> call[a].ret
                                [] b = t -> "begin"
                                [] b = slot.task /\ b # a -> "dropped"
                                [] OTHER -> pc[b]]
    /\ call' = [call EXCEPT ![a].turn = NoTurn]
    /\ UNCHANGED <<todo, queueVars, abort, task, sent, itemVars>>

-----------------------------------------------------------------------------
(* try_start_turn_if_idle (session/inject.rs), run by the goal extension   *)
(* on its own (Ext) or from the idle callback of a finished task.          *)

ExtIdleStart(o) ==
    /\ pc[Ext] = "idle"
    /\ o.op = "IdleStart"
    /\ Take(o)
    /\ call' = [call EXCEPT ![Ext].items = {o.item}]
    /\ Goto(Ext, "try:check")
    /\ UNCHANGED <<slot, queueVars, abort, task, sent, itemVars>>

(* Rejections: trigger mail is waiting, or the session is in Plan mode.    *)
TryCheck(a) ==
    /\ pc[a] = "try:check"
    /\ \/ ~HasTriggerMail /\ Goto(a, "try:reserve") /\ UNCHANGED call
       \/ Return(a) /\ call' = [call EXCEPT ![a].items = {}]
    /\ UNCHANGED <<todo, slot, queueVars, abort, task, sent, itemVars>>

TryReserve(a) ==
    /\ pc[a] = "try:reserve"
    /\ \/ /\ slot # NoSlot
          /\ Return(a)
          /\ call' = [call EXCEPT ![a].items = {}]
          /\ UNCHANGED <<slot, task>>
       \/ /\ slot = NoSlot
          /\ \E t \in Turn :
               /\ NewTurn(a, t, "Regular", {}, "try:recheck")
               /\ slot' = [NoSlot EXCEPT !.ts = <<t, "reserve">>]
    /\ UNCHANGED <<todo, queueVars, abort, sent, itemVars>>

(* clear_reserved_idle_turn, on every way out that keeps the input back    *)
Reserved(a) == slot.task = NoTurn /\ slot.ts = <<call[a].turn, "reserve">>

GiveUpReservation(a, p) ==
    /\ slot' = IF Reserved(a) THEN NoSlot ELSE slot
    /\ pc' = [pc EXCEPT ![a] = p, ![call[a].turn] = "rejected"]
    /\ call' = [call EXCEPT ![a].turn = NoTurn, ![a].items = {}]
    /\ UNCHANGED <<todo, queueVars, abort, task, sent, itemVars>>

(* Once reserved, and again once routed, mail that came in takes over: the *)
(* reservation is given up for maybe_start_turn_for_pending_work.  Plan    *)
(* mode, found in the new turn context, does the same.                     *)
TryRecheck(a) ==
    /\ pc[a] \in {"try:recheck", "try:routed"}
    /\ \/ /\ ~HasTriggerMail
          /\ Goto(a, IF pc[a] = "try:recheck" THEN "try:route" ELSE "try:claim")
          /\ UNCHANGED <<todo, slot, queueVars, call, abort, task, sent,
                         itemVars>>
       \/ /\ HasTriggerMail \/ pc[a] = "try:recheck"
          /\ GiveUpReservation(a, "maybe:check")

(* The router script picks a route; or it was cancelled by an abort, or    *)
(* parks the input in a scripted interaction: then the input is not used.  *)
TryRoute(a) ==
    /\ pc[a] = "try:route"
    /\ \/ /\ Goto(a, "try:routed")
          /\ UNCHANGED <<todo, slot, queueVars, call, abort, task, sent,
                         itemVars>>
       \/ RouterScript /\ GiveUpReservation(a, call[a].ret)

TryClaim(a) ==
    /\ pc[a] = "try:claim"
    /\ \/ /\ Reserved(a)
          /\ Goto(a, "try:extend")
          /\ UNCHANGED <<todo, slot, queueVars, call, abort, task, sent,
                         itemVars>>
       \/ ~Reserved(a) /\ GiveUpReservation(a, call[a].ret)

TryExtend(a) ==
    /\ pc[a] = "try:extend"
    /\ turnState' = [turnState EXCEPT ![<<call[a].turn, "reserve">>].pending =
                       @ \cup call[a].items]
    /\ accepted' = accepted \cup (call[a].items \X {NoTurn})
    /\ call' = [call EXCEPT ![a].items = {}]
    /\ Goto(a, "start:take")
    /\ UNCHANGED <<todo, slot, mailbox, staged, abort, task, sent, recorded,
                   discarded>>

-----------------------------------------------------------------------------
(* The spawned task: RegularTask::run and run_turn (tasks/regular.rs,      *)
(* session/turn.rs).  Model output, hooks and compaction are choices.      *)

(* TurnStarted; a review forwards the one of its delegate, if it comes.    *)
TaskBegin(t) ==
    /\ pc[t] = "begin"
    /\ \/ Emit(t, "TurnStarted")
       \/ task[t].kind = "Review" /\ UNCHANGED sent
    /\ Goto(t, IF task[t].kind = "Regular" THEN "prepare" ELSE "work")
    /\ UNCHANGED <<todo, slot, queueVars, call, abort, task, itemVars>>

(* Compact, review and shell tasks do not touch the queue.  A review that  *)
(* was not cancelled leaves review mode itself.                            *)
TaskWork(t) ==
    /\ pc[t] = "work"
    /\ \E r \in {"Ok", "TurnAborted"} :
         /\ r = "TurnAborted" => task[t].kind = "Compact"
         /\ task' = [task EXCEPT ![t].result = r, ![t].items = {}]
    /\ IF task[t].kind = "Review" /\ ~task[t].cancelled
       THEN Emit(t, "ExitedReviewMode") ELSE UNCHANGED sent
    /\ Goto(t, "flush")
    /\ UNCHANGED <<todo, slot, queueVars, call, abort, itemVars>>

(* run_hooks_and_record_inputs: hooks may block user items, the others are *)
(* recorded; the turn stops if no user input gets past a blocking hook.    *)
RecordInputs(t, input, next) ==
    \E blocked \in SUBSET (input \cap UserItem) :
        /\ recorded' = recorded \cup ((input \ blocked) \X {t})
        /\ discarded' = discarded \cup blocked
        /\ Goto(t, IF blocked # {} /\ (input \cap UserItem) \subseteq blocked
                   THEN "after" ELSE next)

(* run_turn up to its loop: the input of the turn is recorded; a change of *)
(* model may then need a compaction, whose failure ends the task ...       *)
TaskPrepare(t) ==
    /\ pc[t] = "prepare"
    /\ \E next \in {"drain", "flush"}, r \in {"Ok", "TurnAborted"} :
         /\ next = "drain" => r = "Ok"
         /\ RecordInputs(t, task[t].items, next)
         /\ task' = [task EXCEPT ![t].items = {}, ![t].result = r,
                                 ![t].canDrain = task[t].items = {}]
    /\ UNCHANGED <<todo, slot, queueVars, call, abort, sent, accepted>>

(* ... or the turn fails before that: startup cancelled, compaction failed *)
(* or aborted, stopped by a session start hook.                            *)
TaskPrepareFailed(t) ==
    /\ pc[t] = "prepare"
    /\ \E p \in {"after", "flush"}, r \in {"Ok", "TurnAborted"} :
         /\ p = "after" => r = "Ok"
         /\ task' = [task EXCEPT ![t].items = {}, ![t].result = r]
         /\ Goto(t, p)
    /\ discarded' = discarded \cup task[t].items
    /\ UNCHANGED <<todo, slot, queueVars, call, abort, sent, accepted, recorded>>

(* get_pending_input reads the slot as it is now: nothing checks that the  *)
(* turn in it is still this one.                                           *)
TaskDrain(t) ==
    /\ pc[t] = "drain"
    /\ IF task[t].canDrain
       THEN task' = [task EXCEPT ![t].items = PendingInput] /\ DrainPendingInput
       ELSE UNCHANGED <<task, queueVars>>
    /\ Goto(t, "record")
    /\ UNCHANGED <<todo, slot, call, abort, sent, itemVars>>

TaskRecord(t) ==
    /\ pc[t] = "record"
    /\ RecordInputs(t, task[t].items, "sample")
    /\ task' = [task EXCEPT ![t].items = {}]
    /\ UNCHANGED <<todo, slot, queueVars, call, abort, sent, accepted>>

(* A streamed tool call reopens the mailbox, a final answer closes it.     *)
TaskStream(t) ==
    /\ pc[t] = "sample"
    /\ AcceptMailbox(t) \/ DeferMailbox(t)
    /\ UNCHANGED <<todo, slot, mailbox, staged, pc, call, abort, task, sent,
                   itemVars>>

(* The model asks for a follow-up; a context roll-over before it makes     *)
(* pending input wait for the continuation of the model.                   *)
TaskFollowUp(t) ==
    /\ pc[t] = "sample"
    /\ AcceptMailbox(t)
    /\ \E rollOver \in BOOLEAN :
         task' = [task EXCEPT ![t].canDrain = ~rollOver]
    /\ Goto(t, "drain")
    /\ UNCHANGED <<todo, slot, mailbox, staged, call, abort, sent, itemVars>>

(* The model is done; only pending input makes the turn go on.             *)
TaskAnswered(t) ==
    /\ pc[t] = "sample"
    /\ task' = [task EXCEPT ![t].canDrain = TRUE]
    /\ Goto(t, IF HasPendingInput THEN "drain" ELSE "stop")
    /\ UNCHANGED <<todo, slot, queueVars, call, abort, sent, itemVars>>

(* The request fails: the turn ends with an error shown to the user, or    *)
(* with TurnAborted; an overfull context is compacted and sampled again.   *)
TaskSampleFailed(t) ==
    /\ pc[t] = "sample"
    /\ \/ \E p \in {"after", "drain"} : Goto(t, p) /\ UNCHANGED task
       \/ Goto(t, "flush") /\ task' = [task EXCEPT ![t].result = "TurnAborted"]
    /\ UNCHANGED <<todo, slot, queueVars, call, abort, sent, itemVars>>

(* Stop hooks let the turn end, or block it with a prompt of their own.    *)
TaskStop(t) ==
    /\ pc[t] = "stop"
    /\ Goto(t, "after")
    /\ UNCHANGED <<todo, slot, queueVars, call, abort, task, sent, itemVars>>

TaskStopBlocked(t) ==
    /\ pc[t] = "stop"
    /\ AcceptMailbox(t)
    /\ Goto(t, "drain")
    /\ UNCHANGED <<todo, slot, mailbox, staged, call, abort, task, sent,
                   itemVars>>

(* The loop of RegularTask::run                                            *)
TaskAfterTurn(t) ==
    /\ pc[t] = "after"
    /\ Goto(t, IF HasPendingInput THEN "prepare" ELSE "flush")
    /\ UNCHANGED <<todo, slot, queueVars, call, abort, task, sent, itemVars>>

(* After the flush of the rollout a cancelled task leaves the rest to the  *)
(* aborting side.                                                          *)
TaskCheckCancelled(t) ==
    /\ pc[t] = "flush"
    /\ Goto(t, IF task[t].cancelled THEN "done" ELSE "finish:take")
    /\ UNCHANGED <<todo, slot, queueVars, call, abort, task, sent, itemVars>>

-----------------------------------------------------------------------------
(* on_task_finished (tasks/mod.rs)                                         *)

(* Faulty variant: the TurnState is not kept.                              *)
FinishTakeForgets(t) ==
    /\ pc[t] = "finish:take"
    /\ slot' = [slot EXCEPT !.task = NoTurn]
    /\ Goto(t, IF slot.task = NoTurn THEN "done" ELSE "finish:record")
    /\ UNCHANGED <<todo, queueVars, call, abort, task, sent, itemVars>>

(* Faulty variant: a turn whose task is gone still reports its end.        *)
FinishTakeAnyway(t) ==
    /\ pc[t] = "finish:take"
    /\ slot' = [slot EXCEPT !.task = NoTurn]
    /\ task' = [task EXCEPT ![t].ts = slot.ts]
    /\ Goto(t, IF slot = NoSlot THEN "finish:event" ELSE "finish:record")
    /\ UNCHANGED <<todo, queueVars, call, abort, sent, itemVars>>

(* Takes the task out of the slot, whichever turn it belongs to.           *)
FinishTake(t) ==
    /\ pc[t] = "finish:take"
    /\ \/ slot.task = NoTurn /\ Goto(t, "done") /\ UNCHANGED <<slot, task>>
       \/ /\ slot.task # NoTurn
          /\ slot' = [slot EXCEPT !.task = NoTurn]
          /\ task' = [task EXCEPT ![t].ts = slot.ts]
          /\ Goto(t, "finish:record")
    /\ UNCHANGED <<todo, queueVars, call, abort, sent, itemVars>>

(* Faulty variant: input left over when the turn ends is ignored.          *)
FinishRecordNothing(t) ==
    /\ pc[t] = "finish:record"
    /\ Goto(t, "finish:event")
    /\ UNCHANGED <<todo, slot, queueVars, call, abort, task, sent, itemVars>>

(* Input that came too late for the model is still recorded, past hooks.   *)
FinishRecord(t) ==
    LET left == turnState[task[t].ts].pending IN
    /\ pc[t] = "finish:record"
    /\ \E blocked \in SUBSET (left \cap UserItem) :
         /\ recorded' = recorded \cup ((left \ blocked) \X {t})
         /\ discarded' = discarded \cup blocked
    /\ turnState' = [turnState EXCEPT ![task[t].ts].pending = {}]
    /\ Goto(t, "finish:event")
    /\ UNCHANGED <<todo, slot, mailbox, staged, call, abort, task, sent,
                   accepted>>

FinishEvent(t) ==
    /\ pc[t] = "finish:event"
    /\ Emit(t, IF task[t].result = "Ok" THEN "TurnComplete" ELSE "TurnAborted")
    /\ Goto(t, "finish:clear")
    /\ UNCHANGED <<todo, slot, queueVars, call, abort, task, itemVars>>

(* The slot is cleared only if it is still this turn's, and still empty.   *)
FinishClear(t) ==
    /\ pc[t] = "finish:clear"
    /\ task' = [task EXCEPT ![t] = NewTask(@.kind, {})]
    /\ \/ /\ slot.task = NoTurn /\ slot.ts = task[t].ts
          /\ slot' = NoSlot
          /\ turnState' = [turnState EXCEPT ![slot.ts] = NewTurnState]
          /\ Goto(t, "finish:idle")
       \/ /\ ~(slot.task = NoTurn /\ slot.ts = task[t].ts)
          /\ Goto(t, "done")
          /\ UNCHANGED <<slot, turnState>>
    /\ UNCHANGED <<todo, mailbox, staged, call, abort, sent, itemVars>>

(* emit_thread_idle_lifecycle_if_idle: the goal extension may continue an  *)
(* active goal; after it comes the pending-work check, whatever it did.    *)
FinishIdle(t) ==
    /\ pc[t] = "finish:idle"
    /\ \/ /\ slot = NoSlot /\ ~HasTriggerMail
          /\ \E o \in todo :
               /\ o.op = "IdleStart"
               /\ Take(o)
               /\ call' = [call EXCEPT ![t].items = {o.item},
                                       ![t].ret = "finish:wake"]
          /\ Goto(t, "try:check")
       \/ Goto(t, "finish:wake") /\ UNCHANGED <<todo, call>>
    /\ UNCHANGED <<slot, queueVars, abort, task, sent, itemVars>>

(* Faulty variant: no look at pending work after the turn.                 *)
FinishWakeSkipped(t) ==
    /\ pc[t] = "finish:wake"
    /\ Goto(t, "done")
    /\ UNCHANGED <<todo, slot, queueVars, call, abort, task, sent, itemVars>>

FinishWake(t) ==
    /\ pc[t] = "finish:wake"
    /\ Goto(t, "maybe:check")
    /\ call' = [call EXCEPT ![t].ret = "done"]
    /\ UNCHANGED <<todo, slot, queueVars, abort, task, sent, itemVars>>

-----------------------------------------------------------------------------
Request(o) ==
    \/ Steer(o) \/ CancelSteer(o) \/ Inject(o)
    \/ LoopUserInput(o) \/ LoopSpawn(o) \/ LoopMail(o) \/ LoopStage(o)
    \/ LoopRelease(o) \/ LoopStartPendingWork(o) \/ LoopInterrupt(o)
    \/ ExtIdleStart(o)

StartStep(a) ==
    \/ MaybeCheck(a) \/ MaybeReserve(a)
    \/ StartTake(a) \/ StartAttach(a) \/ StartInstall(a)
    \/ TryCheck(a) \/ TryReserve(a) \/ TryRecheck(a) \/ TryRoute(a)
    \/ TryClaim(a) \/ TryExtend(a)

LoopStep ==
    \/ LoopRouted
    \/ AbortTake \/ AbortCancel \/ AbortKill \/ AbortEvent \/ AbortClear
    \/ StartStep(Loop)

FinishStep(t) ==
    \/ FinishTake(t) \/ FinishRecord(t) \/ FinishEvent(t) \/ FinishClear(t)
    \/ FinishIdle(t) \/ FinishWake(t)

RunStep(t) ==
    \/ TaskBegin(t) \/ TaskWork(t) \/ TaskPrepare(t) \/ TaskPrepareFailed(t)
    \/ TaskDrain(t) \/ TaskRecord(t) \/ TaskStream(t) \/ TaskFollowUp(t)
    \/ TaskAnswered(t) \/ TaskSampleFailed(t) \/ TaskStop(t)
    \/ TaskStopBlocked(t) \/ TaskAfterTurn(t) \/ TaskCheckCancelled(t)

TaskStep(t) == RunStep(t) \/ FinishStep(t) \/ StartStep(t)

Next ==
    \/ \E o \in todo : Request(o)
    \/ LoopStep
    \/ StartStep(Ext)
    \/ \E t \in Turn : TaskStep(t)

Spec == Init /\ [][Next]_vars

(* Fairness.  The runtime polls every runnable task (WF).  The environment *)
(* is assumed not to stop a turn for ever: a turn that keeps being retried *)
(* gets past its preparation, the model stops asking for follow-ups, and   *)
(* stop hooks stop blocking (SF).  Requests are never promised.            *)
Fairness ==
    /\ WF_vars(LoopStep)
    /\ WF_vars(StartStep(Ext))
    /\ \A t \in Turn : /\ WF_vars(TaskStep(t))
                       /\ SF_vars(TaskPrepare(t))
                       /\ SF_vars(TaskAnswered(t))
                       /\ SF_vars(TaskStop(t))

FairSpec == Spec /\ Fairness

-----------------------------------------------------------------------------
(* Properties                                                              *)

RunPoint    == {"begin", "work", "prepare", "drain", "record", "sample",
                "stop", "after", "flush", "finish:take"}
FinishPoint == {"finish:record", "finish:event", "finish:clear"}
StartPoint  == {"start:take", "start:attach", "start:install"}
TryPoint    == {"try:recheck", "try:route", "try:routed", "try:claim",
                "try:extend"}
AbortPoint  == {"abort:cancel", "abort:kill", "abort:event", "abort:clear"}
Control ==
    {"unused", "queued", "rejected", "idle", "exited", "route", "abort:take",
     "maybe:check", "maybe:reserve", "try:check", "try:reserve",
     "finish:idle", "finish:wake", "done", "killed", "dropped"}
    \cup RunPoint \cup FinishPoint \cup StartPoint \cup TryPoint
    \cup AbortPoint

(* Types; in addition, an actor that is starting a turn knows which, and a *)
(* task past the slot knows the TurnState it took out of it.               *)
SlotType  == [ts : TurnStateId \cup {NoTurnState}, task : Turn \cup {NoTurn},
              userInput : BOOLEAN]
QueueType == [pending : SUBSET Item, phase : {"CurrentTurn", "NextTurn"}]
CallType  == [ret : {"idle", "exited", "finish:wake", "done"},
              turn : Turn \cup {NoTurn}, items : SUBSET Item]
AbortType == [victim : Turn \cup {NoTurn}, ts : TurnStateId \cup {NoTurnState},
              reason : {"Replaced", "Interrupted"}]
TaskType  == [kind : TaskKind, cancelled : BOOLEAN, items : SUBSET Item,
              canDrain : BOOLEAN, result : {"Ok", "TurnAborted"},
              ts : TurnStateId \cup {NoTurnState}]

TypeOK ==
    /\ todo \subseteq [op : OpName, item : Item]
    /\ slot \in SlotType
    /\ turnState \in [TurnStateId -> QueueType]
    /\ mailbox \in SUBSET Item
    /\ staged \in SUBSET Item
    /\ pc \in [Actor -> Control]
    /\ call \in [Actor -> CallType]
    /\ abort \in AbortType
    /\ task \in [Turn -> TaskType]
    /\ sent \in [Turn -> [EventName -> Nat]]
    /\ accepted \subseteq Item \X (Turn \cup {NoTurn})
    /\ recorded \subseteq Item \X (Turn \cup {NoTurn})
    /\ discarded \in SUBSET Item
    /\ \A a \in Actor : pc[a] \in StartPoint \cup TryPoint => call[a].turn \in Turn
    /\ slot # NoSlot => slot.ts \in TurnStateId
    /\ \A t \in Turn : pc[t] \in FinishPoint => task[t].ts \in TurnStateId

Running(t) == pc[t] \in RunPoint

(* The loop has taken turn t out of the slot and not yet reported its end. *)
Aborting(t) == abort.victim = t /\ pc[Loop] \in AbortPoint \ {"abort:clear"}

(* A task that runs is the slot's, or is being aborted; the slot's task is *)
(* running and not cancelled.  An unreachable running task could be        *)
(* neither interrupted nor steered, and its turn would never be replaced   *)
(* (abort_all_tasks, start_task, on_task_finished).                        *)
SlotHoldsRunningTask ==
    \A t \in Turn :
        /\ slot.task = t => Running(t) /\ ~task[t].cancelled
        /\ Running(t) => slot.task = t \/ Aborting(t)

(* The two debug_assert!(turn.task.is_none()) of start_task: whenever an   *)
(* actor is about to evaluate one, the slot holds no task.                 *)
DebugAssertsHold ==
    \A a \in Actor : pc[a] \in {"start:attach", "start:install"} =>
                        slot.task = NoTurn

(* The client sees one terminal event for each turn whose task is over:    *)
(* the finishing task and the aborting loop never both send it, and never  *)
(* both leave it to the other.                                             *)
Ends(t) == sent[t]["TurnComplete"] + sent[t]["TurnAborted"]

OneTerminalEvent ==
    \A t \in Turn :
        /\ Ends(t) <= 1
        /\ pc[t] \in {"done", "killed", "dropped"} /\ ~Aborting(t) => Ends(t) = 1

(* Where an accepted item may be waiting: the queues, the hands of a live  *)
(* actor, and the TurnStates somebody still holds.                         *)
ReachableTurnState ==
    {slot.ts}
    \cup {task[t].ts : t \in {u \in Turn : pc[u] = "finish:record"}}
    \cup (IF pc[Loop] \in AbortPoint THEN {abort.ts} ELSE {})

Held ==
    UNION ({mailbox, staged}
           \cup {call[a].items : a \in Actor}
           \cup {task[t].items : t \in {u \in Turn : pc[u] # "dropped"}}
           \cup {turnState[ts].pending : ts \in ReachableTurnState \ {NoTurnState}})

ItemsIn(pairs) == {p[1] : p \in pairs}

(* What was accepted from a user or an agent is recorded, still waiting    *)
(* where some actor will find it, or was dropped by an abort, a hook or a  *)
(* failed turn: no interleaving strands it in a TurnState nobody holds any *)
(* more (steer_input, get_pending_input, on_task_finished).  What is       *)
(* injected, or starts an idle session, may be stranded: it goes into a    *)
(* slot that is drained already, or reserved and given up.                 *)
NoItemLost ==
    ItemsIn(accepted) \cap (UserItem \cup TriggerMail \cup QueueMail)
        \subseteq ItemsIn(recorded) \cup discarded \cup Held

(* An item enters the conversation once, under one turn, and is then       *)
(* nowhere in the queues (get_pending_input, take_pending_input).          *)
RecordedOnce ==
    /\ \A p, q \in recorded : p[1] = q[1] => p = q
    /\ ItemsIn(recorded) \cap Held = {}

(* User input is recorded by the turn whose id steer_input returned to the *)
(* caller, although run_turn drains whatever turn is in the slot.          *)
SteeredIntoItsTurn ==
    \A p \in accepted, q \in recorded :
        p[1] = q[1] /\ p[2] # NoTurn => p[2] = q[2]

(* The client is told that review mode is over before the review turn ends,*)
(* whether the review finishes, is interrupted or is replaced              *)
(* (ReviewTask::run, ReviewTask::abort).                                   *)
ReviewModeLeft ==
    \A t \in Turn : task[t].kind = "Review" /\ Ends(t) > 0 =>
                        sent[t]["ExitedReviewMode"] > 0

(* A session with nothing left to do has no mail that asked for a turn     *)
(* (maybe_start_turn_for_pending_work).                                    *)
Quiescent ==
    /\ slot = NoSlot
    /\ pc[Loop] = "idle" /\ pc[Ext] = "idle"
    /\ \A t \in Turn : pc[t] \in {"unused", "rejected", "done", "killed", "dropped"}
    /\ \A o \in todo : o.op # "StartPendingWork"

NoStrandedMail == Quiescent => ~HasTriggerMail

(* When the loop has exited after Op::Shutdown no task is left running     *)
(* (shutdown_session_runtime).                                             *)
NoTaskAfterShutdown ==
    pc[Loop] = "exited" => \A t \in Turn : ~Running(t)

(* Mail marked trigger_turn does not stay in the mailbox.                  *)
TriggerMailConsumed == HasTriggerMail ~> ~HasTriggerMail
=============================================================================
