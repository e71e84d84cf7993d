# Xedoc: a verification development

Xedoc is a coding agent: a session talks to a model, runs tools for it, and is
driven by user input, by messages of other agents, by extensions and by an app
server.  This directory models the parts of it where several tasks meet in
shared state, checks them with TLC and proves the most important facts about
them with TLAPS.  Source paths below are relative to `src/xedoc-rs/` unless
they start with `src/`.

## 1. Inventory

| Component | State | Operations | Correct when |
|---|---|---|---|
| Session turn lifecycle (`core/src/tasks/`, `session/inject.rs`, `session/input_queue.rs`, `state/turn.rs`) | `Session.active_turn` (the slot), the `TurnState` behind it, the mailbox, one tokio task per turn | `start_task`, `abort_all_tasks`, `handle_task_abort`, `on_task_finished`, `maybe_start_turn_for_pending_work`, `try_start_turn_if_idle`, `inject_*`, `get_pending_input`, ... | one task at a time, reachable from the slot; one terminal event per turn; no accepted input lost or doubled; waiting work wakes an idle session |
| Submission loop (`core/src/session/handlers.rs`) | the operation being handled | `Op::UserInput`, `Interrupt`, `Compact`, `Review`, `RunUserShellCommand`, `InterAgentCommunication` and its staged form, `StartPendingWork`, `Shutdown`; approvals and settings | operations in order; shutdown leaves nothing running |
| `run_turn` and the session tasks (`session/turn.rs`, `tasks/regular.rs`, `review.rs`, `compact.rs`, `user_shell.rs`) | locals of a turn (what was drained, whether the model may see it) | prepare, drain, record, sample, stop hooks, finish | every turn ends; review mode is left |
| Turn waiters (`state/turn.rs`, `session/mod.rs`) | oneshot senders for approvals, permissions, elicitations, user input | insert, answer, clear | every waiter is answered once or cancelled |
| Agent registry and control (`core-agent-registry`, `core/src/agent/control.rs`, `control/spawn.rs`, `control/legacy.rs`, `thread_manager.rs`) | agents by path or thread id, spawn counter, nickname pool; the manager's map of threads | reserve, commit, drop, release, restore, resume, close | the counter equals agents and reservations and keeps the limit; a path names one agent; a running agent can be found, but for the races of section 4 |
| Agent residency and execution limits (`core/src/agent/control/residency.rs`, `execution.rs`, `spawn.rs`, `control.rs`) | resident agents in order of use, pending slots, a lock and a generation per agent, running executions | reserve, commit, drop, touch, unload, reload, send | a reservation is released once; a loaded agent can be found and unloaded; accepted mail survives an unload; nobody waits for ever |
| Rollout recorder and thread store (`rollout`, `thread-store`) | the writer task's pending items and open file, the ordinal, the file and its compressed copy, the SQLite projection and its offset | add, persist, flush, shutdown, reopen and retry, resume, project, compress | what a flush acknowledged stays readable, once and in order; ordinals never skip or repeat while one writer has the file; the projection follows the file exactly |
| exec-server sessions (`exec-server`) | sessions and timers, the process's numbered events, remembered write ids; the client's recovery, reorder buffer and calls | start, output, exit, close, write, detach, expire, resume, read, terminate | events are published in order and as they were; a write is made once; a failed start leaves no process; a broken connection is replaced or given up |
| Unified exec process store (`core/src/unified_exec`) | at most 64 processes | spawn, write, prune, exit | the bound holds; a live process is not pruned before a dead one |
| Goal extension (`ext/goal`) | active goal, permit, accounting | continue if idle, pause, account | one continuation at a time; usage counted once |
| Scripted router and interactions (`script-protocol`, `session/handlers.rs`) | pending interactions, cancellation token | route, park, resume, expire | a parked input is resumed or cancelled once |
| App server (`app-server`) | thread state, listeners, subscriptions | subscribe, listen, unload | events reach the live listener; no unload of a busy thread |
| Remote agent (`src/remote-agent`, Python) | journal, admitted work | admit, run, replay | work is admitted once |
| Context manager, model clients, MCP, sandbox, configuration, TUI | - | data transformation, I/O, rendering | outside a state machine of this program |

How they interact.  Clients send operations to the submission loop through a
channel; the loop is the only caller of `abort_all_tasks` and
`spawn_task`.  It is not the only one to touch the slot: `turn/steer` of the
app server and auxiliary shell commands put items into it directly, the goal
extension starts turns through `try_start_turn_if_idle`, and a task that
finishes may itself start the next turn.  The slot is a
`tokio::sync::Mutex<Option<ActiveTurn>>`, locked for one look at a time, with
awaits between the looks.

A turn's tools reach other agents through agent control: spawns and resumes
reserve a slot in the AgentRegistry (or, for multi-agent v2, room among the
residents), create a thread in the manager and send it operations through its
own channel; a completed turn schedules an unload of its own agent.  Every
thread that is persisted has a recorder, whose writer task is fed by the
session through another channel, and whose file the projection and the
compression worker read and replace.  Tools that run on another machine are
processes of an exec-server, which outlive the connection they were started on.

The hard behaviours are where these meet: looks at shared state with awaits
between them, calls cancelled at an await, connections and writes that fail
half-way, timers that race answers.  The complete list, with lines, is in
`hazards` of `PROJECT.json`.

## 2. Plan

Written, in the order of the plan:

1. **TurnLifecycle**: slot, queue, loop, tasks; proofs in
   TurnLifecycleTypes, TurnLifecycleSlot and TurnLifecycleItems.
   **OneTurnAtATime** and **InputLedger** are what a client may rely on;
   **TurnContract** maps TurnLifecycle to both; TurnContractProofs proves both.
2. **AgentRegistry**: spawn slots, paths, nicknames, the threads behind them;
   proofs in AgentRegistryProofs.
3. **RolloutRecorder**: the file of a thread, its writer, failed writes,
   crashes, discarded recorders, the SQLite projection, compression; it
   implements **RolloutLog**, an append-only log with acknowledgements; proofs
   in RolloutRecorderProofs.
4. **AgentResidency**: which agents are loaded, who is unloaded for whom, and
   messages to agents that are not; proofs in AgentResidencyProofs.
5. **ExecSessions**: a process on an exec-server and the client's session of it
   across connections that break; proofs in ExecSessionsProofs.

Each component has an `MC...` module that names its small instances.  One run
covers several *workloads*: sets of requests or calls, or loads, of which `Init`
chooses one, so that what belongs together is checked under one configuration.

Next, in this order: **TurnWaiters** (the oneshot maps of TurnState against
abort and late answers, composed with the abort sequence of TurnLifecycle);
**ThreadState** (subscriptions and listener generations of the app server, the
unloading of an idle thread); **ProcessStore** (the bound of 64 processes);
**GoalContinuation** (the goal permit and its accounting); **WorkAdmission**
(the remote agent's journal).

## 3. TurnLifecycle

### State

| Variable | Code |
|---|---|
| `slot` | `Session.active_turn`: `NoSlot` is `None`; `task` is `ActiveTurn.task`, `ts` names the `Arc<TurnState>`, `userInput` is `has_user_input` |
| `turnState` | `pending_input` and `mailbox_delivery_phase` of every TurnState, also of those nobody holds any more |
| `mailbox`, `staged` | `InputQueue.mailbox_pending_mails`, `staged_mailbox_communications` |
| `pc` | where each actor is between two locks: the loop (`Loop`), the goal extension (`Ext`), each turn's task |
| `call`, `abort` | locals of `start_task` / `maybe_start_...` / `try_start_...`, which anybody may be in, and of `abort_all_tasks`, which only the loop runs |
| `task` | `RunningTask` and the locals of its future: kind, cancellation, drained items, `can_drain_pending_input`, result, the TurnState taken out of the slot |
| `sent` | how often each turn event was sent |
| `accepted`, `recorded`, `discarded` | history: what was accepted and under which turn id, what entered the conversation, what was deliberately dropped |
| `todo` | the requests of the behaviour that were not made yet |

The name of a TurnState is the pair of the turn being started and the place
that creates it (`reserve`, `attach`, `install`), which is what `Arc::ptr_eq`
tells apart.

### Actions

An action runs from one lock acquisition (or await that lets others in) to the
next; the functions that lock several times are several actions, in the order
of the code.

| Code | Actions |
|---|---|
| `steer_input`, `cancel_pending_steer`, `inject_if_running`, `inject_no_new_turn` | Steer, CancelSteer, Inject |
| `user_input_or_turn_inner` | LoopUserInput, LoopRouted |
| `run_user_shell_command`, `compact`, `review` | LoopSpawn |
| `inter_agent_communication`, stage, release, `Op::StartPendingWork` | LoopMail, LoopStage, LoopRelease, LoopStartPendingWork |
| `interrupt`, `shutdown_session_runtime` | LoopInterrupt |
| `abort_all_tasks`, `handle_task_abort` | AbortTake, AbortCancel, AbortKill, AbortEvent, AbortClear |
| `start_task` | StartTake, StartAttach, StartInstall |
| `maybe_start_turn_for_pending_work` | MaybeCheck, MaybeReserve |
| `try_start_turn_if_idle` | ExtIdleStart, TryCheck, TryReserve, TryRecheck, TryRoute, TryClaim, TryExtend |
| `RegularTask::run`, `run_turn`, `ReviewTask`, `CompactTask`, `UserShellCommandTask` | TaskBegin ... TaskCheckCancelled |
| `on_task_finished` | FinishTake, FinishRecord, FinishEvent, FinishClear, FinishIdle, FinishWake |

Abstractions.  An item is one abstract value; queues are sets, so the order of
items inside a queue is not modelled.  What the model answers, whether a hook
blocks, whether compaction or the router script gets in the way are
nondeterministic choices.  After `handle.abort()` a task takes no further
step: tokio stops it at its next await, and the code between two awaits is one
action here.  In a release build the `debug_assert!`s of `start_task` are
absent, and the model takes that build's path (the task found in the slot is
dropped); DebugAssertsHold says when they would have failed.  Definitions
marked "Faulty variant" are not part of any specification: they are the
deliberate errors with which each property was seen to fail.

### Properties

- TypeOK: types, and that an actor in `start_task` knows its turn and a
  finishing task its TurnState.
- SlotHoldsRunningTask: a running task is the slot's or is being aborted, and
  the slot's task is running and not cancelled.
- DebugAssertsHold: the two asserts of `start_task`.
- OneTerminalEvent: the finishing task and the aborting loop never both report
  a turn over, and never both leave it to the other.
- NoItemLost: what a user or another agent sent is recorded, still held by
  somebody who will look at it, or deliberately dropped.  It is not stated of
  what is injected or starts an idle session: such items may end in a slot that
  is already drained, or reserved and given up.  (The output of a shell command
  run beside a turn is lost when the turn's sweep came first.)
- RecordedOnce: an item enters the conversation once.
- SteeredIntoItsTurn: input is recorded by the turn whose id was returned,
  although `run_turn` drains "the active turn".
- ReviewModeLeft: the client hears that review mode is over before the turn is.
- NoTaskAfterShutdown: no task runs once the loop has exited.
- NoStrandedMail: a session with nothing left to do has no mail that asked for
  a turn.
- TriggerMailConsumed (liveness): mail that asks for a turn leaves the mailbox.

### Abstract specifications

TurnContract gives two refinement mappings.

- **OneTurnAtATime**: a turn waits, works, stops, is reported; no two work.
  PhaseOf reads the phase of a turn off its task, the victim of the loop's
  abort and the events sent; it does not look at the slot, so that "no two
  work" is a statement about tasks and not about how they are registered.
  TurnsOneAtATime is its safety part, TurnsEndInOrder includes its fairness:
  every turn that works is stopped and reported.
- **InputLedger**: an item is promised to a turn (or to whichever comes), and
  is then recorded once, by that turn, or dropped; its sender may take it back
  before that, and what was recorded or dropped stays so.  FateOf reads it off
  the history variables.  InputSettled includes its fairness: what was promised
  to a named turn is settled.

### Runs

A request is made at most once, in any order and at any moment, and `Turn` is
large enough that no start waits for an id.  Deadlock is not checked: requests
are finite and never promised, and a session with nothing to do stops.  No
symmetry is used: turn ids are ordered, and items have different roles.

| Run | Workloads | Turns | Shows | States |
|---|---|---|---|---|
| turns | OpUser: two user inputs, a steer, an interrupt; OpTasks: compact, review, shell, steer, shutdown; OpMail: mail that asks for a turn, mail that does not, stage, release, wake; OpIdle: idle start, injection, interrupt.  Router script | 4 | every safety property, and TurnsOneAtATime | 699 000 |
| ends | OpSteer: user input, steer, its cancellation, interrupt; OpMailAndGoal: mail that asks for a turn, idle start | 3 | under fairness, TurnsEndInOrder, InputSettled, TriggerMailConsumed | 10 000 |
| idle_user | idle start and user input | 4 | DebugAssertsHold violated | - |
| stranded_mail | user input, mail that asks for a turn, interrupt | 4 | NoStrandedMail violated | - |

Why these bounds are enough to be interesting: the races are between a turn
that ends, one that starts, and one request in the window between; a workload
lets every pair of its requests fall into every window of either turn.  What
the bounds do not reach (any number of turns and requests) is the subject of
the proofs.  `ends` has no router script: an idle start that the script gives
up leaves mail waiting until the next look, by design.

Fairness (FairSpec).  WF of the loop, of the extension's subroutine and of
each task: tokio polls every runnable task.  SF of TaskPrepare, TaskAnswered
and TaskStop: the environment does not prevent a turn for ever; a turn that is
retried again and again gets through its preparation, a model asked again and
again answers without a follow-up, a stop hook stops blocking.  Nothing in the
code bounds these three, so they are assumptions on the environment, and
TurnsEndInOrder says nothing without them.  Requests are never promised.

### Disagreements found

1. **idle_user.** An idle start checks its reservation, then awaits before and
   inside `start_task`.  `Op::UserInput` in that window takes the reserved slot
   away (`abort_all_tasks`) and installs its own task, which the idle start
   then finds: a failed `debug_assert!` in debug builds; in release builds the
   user's `RunningTask` is overwritten and its task aborted on drop without a
   terminal event.  The same window exists for trigger mail that a finishing
   task starts a turn for.
2. **stranded_mail.** Mail that asks for a turn arrives while a turn finishes;
   an interrupt that takes the then empty slot keeps both sides from looking
   at pending work.

## 4. AgentRegistry

All agents of a session tree share one `AgentRegistry`, and any of them may
spawn, resume, close or write to any other at any time.  The registry has an
atomic counter and a mutex; the manager has a map of threads behind a lock of
its own; a spawn holds neither while it creates the thread.

### State

| Variable | Code |
|---|---|
| `totalCount` | `AgentRegistry.total_count`, a `usize`; a `fetch_sub` at zero leaves UsizeMax |
| `agentTree` | `ActiveAgents.agent_tree`, keyed by path, or by thread id where there is none; an entry without an `agent_id` is a reserved path |
| `usedNicknames`, `nicknameResets` | `used_agent_nicknames`, `nickname_reset_count`; a nickname is a name and the generation it is formatted with ("Ada the 2nd") |
| `threads` | the manager's map: `running`, `dead` (stored, its loop has ended), `unloaded` (not in the map, can be resumed), `none` (never created) |
| `reservation` | path and nickname held by the `SpawnReservation` of each call |
| `pc` | where each call is between two locks or awaits |
| `strays` | history: threads started by a call that was then aborted, or while another call was forgetting them |

### Actions

| Code | Actions |
|---|---|
| `resume_agent` (its status check) | CheckStatus |
| `restore_v2_agent_metadata` | RestoreBegin, RestoreLookup |
| `reserve_spawn_slot`, `try_increment_spawned` | Reserve, Refuse |
| `prepare_thread_spawn`, `prepare_agent_metadata` | RegisterRoot, ReservePath, ReserveNoPath, PreferredNickname, FreeNickname, ResetNicknames |
| `spawn_thread_with_source`, `finalize_thread_spawn` | StartThread, FinishThread, StartFailed |
| `SpawnReservation::commit` | Commit |
| `SpawnReservation::drop` | DropPath, Uncount |
| `send_input` and the other sends, `handle_thread_request_result` | Send, ForgetThread, Release, Uncount |
| `close_agent`, `shutdown_live_agent` | Close, ForgetThread, Release, Uncount |
| the thread's own end; `remove_thread` by the app server | Die, Unload |
| `ToolCallRuntime` aborting a call at an await | Cancel |

Abstractions.  The compare-and-exchange loop is one step, the exchange that
succeeds or the load that meets the limit.  A close waits for its thread to
terminate, which is part of one action: nothing the registry holds changes
meanwhile.  A close of a tree is one close per agent.  Creating a session is the
time between StartThread and FinishThread and may fail at any moment of it; the
step `started` after that is the time of `emit_thread_resume_lifecycle` and
`restore_live_fork_hydration`, in which nothing can fail but the call can be
aborted.  Restoring agents is no tool call and is not aborted.  A new thread's
id is random and unknown before its spawn commits (Known). Resumes are limited
as the code does it; spawns with a path are limited by residency instead
(Limited), which is the subject of AgentResidency.

### Properties

- CountCoversAgents: the counter is never lower than the slots held, so no
  `fetch_sub` wraps it.
- CountExact: nor is it higher; a slot lost would lower the limit for good.
- AgentsWithinLimit: agents and spawns under way keep `agent_max_threads`,
  where all are subject to it.
- ReservedPathHeld: a reserved path is one call's, until that call commits or
  drops it.
- AgentsKeepTheirPlace: `register_spawned_thread` never overwrites an agent
  with another, although it inserts without looking.
- NicknamesDistinct: also when a role resets the pool for all others.
- RunningAreKnown: a sub-agent that runs is in the tree, or its call has just
  started it and is about to put it there, or it is a stray.

CountExact excepts sessions that add an agent without a path twice (AddedOnce;
NoSlotLost is the same without the exception, and resume_twice violates it).
Two resumes at once are one way.  The other needs no race: whoever removes a
thread from the manager leaves its entry in the registry, and a resume of that
agent reserves a slot and overwrites the entry.

The code does leave agents that run unregistered, in two ways, and
RunningAreKnown says that there is no third.  A call that is aborted after it
put the thread into the manager and before its commit drops the reservation and
leaves the thread.  A thread that is started while another call is between the
look that found its predecessor dead, or closed it, and the release of the entry
loses the entry, by then its own, to that release.  `strays` has the threads
that this happened to (Cancel, FinishThread), until they are started again in a
better way; agents that are resumed at any other time, beside closes, messages
and other resumes, must keep their entry.  No document of the repository says
what should happen in the two races, so there is no finding; both are listed as
hazards.

NicknamesDistinct is about nicknames the registry chose: one that a
stored thread brings along is taken without a look.

### Runs

Each call of a workload is made once, and steps of all of them interleave
freely; threads may die between any two steps, and any call may be aborted at
any of its awaits.  A behaviour ends when all calls
are done, so deadlock is not checked.

| Run | Workloads | Max | Shows | States |
|---|---|---|---|---|
| agents | CallSpawn: a restore and a spawn for the same path, a spawn without a path, a close of the restored agent; CallRoot: such a restore and spawn, a message to the root; CallResume: two resumes of one agent, a close of it; CallReturn: a spawn without a path, a resume and a close of the same agent; CallLimit: a spawn, two resumes; CallRevive: two resumes of one agent at a path, a spawn for it | 2 | all properties | 570 000 |
| resume_twice | CallResume | 2 | NoSlotLost violated | - |

One path, two who want it and one who releases it let every order of reserve,
commit, drop and release happen; the limit is met by three calls, and one role
has a single nickname.  UsizeMax is any number the counter cannot otherwise
reach.

### Disagreement found

**resume_twice.** Two agents resume the same closed agent.  Both find no live
thread and reserve a slot; the second gets the thread the first one started
from `spawn_thread_with_source` and its commit replaces the entry the first
one made, without giving back that entry's slot.  Two slots stand for one
agent, its release returns one, and the session can spawn one agent fewer from
then on.

## 5. AgentResidency

A session of the multi-agent v2 kind keeps a bounded number of agent threads in
memory.  To load one more, `reserve_v2_residency_slot` takes the least recently
used resident out of the list and tries to unload it; a message to an agent
that is not loaded loads it again first; an agent whose turn has completed
unloads itself.  All of this runs in the tool calls of other agents, which may
be cancelled at any await.

### State

| Variable | Code |
|---|---|
| `residents`, `pendingSlots` | `V2ResidencyState` |
| `loaded`, `known` | the manager's map of threads; agents with metadata in the registry |
| `lock`, `gen` | `v2_agent_io_locks` and `v2_agent_io_generations`, per agent |
| `chan`, `mailbox`, `turn`, `ended`, `alive` | the session of each agent, abstracted: its submission channel, its mailbox, its active turn, whether its status is terminal, whether its loop runs |
| `at` | where each task is; a task is a call, or the unload scheduled after the turn that it started |
| `victim`, `left`, `expect` | locals of a task: candidate, candidates still to scan, the generation that was read |
| `sent`, `handled`, `unread`, `abandoned` | history: messages accepted, and taken by a turn; messages that were in the channel when an unload read the generation; agents that a cancelled call was dealing with |

### Actions

| Code | Actions |
|---|---|
| `send_v2_inter_agent_communication`, `ensure_v2_agent_loaded_locked` | LockTarget, Ensure, Send, SendRefused |
| `reserve_v2_residency_slot`, `pop_lru_candidate` | Reserve, Pop, Look, PutBack |
| `try_unload_v2_agent` | Await, Judge, Stop, Forget |
| `schedule_terminal_v2_unload` | Schedule, Recheck, Retouch |
| `spawn_agent`, resuming a stored thread | BeginSpawn, Load, LoadFails, Commit |
| `ToolCallRuntime` aborting a call | Cancel: the guards are dropped, wherever the call waits |
| the agent's session | LoopStep, TurnTakesMail, TurnEnds |

Abstractions.  The limiter of running agents is a refusal that may happen to
any message that would start a turn (SendRefused).  Loads that take no lock
(the app server resuming a thread, `resume_agent`) are not modelled.
`spawn_agent` sends its first input without the lock, as in the code.

### Properties

- SlotsBalanced: `pending_slots` counts the reservations that are held, however
  calls fail or are cancelled.
- LoadedKnown: an agent that is loaded is a resident or in the hands of a task,
  so that its room can be found, unless a cancelled call dropped it.
- MailKept: an accepted message is with its agent, in channel or mailbox, until
  a turn takes it.  Two exceptions are the code's: a message that was in the
  channel when an unload read the generation (`is_unloadable` looks at the
  mailbox only) and an agent that a cancelled call was dealing with.
- TasksEnd (liveness): no task waits for ever, for a lock that is held by one
  that waits for another, or in a scan that puts back what it takes.

### Runs

| Run | Workloads | Shows | States |
|---|---|---|---|
| residency | two spawns and a task, or a message, for the first agent; a spawn, a task and a message for one agent.  Capacity 1, cancellations | SlotsBalanced, LoadedKnown, MailKept, TasksEnd | 69 000 |
| overloaded | three spawns, capacity 1 | LoadedWithinCap violated | - |

With room for one, loading either of two agents unloads the other, so every
wait, refusal and reload happens.  Deadlock is checked: a behaviour ends with
Over only when no task is left in the middle.  Fairness: WF of the tasks' steps
and of the agents' loops, taken together, because tokio does not idle while
anything can run.  A turn need not end, and no call is promised to be made.

### Disagreement found

**overloaded.** A reservation pops a candidate, which makes room for another
reservation, before it knows whether the candidate can be unloaded; if it
cannot, it is a resident again and the next candidate is tried, but the other
agent is loaded by then.  More agents are loaded than the documented cap.

## 6. RolloutRecorder

The history of a thread is a file of JSON lines.  The session sends items to a
writer task, which creates the file when it is first needed, writes, flushes
and, after a failed write, drops its handle, reopens the file and tries once
more.  A record of a paginated thread carries an ordinal; a child thread
begins with a copy of its parent's records.  The thread store projects the file
into SQLite, and a worker compresses files that nobody has written to.

### State

| Variable | Code |
|---|---|
| `inode`, `plain`, `zst` | the contents of every file of the thread ever made, and which of them `.jsonl` and `.jsonl.zst` name; a file that is unlinked keeps its contents for who holds it open |
| `up`, `queue` | the recorder is live; the channel to its writer task |
| `fd`, `deferred`, `metaDue`, `pending`, `next` | `RolloutWriterState`: `writer`, `deferred_log_file_info`, `meta`, `pending_items`, `ordinal_state` |
| `step`, `attempt`, `cmd` | where the writer task is, in which attempt, for which command |
| `old` | the writer of a discarded recorder, once the thread is resumed beside it: its file, its next ordinal, the records it has yet to write |
| `offset`, `rows` | the projection: lines consumed, items projected |
| `job` | the compression worker: where it is, the file it saw, its copy |
| `recorded`, `taken`, `acked` | history: items recorded, taken off the channel by this recorder, covered by a barrier that succeeded |
| `shared` | history: a discarded writer has appended beside its successor |

A line has its item, its ordinal, whether it is whole (parses) and whether it
ends with a newline.  An append to a line without a newline runs into it;
opening a file for append ends its last line first.

### Actions

| Code | Actions |
|---|---|
| `append_items`, `persist`, `flush`, `shutdown` | AppendItem, Request |
| `rollout_writer`, `write_pending_with_recovery` | Receive, EnsureWriterOpen, WriteItem, WrittenAll, Answer |
| failures of `open_log_file` and of a write | OpenFails, WriteFails, each followed by Recover |
| the process dies; `resume_thread` | Crash, Resume |
| `discard_thread`; its writer task, which drains its channel | Discard, and the writer's actions; after a Resume OldWrites, OldStops |
| `materialize_to_sqlite` | Project |
| `compress_rollout_if_cold_blocking` | JobStat, JobEncode, JobPersist, JobCheck, JobUnlink, JobFails |

A failed write, and a crash during one, leaves nothing, a fragment, or the
whole line without its newline.

A discarded recorder is forgotten by the store, but its writer task ends only
when its channel is empty: until then it goes on as before (`up` is FALSE, the
writer variables are in use), and when the thread is resumed meanwhile, as
`resume_thread` allows, what it has yet to write moves to `old` and is appended
beside what the new writer appends, with the ordinals that each of them counts.

Abstractions.  What reaches the disk is what was written: loss of power is not
modelled.  One process at a time writes a thread's file, and in it at most two
writers (Resume waits for an older one).  The old writer's barriers are not
followed: nobody is left to ask for them.  It may stop at any time.  A child
that is resumed is taken to have its inherited records, or to be refused.  Only
a paginated child copies records (SettingAssumption;
`core/src/session/session.rs:755`).

### Properties

- AckedReadable: what a barrier acknowledged is in the file that a reader opens.
- TakenKept: what the writer took off its channel is in the file or pending.
- OrdinalsFollow: ordinals start at 0 and follow one another; only the retry of
  one record repeats its ordinal.  It is not stated of a file that two writers
  have shared: "Writer handoff can leave duplicate or non-monotonic source
  ordinals" (`thread-store/src/local/thread_history.rs:83`), and TLC finds such
  files without the exception.
- InheritedFirst: no own record of a child precedes one that it inherits.
- ProjectionExact: the rows are the own records of the lines consumed.
- KeepsItsLog: the readable file implements **RolloutLog**, a log that only
  grows, in the order of the records unless two writers have shared it, and
  holds what was acknowledged, whichever
  file stands for it and whatever failed in between.  A complete line that lacks
  its newline is repaired and then written again by the retry: the abstract log
  allows the last record to be appended once more.

### Runs

| Run | Bounds | Shows | States |
|---|---|---|---|
| rollout | paginated, paginated child with one inherited record; 2 items, 1 command waiting, 3 files, 1 failed write, 1 crash or discard, ordinals up to 1 | all properties | 2 340 000 |
| unlinked | legacy, 1 crash, no failed write; the unlink may race | AckedReadable violated | - |

Two items are enough for an order and for a gap; one fault meets each attempt at
each line, and with a crash each resume; the largest ordinal is used up by the
second item.  Three files are the first one, a compressed one and the one made
from it (the worker does not start when there is no room for its copy). Threads
of the legacy mode, whose records have no ordinals, are in `unlinked` and in the
proofs only.  FileRaces = FALSE leaves out the step that `unlinked` is about,
and one more that no document speaks of: part of a line that one of two writers
leaves at a file which the other has open, and appends to.  Deadlock is not
checked: requests and crashes are bounded.

### Disagreement found

**unlinked.** The compression worker looks whether the file has changed and
unlinks it in a later step.  A thread that is resumed in between holds open a
file without a name: its records are acknowledged and then lost.  The worker
runs only where the feature LocalThreadStoreCompression is on, which it is not
by default.

## 7. ExecSessions

A process on an exec-server outlives its connection.  The server numbers its
output chunks, its exit and its close under a lock, and three tasks send them
after the lock is released, to whichever connection is attached then.  When a
connection breaks, the session is detached and a timer started; the client
dials again, resumes the session, reads what it missed, and goes on.  Calls
that were under way are repeated or cleaned up.

### State

| Variables | Code |
|---|---|
| `held`, `attached`, `detached`, `expired`, `timers`, `sender` | `SessionRegistry` and the session's attachment, the deadline, the expiry tasks, the notification sender |
| `proc`, `killed`, `log`, `doing`, `holding`, `open`, `chunksLeft` | `LocalProcess`: the entry, its numbered events, and what its output and exit tasks are doing with which number |
| `stdin`, `writeIds` | what was written to the process, and the ids that are remembered |
| `opened`, `up`, `served`, `net` | connections made, alive, still served by a server loop, and what is on its way on each |
| `call` | the calls the client waits for: start, clean-up, recovery, each write |
| `status`, `current`, `reading`, `recovery`, `candidate` | the client: its connection, its readers, where its recovery is and the connection that it tries |
| `registered`, `recoverable`, `published`, `pending`, `failure`, `start`, `write` | the client's session of the process: its registration, its ordered events and reorder buffer, and the outcomes that the callers saw |

### Actions

| Code | Actions |
|---|---|
| `stream_output`, `watch_exit`, `maybe_emit_closed` | Output, EndOfStream, Exit, Notify, MaybeEmitClosed, Forget |
| `SessionRegistry` | Detach, DeadlinePasses, Expire, ServeResume |
| process handlers | ServeStart, Spawned, ServeRead, ServeWrite, ServeTerminate |
| transport | Break: what was on its way arrives, or nothing of it |
| `handle_server_notification`, `insert_pending`, `publish_ready` | Receive |
| `client_recovery.rs` | ReaderEnds, StartsAreDone, Dial, Resumed, Reconcile, Terminated, Install, RecoveryBreaks, TimeOut, GiveUp |
| `start_process`, `cleanup_process_start`, `write` | Started, StartBreaks, CleanUp, CleanedUp, CleanUpBreaks, Write, Written, WriteBreaks |

Abstractions.  One process in one session.  The requests of a connection are
served one after the other and dropped with it, so a write is served in one
step.  The removal of a session and the shutdown of its process are one step.
A stream without output counts as closed.  A request on a connection that the
recovery gave up is taken as never processed.

### Properties

- EventsFaithful: what the client publishes under a number is the server's event
  of that number, whatever was lost, repeated or overtaken, unless it was a
  chunk that the server no longer retained.
- StdinOnce: a write is made once however often it is asked for, and was made if
  it was acknowledged.
- SessionHeld: a session that a connection is attached to is held, its process
  not shut down, and its events go to that connection.
- NoOrphan: a process whose start was reported as failed is not left running.
- NeverStuck: unless the client has a connection or has given up, and a session
  ends with its process, one of the two programs has an enabled step, even if
  the process does nothing more.  This is stated with ENABLED instead of a
  fairness condition, and is not eventual progress: what it rules out is that
  recovery, start and clean-up wait for one another.

### Runs

| Run | Loads | Shows | States |
|---|---|---|---|
| exec | one chunk with room for it; one chunk with nothing retained and no room; two writes; timers with three connections | all properties | 735 000 |
| misplaced | two chunks, one retained | PublishedInOrder violated | - |

One chunk, the exit and the close are three numbers, enough for every order; all
chunks are of stdout, so that two of the three tasks send them; a second
connection lets the break fall on every step of the first, a third on every step
of the recovery.  TimeOut needs no timer once the connections are used up, so
that the bound on connections is not itself a deadlock.  Deadlock as such is not
checked: a client that is settled may stop.

### Disagreement found

**misplaced.** When the server no longer retains all that was missed,
`recover_events` takes the gap before the first retained chunk for the exit and
publishes the exit there.  Its own number is then missing at the end, and since
the exit counts as known by then (`exit_known`) the recovery returns a gap error
(`client_recovery.rs:179`): the session fails, as it should, but the client has
been given the exit in the place of output that preceded it.

## 8. Proofs

**TurnLifecycleTypes** proves `Spec => []TypeInv` (TypeInvariance) and
`Spec => []TypeOK` (TypeCorrect), from the assumptions on the constants alone:
turn ids are positive numbers, requests are records of a name and an item.
TypeInv is TypeOK per variable, strengthened by what each actor knows: the
loop in an abort knows its victim and its TurnState (LoopKnows), whoever starts
a turn knows it (StartKnows), a finishing task knows the TurnState it took
(FinishKnows).  There is one lemma per action.

**TurnLifecycleSlot** proves, for sessions in which only the loop starts turns
(LoopStartsAlone: no mail that asks for a turn, no idle start),

- `Spec => []SlotHoldsRunningTask` (SlotHoldsTheRunningTask),
- `Spec => []DebugAssertsHold` (AssertsHoldForTheLoop),
- `Spec => []OneTerminalEvent` (TurnsEndOnce),
- `Spec => []NoTaskAfterShutdown` (ShutdownStopsTheTask).

The assumption is necessary: with an idle start beside user input the asserts can
fail (run idle_user).  None of the four is inductive.  LoopInv strengthens them
with the reasons they hold: nobody but the loop is in `start_task`
(OthersDoNotStart, which itself needs that no trigger mail exists); the turn
the loop is about to start waits untouched (NextTurnWaits); while the loop
aborts or starts, the slot has no task, because only the loop could put one
there, and the victim goes from running to stopped (LoopOwnsSlot); the victim
is not cancelled yet, so `handle_task_abort` does not return early
(VictimNotCancelled); and the number of terminal events of a turn is a
function of where its task and the loop are (EndsOnce).  The key step is
FinishTake: the code takes whichever task the slot holds, and it is the
finisher's own because a running task is the slot's task or the victim of an
abort, during which the slot is empty.

**TurnLifecycleItems** proves, for any turns, requests and workloads,

- `Spec => []ReviewModeLeft` (ReviewsAreLeft), without a condition.  ReviewInv:
  a review that is past its work without having been cancelled, that has been
  stopped by the loop, or that is over has told the client that it left
  (MustHaveLeft), and a turn nobody has started is nobody's victim.
- `Spec => []RecordedOnce` (ItemsAreRecordedOnce), where every item is brought by
  one request (ItemsBroughtOnce).  OnePlace: an item is in one place at a time,
  of all the queues, hands, TurnStates and records there are; every action moves
  items from a place they leave, because `get_pending_input` and
  `take_pending_input` take what they return.
- `Spec => []SteeredIntoItsTurn` (InputIsSteeredIntoItsTurn), where in addition
  the loop starts every turn.  OwnStates: the TurnState in the slot, in the hands
  of a finishing task and of an aborting loop is the turn's own, the one that
  `start_task` attached.  SteerInv: an item accepted for a turn is in the hands,
  the TurnState or the records of that turn and nobody else's.
- `Spec => []NoItemLost` (AcceptedInputIsKept), where in addition injected items
  are told apart from what users and agents send (InjectedApart), since an
  injected item may be stranded.  HandsInv: who may hold items, and when.
  NewsInv: what is accepted, so that the items a review drops, or a turn that was
  never spawned, are nobody's loss.  LateInv: once the finishing task has swept
  its TurnState nothing that matters is added to it, because the slot has no
  task any more and only injections go to a slot without one.  KeptInv: what was
  accepted is recorded, dropped on purpose, or in a TurnState that the slot, the
  finishing task or the aborting loop still holds; each of the steps by which one
  of them lets go of a TurnState hands it to the next or empties it.
- `Spec => []NoStrandedMail` (TriggerMailIsSeen), with trigger mail, idle starts
  and user input racing, but for workloads that satisfy MailIsFollowed: whoever
  releases staged mail wakes the session afterwards, no interrupt comes with
  mail, and no idle start with mail where a router script is configured.  The
  last two are what the code needs: run stranded_mail shows an interrupt that
  empties the slot of a finishing turn, on which others had relied to look, and
  the way out of `try_start_turn_if_idle` through a router that keeps the input
  gives a reservation up without another look.  MailWatched is the invariant: as
  long as such mail waits, the slot is taken, or an actor is at a point from
  which it will run `maybe_start_turn_for_pending_work` or take the slot, or the
  request to wake the session is still to come (Watched).  What makes each
  step keep it: the owner of a slot never lets go of it except towards such a
  point (`on_task_finished` through FinishIdle and FinishWake, an abort through
  its replacement or its own check, an idle start through TryRecheck); a turn
  that tries an idle start comes back to FinishWake (Returns); a reservation that
  is given up takes nobody else's turn with it (TurnsApart); only a request adds
  to the mailbox (Unasked, OtherRequests).

ItemsBroughtOnce and InjectedApart say that items tell requests apart, as the
instances of TLC do; the instance of run turns satisfies MailIsFollowed.
LoopStartsAlone is a real restriction: with trigger mail or idle starts a
finished task or the goal extension may start a turn as well.  Sessions in which
*every* start is of that kind are the other half, below; where both kinds meet,
the properties of the slot can fail (run idle_user).

**TurnContractProofs** proves the two refinements, and the properties of the slot
in the other half of the sessions.

*One turn at a time.*  Where the loop starts every turn,
`Spec => TurnsOneAtATime` (OneTurnWorks): the lifecycle implements
OneTurnAtATime.  Under LoopInv the phase of a turn is a function of its control
point and of whether the loop is aborting it (PhaseByPoint).  Every action is
then judged by what it does to these two: StartInstall begins a turn, which needs
that no other works, and it is the empty slot of LoopOwnsSlot that says so;
AbortTake and FinishTake stop one; AbortEvent and FinishEvent report one; the
other actions change no phase.

*Reserved sessions.*  StartsReserve describes a session that only the mail of
other agents, its goal and injections drive, as a sub-agent's does: no user
input, no other kind of task, no interrupt (OpMail and OpMailAndGoal are such
workloads).  The loop, the goal extension and every finished task may start a
turn there, but each reserves the slot first.  Then

- `[]SlotHoldsRunningTask` (ReservedSlotHoldsTheTask),
- `[]DebugAssertsHold` (ReservedAssertsHold),
- `[]OneTerminalEvent` (ReservedTurnsEndOnce),
- `TurnsOneAtATime` (ReservedTurnsWork),
- `[]NoItemLost` (ReservedMailIsKept), where ItemsBroughtOnce and InjectedApart.

ReservedInv shows that the slot is a lock: at most one actor is between its
reservation and the end of its start, and the slot is reserved for its turn
(StarterHoldsSlot); a task that runs, or has left the slot and not yet cleared
it, has the TurnState that was reserved for it (TaskHoldsSlot); a turn has ended
when its task is past the event (EndsAfter).  Who finds the slot free knows that
nobody starts, runs or finishes a turn (FreeSlot).  ReservedKept adds, for mail,
that a TurnState with some of it is the slot's and that a starter, a task or a
finishing task still has that slot (PreciousInSlot, KeepsSlot): a reservation is
given up by `clear_reserved_idle_turn` only before anything was put in it, and
`on_task_finished` empties the TurnState before it clears the slot.

*The ledger.*  In sessions of either kind `Spec => Ledger!Spec`
(LoopKeepsLedger, ReservedKeepsLedger, the safety of InputLedger), where every
item is brought by one request: what is accepted is promised to one turn or to
any, recorded once, by the turn it was promised to, or dropped, and taken back
only before.  TicketInv is the invariant: for every place there is (of
OnePlace), whether an item in it was accepted (Unaccepted: requests not made,
the hands of an idle start not decided yet, the input of a turn not spawned yet)
and to which turns it may be promised there (PromisedTo).  A step moves items to
one place only (Arrive), leaves the meaning of the others (Settled), and what it
moves carries its promise along (Carries); the lemmas TicketsMoved and
ItemsSettled turn that into a step of the ledger, once for all actions.  The two
kinds of session meet in Orderly, which is all that the actions need to know of
them.  In reserved sessions no turn has user input, so `steer_input` accepts
none and the promises are to any turn.

**AgentRegistryProofs** proves, for any sets of threads, paths, names and
calls and any limit, and without a condition on which calls race beyond those
that the properties state,

- `Spec => []CountCoversAgents` (CounterNeverWraps),
- `Spec => []AgentsWithinLimit` (LimitIsKept),
- `Spec => []ReservedPathHeld` (PathsAreHeld),
- `Spec => []NicknamesDistinct` (NicknamesStayDistinct),
- `Spec => AgentsKeepTheirPlace` (PlacesAreKept),
- `Spec => []TypeOK` (RegistryTyped),
- `Spec => []CountExact` (NoSlotIsLost),
- `Spec => []RunningAreKnown` (RunningAgentsAreKnown).

The counter needs that entries without an agent are not counted by anybody
and that a call which prepares a thread holds a slot (TypeInv, CountInv).  The
induction is over two finite sets, the calls that hold a slot (Holding) and
the entries that have an agent (Counted): a reservation adds to the first, a
commit moves one element from the first to the second, or, where it overwrites,
leaves the second alone, and a release moves one back.  That is why the theorem
is an inequality.  AgentsWithinLimit follows from it and the bound on the
counter itself.  Paths need in addition that what a reservation holds is
determined by where its call is (PathFollowsStep).  From that PlacesAreKept
follows: a commit writes into the entry its own reservation left without an
agent, and an agent without a path has an entry of its own (OwnEntries).
Nicknames carry the generation of the pool they were drawn from: every nickname
that a call or an agent has was given out by the registry, which knows it as used
if it is of the generation in use (NamesGiven), so that the next one is nobody's.

NoSlotIsLost turns the inequality into an equation.  What it takes is that a
commit never overwrites an agent (CommitsToNobody): with a path it writes into
its own reservation, and an agent in the entry of a thread was put there by a
call for that thread which is past its commit (Entered), of which AddedOnce
leaves but one.  RunningAgentsAreKnown follows an agent from the step that
makes it run (RunsFrom: only FinishThread does) to the commit that enters it,
which either follows or was aborted, and from there to the release that removes
the entry (EntriesGo: only Release does).  A call comes to forget a thread only
when it does not run (ForgetsTheDead), so one that runs while a call is between
that and the release was started meanwhile, and is a stray (ForgottenAreStray);
and a stray that runs stays one (StraysStay).

**ExecSessionsProofs** proves, for any writes, loads and connections,

- `Spec => []SessionHeld` (AttachedSessionsAreHeld).  SessionInv adds that an
  attached session has no deadline and that a shut-down process was closed or
  its session given up, which Expire and ServeResume keep because both look at
  who is attached in the step that removes the session.
- `Spec => []NoOrphan` (FailedStartsLeaveNothing).  StartInv follows a start
  from the request to the answer of its clean-up: as long as the start may
  still be served, or its process run, the client has not reported a failure
  without having asked for the process to be terminated.
- `Spec => []StdinOnce` (WritesAreMadeOnce), where no more writes are made than
  ids are remembered (AllRemembered).  WriteInv: the writes made are the ids
  remembered, each once, and an answer that says "ok" is about one of them.
- `Spec => []EventsFaithful` (EventsAreFaithful) and `Spec => []TypeOK`
  (SessionsTyped).  Three facts carry it.  A close is the last event there will
  ever be (TasksInv: whoever emits something after it would have found its
  stream open or its exit unwatched).  A number on a connection, in a task's
  hand or in the answer to a read is that of an event that happened (Numbers).
  And every session the client's operators pass from one to the next is Fine:
  it knows, published or kept, only what the server numbered, or an exit where a
  chunk was that the server lost.  Insert, PublishReady, TakeChunk, TakeChunks
  and Recovered each turn a Fine session into one (InsertFine, PublishReadyFine,
  TakeChunkFine, TakeChunksFine, RecoveredFine).  The case that matters is the
  guess of `recover_events`: the number it gives the exit is not that of the
  close, which is last, nor that of a chunk that was read, which it has already;
  so it is the exit's, or that of an evicted chunk (MissingIsExit), and an
  evicted chunk stays so (EvictedForEver).
- `Spec => []PublishedInOrder` (RetainedOutputIsInOrder), where the server
  retains all output (OutputIsRetained): then nothing is evicted (OutputInv
  counts the chunks), and what run misplaced finds cannot happen.

**AgentResidencyProofs** proves, for any agents, calls, workloads and capacity,
with or without cancellations,

- `Spec => []SlotsBalanced` (ReservationsAreCounted).  SlotInv counts the
  finite set of tasks that hold a reservation; every action adds one task,
  removes one, or leaves the set alone.
- `Spec => []TypeOK` (ResidencyTyped), which includes that no agent is a
  resident twice (WithoutFacts, TouchedFacts and PoppedFacts are the lemmas
  about the list).
- `Spec => []LoadedKnown` (LoadedAgentsAreFound).  FoundInv says it of calls
  only: a call that pops an agent has it in hand until it puts it back, forgets
  it or is cancelled; an unload after a turn leaves its agent in the list.

The second half of **AgentResidencyProofs** proves, as generally,
`Spec => []MailKept` (AcceptedMailIsKept).  Whoever unloads an agent looks
twice, at the generation and, later, under the agent's lock, and tells the
session to shut down later still, so four facts carry it from one look to the
next.  LockInv: from LockTarget to its end a message holds its agent's lock,
and an unload holds its candidate's while it judges, stops and waits; a tool
call that does both never has its own agent as the candidate.  LoadInv: who is
about to load an agent has found it missing, and it is still missing, so that
Load never replaces a session that holds mail; it rests on an agent being
created by one spawn and not known before.  SessionsInv: a session that is not
loaded holds nothing.  MailInv: as long as the generation is the one that was
read, nothing but first inputs has arrived (JudgedInv); an agent that is told
to shut down holds nothing that must be kept (StopInv); and while it shuts
down, the task that told it to still holds its lock (ShutInv), unless that task
was a call which was cancelled.

**RolloutRecorderProofs** proves, for any threads, numbers of items, failed
writes, crashes, discarded recorders and compressions, where no recorder meets
an unlink, or another writer's torn line, at the file it has open (~FileRaces;
run unlinked shows that it is needed),

- `Spec => []AckedReadable` (AcknowledgedIsReadable),
- `Spec => []TakenKept` (NothingTakenIsLost),
- `Spec => []TypeOK` (RecorderTyped),
- `Spec => []OrdinalsFollow` (OrdinalsAreInOrder),
- `Spec => []InheritedFirst` (InheritedComesFirst),
- `Spec => []ProjectionExact` (ProjectionIsExact),
- `Spec => KeepsItsLog` (RecorderIsALog), that it implements RolloutLog.

WriterInv says that the writer appends to the file a reader opens, and at the
end of a line: a write that left part of a line gives up its file handle, and
opening the file again ends the line (LineAppended and LineRepaired are what
that preserves).  HandInv, a part of it, says that the writer of a discarded
recorder has the same file, so that what it appends (OldWritesWell) only adds to
it.  JobInv says that the worker's copy holds whatever it saw of
the file, so that the copy may stand for it while it has not changed.  Together
they give ReadableMoves: to a reader, a step leaves the lines as they are, up to
whether the last one is ended, or appends one, its own or the discarded writer's
(Sharing).  AckedReadable and TakenKept
(KeptInv) follow; the latter is kept, beyond the life of the recorder, as long as
its writer is at work (Alive).

The records are what OrdinalsFollow and InheritedFirst are about.  StepIsOneOf
reduces every action to what it does to them and to the items on their way
(Coming: pending or in the channel): nothing, an item more on its way, an item
written, an item written that stays due because its write failed, the end of a
life, a resume, a record of the discarded writer (Shares).  A discard alone is
none of these: the writer goes on, and its life ends when it is through.
OrderInv: what is on its way is in order, and was made.  LogInv: it was made
after what is written, and as long as the metadata is due nothing else is
written, unless two writers shared the file, like the next.  NumberInv: the next
ordinal is the one after the last record's, unless the item of that record is
still due, and then the same (NextInv); it is what makes a record that was
written twice keep its number.  FirstInv: while a child has not all that it
inherits it is in its first life, has one writer, and the ordinal of each record
is the number of its item, because the metadata is record 0 and the items are
copied in order; so that the test of the ordinals on resume, which the code
makes, is a test of the items, which the property is about.  ProjInv adds that
the offset never passes the file; the lines before it stay as they were.

The model's operators on lines select by a set of indexes (Nth, Selected).  What
the proofs need of them, that Nth enumerates a set and that a selection from two
parts of a file is the one selection after the other, is proved in the first
section from the well-foundedness of the naturals (NatSet).  The library's own
SelectSeq is recursive, and induction over its definition is out of the
provers' reach: that is why the model does not use it.

Only model-checked: the slot, the contracts and the fate of items in sessions
that mix user input or interrupts with trigger mail or idle starts, where the
asserts of `start_task` can fail and what holds depends on who races;
NeverStuck, whose statement has ENABLED; the rollout where a recorder may meet
an unlink, or another writer's torn line; and liveness, the fair contracts of
turns and items included (the prover has no rule for fairness and ENABLED).

## 9. Not modelled

Within the lifecycle: the waiters of TurnState, the automatic continuation
after a usage limit (to the session one more sender of user input), scripted
interactions after they are parked, token and metric accounting, the prewarmed
client.  Around the registry: the listing of agents, the activity timers, the
completion watcher, the persisted spawn edges.  Around residency: loads that
take no lock, the limiter of running agents, which only limits.  Around the
rollout: `append_rollout_item_to_path` (a metadata record for a thread without a
recorder), loss of power, two processes that write one file, archiving, listing
and searching, the in-memory store.  Around exec-server sessions: file-system
requests, HTTP bodies, signals, long-poll reads, the shutdown of the server,
the relay transports and connections without recovery.

The components marked `not_modelled` in `PROJECT.json`: turn waiters, the
process store, the goal extension, the app server's thread state and the remote
agent are named in section 2; they keep state of their own and meet the
modelled parts only through operations that the runs already interleave.  The
others (model clients, MCP, sandboxing, configuration, user interface, context
management) are I/O, data transformation or enforcement by the operating
system, and most of the repository's lines are theirs.
