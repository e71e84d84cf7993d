---------------------------- MODULE AgentResidency ----------------------------
(***************************************************************************)
(* Which agents of a session are loaded.  A session keeps at most Capacity *)
(* agent threads in memory; to load one more it shuts down the one that    *)
(* was used least recently, and an agent whose turn has completed unloads  *)
(* itself.  An agent that a message is sent to is loaded again first.      *)
(* Reservations, unloads and messages run concurrently, serialised for     *)
(* each agent by a lock, and a tool call that makes them may be cancelled  *)
(* wherever it waits.                                                      *)
(*                                                                         *)
(* core/src/agent/control/residency.rs, control/spawn.rs, control.rs; the  *)
(* session of an agent is abstracted to its channel, mailbox and turn.     *)
(***************************************************************************)
EXTENDS Integers, Sequences, SequencesExt, FiniteSets

CONSTANTS
    Agents,      \* thread ids
    Calls,       \* the tool calls of other agents
    CallOf,      \* what each call does, and to which agent
    Workloads,   \* which of the calls are made together
    Capacity,    \* multi_agent_v2.max_loaded_threads_per_session
    Cancels      \* whether calls may be cancelled

None == "none"
Shutdown == "shutdown"
NoTask == <<"none", None>>

ASSUME CallAssumption ==
    /\ None \notin Agents /\ None \notin Calls /\ Shutdown \notin Calls
    /\ CallOf \in [Calls -> [op : {"spawn", "message", "followup"}, agent : Agents]]
    /\ Workloads \subseteq SUBSET Calls
    /\ \A c, d \in Calls :
          CallOf[c].op = "spawn" /\ CallOf[d] = CallOf[c] => c = d

ASSUME CapacityAssumption == Capacity \in Nat \ {0} /\ Cancels \in BOOLEAN

(* Two tasks for each call: the call itself, and the unload scheduled when *)
(* the turn that it started has completed.                                 *)
Tasks == {"call", "unload"} \X Calls
Call(c) == <<"call", c>>
Unload(c) == <<"unload", c>>
IsCall(p) == p[1] = "call"
Target(p) == CallOf[p[2]].agent
Spawns(p) == CallOf[p[2]].op = "spawn"

VARIABLES
    residents, pendingSlots,  \* V2ResidencyState
    loaded,      \* the thread manager's map
    known,       \* agents with registry metadata
    lock, gen,   \* v2_agent_io_locks, v2_agent_io_generations
    chan,        \* the submission channel of each agent's session,
    mailbox, turn, \* its mailbox and active turn,
    ended,       \* whether its status is a terminal one,
    alive,       \* and whether its loop runs
    at,          \* where each task is
    victim, left, expect, \* candidate, candidates still to scan, io generation
    sent, handled,  \* history: messages accepted, and taken by a turn
    unread,      \* history: in the channel when an unload read the generation
    abandoned    \* history: agents that a cancelled call was dealing with

residency == <<residents, pendingSlots>>
manager   == <<loaded, known>>
io        == <<lock, gen>>
sessions  == <<chan, mailbox, turn, ended, alive>>
scan      == <<victim, left, expect>>
history   == <<sent, handled, unread, abandoned>>
vars == <<residency, manager, io, sessions, at, scan, history>>

-----------------------------------------------------------------------------
(* V2Residency. *)

(* An agent is a resident once at most.                                    *)
Without(a) ==
    IF a \in Range(residents)
    THEN RemoveAt(residents, CHOOSE i \in DOMAIN residents : residents[i] = a)
    ELSE residents
Touched(a) == Append(Without(a), a)

(* The agent that is being reloaded is skipped, and moves to the back.     *)
Protected(p) == IF Spawns(p) THEN None ELSE Target(p)
Rotated(p) == IF Len(residents) > 1 /\ Head(residents) = Protected(p)
              THEN Append(Tail(residents), Head(residents)) ELSE residents

Goto(p, place) == at' = [at EXCEPT ![p] = place]
Release(p) == lock' = [a \in Agents |-> IF lock[a] = p THEN NoTask ELSE lock[a]]
Unlock(a) == lock' = [lock EXCEPT ![a] = NoTask]
Fail(p) == Goto(p, "failed") /\ Release(p)

-----------------------------------------------------------------------------
(* send_v2_inter_agent_communication to an agent that the registry knows,  *)
(* and ensure_v2_agent_loaded_locked, under the agent's lock.              *)

LockTarget(p) ==
    /\ at[p] = "begin" /\ ~Spawns(p)
    /\ Target(p) \in known
    /\ lock[Target(p)] = NoTask
    /\ lock' = [lock EXCEPT ![Target(p)] = p]
    /\ Goto(p, "ensure")
    /\ UNCHANGED <<residency, manager, gen, sessions, scan, history>>

Ensure(p) ==
    LET a == Target(p) IN
    /\ at[p] = "ensure"
    /\ IF a \in loaded
       THEN residents' = Touched(a) /\ Goto(p, "send") /\ UNCHANGED lock
       ELSE /\ UNCHANGED residents
            /\ IF a \in known THEN Goto(p, "reserve") /\ UNCHANGED lock ELSE Fail(p)
    /\ UNCHANGED <<pendingSlots, manager, gen, sessions, scan, history>>

(* spawn_agent takes no lock.                                              *)
BeginSpawn(p) ==
    /\ at[p] = "begin" /\ Spawns(p)
    /\ Goto(p, "reserve")
    /\ UNCHANGED <<residency, manager, io, sessions, scan, history>>

Reserve(p) ==
    /\ at[p] = "reserve"
    /\ IF Len(residents) + pendingSlots < Capacity
       THEN pendingSlots' = pendingSlots + 1 /\ Goto(p, "load") /\ UNCHANGED left
       ELSE Goto(p, "pop") /\ left' = [left EXCEPT ![p] = Len(residents)] /\ UNCHANGED pendingSlots
    /\ UNCHANGED <<residents, manager, io, sessions, victim, expect, history>>

(* pop_lru_candidate; AgentLimitReached when there is none left.           *)
Pop(p) ==
    /\ at[p] = "pop"
    /\ IF left[p] = 0 \/ residents \in {<<>>, <<Protected(p)>>}
       THEN Fail(p) /\ UNCHANGED <<residents, victim, left>>
       ELSE /\ residents' = Tail(Rotated(p))
            /\ victim' = [victim EXCEPT ![p] = Head(Rotated(p))]
            /\ left' = [left EXCEPT ![p] = @ - 1]
            /\ Goto(p, "look") /\ UNCHANGED lock
    /\ UNCHANGED <<pendingSlots, manager, gen, sessions, expect, history>>

Messages(a) == {chan[a][i] : i \in DOMAIN chan[a]} \ {Shutdown}

ReadGeneration(p, a) ==
    /\ expect' = [expect EXCEPT ![p] = gen[a]]
    /\ unread' = unread \cup Messages(a)

Look(p) ==
    /\ at[p] = "look"
    /\ IF victim[p] \in loaded
       THEN ReadGeneration(p, victim[p]) /\ Goto(p, "await")
       ELSE Goto(p, "reserve") /\ UNCHANGED <<expect, unread>>
    /\ UNCHANGED <<residency, manager, io, sessions, victim, left, sent, handled, abandoned>>

-----------------------------------------------------------------------------
(* try_unload_v2_agent. *)

Await(p) ==
    /\ at[p] = "await"
    /\ lock[victim[p]] = NoTask
    /\ lock' = [lock EXCEPT ![victim[p]] = p]
    /\ Goto(p, "judge")
    /\ UNCHANGED <<residency, manager, gen, sessions, scan, history>>

IsUnloadable(a) == ended[a] /\ turn[a] = None /\ mailbox[a] = {}

(* Faulty variant: a message since the generation was read is not noticed. *)
JudgeAnyway(p) ==
    LET a == victim[p] IN
    /\ at[p] = "judge"
    /\ IF a \in loaded /\ ended[a] /\ turn[a] = None
       THEN Goto(p, "stop") /\ UNCHANGED lock
       ELSE Goto(p, "touch") /\ Unlock(a)
    /\ UNCHANGED <<residency, manager, gen, sessions, scan, history>>

Judge(p) ==
    LET a == victim[p] IN
    /\ at[p] = "judge"
    /\ IF gen[a] = expect[p] /\ a \in loaded /\ IsUnloadable(a)
       THEN Goto(p, "stop") /\ UNCHANGED lock
       ELSE Goto(p, "touch") /\ Unlock(a)
    /\ UNCHANGED <<residency, manager, gen, sessions, scan, history>>

(* shutdown_and_wait.                                                      *)
Stop(p) ==
    LET a == victim[p] IN
    /\ at[p] = "stop"
    /\ chan' = IF alive[a] THEN [chan EXCEPT ![a] = Append(@, Shutdown)] ELSE chan
    /\ Goto(p, "wait")
    /\ UNCHANGED <<residency, manager, io, mailbox, turn, ended, alive, scan, history>>

Forget(p) ==
    LET a == victim[p] IN
    /\ at[p] = "wait" /\ ~alive[a]
    /\ loaded' = loaded \ {a}
    /\ residents' = Without(a)
    /\ Unlock(a)
    /\ Goto(p, IF IsCall(p) THEN "reserve" ELSE "done")
    /\ UNCHANGED <<pendingSlots, known, gen, sessions, scan, history>>

(* Faulty variant: a candidate that cannot be unloaded is left out.        *)
PutBackNot(p) ==
    /\ at[p] = "touch" /\ IsCall(p)
    /\ Goto(p, "pop")
    /\ UNCHANGED <<residency, manager, io, sessions, scan, history>>

(* Faulty variant: the scan starts again after every candidate.            *)
PutBackAndRestart(p) ==
    /\ at[p] = "touch" /\ IsCall(p)
    /\ residents' = Touched(victim[p])
    /\ Goto(p, "reserve")
    /\ UNCHANGED <<pendingSlots, manager, io, sessions, scan, history>>

(* A candidate that cannot be unloaded is a resident again, and the next   *)
(* one is tried.                                                           *)
PutBack(p) ==
    /\ at[p] = "touch" /\ IsCall(p)
    /\ residents' = Touched(victim[p])
    /\ Goto(p, "pop")
    /\ UNCHANGED <<pendingSlots, manager, io, sessions, scan, history>>

(* touch_loaded_v2_residency, without the lock.                            *)
Recheck(p) ==
    /\ at[p] = "touch" /\ ~IsCall(p)
    /\ Goto(p, IF victim[p] \in loaded THEN "retouch" ELSE "done")
    /\ UNCHANGED <<residency, manager, io, sessions, scan, history>>

Retouch(p) ==
    /\ at[p] = "retouch"
    /\ residents' = Touched(victim[p])
    /\ Goto(p, "done")
    /\ UNCHANGED <<pendingSlots, manager, io, sessions, scan, history>>

-----------------------------------------------------------------------------
(* The thread is started, the slot committed, the message sent. *)

Load(p) ==
    LET a == Target(p) IN
    /\ at[p] = "load"
    /\ loaded' = loaded \cup {a}
    /\ chan' = [chan EXCEPT ![a] = <<>>]
    /\ mailbox' = [mailbox EXCEPT ![a] = {}]
    /\ alive' = [alive EXCEPT ![a] = TRUE]
    /\ Goto(p, "commit")
    /\ UNCHANGED <<residency, known, io, turn, ended, scan, history>>

(* Faulty variant: a failed load keeps its reservation.                    *)
LoadFailsKeepsSlot(p) ==
    /\ at[p] = "load"
    /\ Fail(p)
    /\ UNCHANGED <<residency, manager, gen, sessions, scan, history>>

LoadFails(p) ==
    /\ at[p] = "load"
    /\ pendingSlots' = pendingSlots - 1
    /\ Fail(p)
    /\ UNCHANGED <<residents, manager, gen, sessions, scan, history>>

Commit(p) ==
    /\ at[p] = "commit"
    /\ pendingSlots' = pendingSlots - 1
    /\ residents' = Touched(Target(p))
    /\ known' = known \cup {Target(p)}
    /\ Goto(p, "send")
    /\ UNCHANGED <<loaded, io, sessions, scan, history>>

(* An agent that died is forgotten, one that is not loaded is not found,   *)
(* and one whose turn would exceed the limit of running agents is refused  *)
(* the message.                                                            *)
Send(p) ==
    LET a == Target(p) IN
    /\ at[p] = "send"
    /\ gen' = IF Spawns(p) THEN gen ELSE [gen EXCEPT ![a] = @ + 1]
    /\ CASE a \notin loaded -> UNCHANGED <<residents, manager, chan, sent>>
         [] a \in loaded /\ alive[a] ->
                 /\ chan' = [chan EXCEPT ![a] = Append(@, p[2])]
                 /\ sent' = sent \cup {p[2]}
                 /\ UNCHANGED <<residents, manager>>
         [] a \in loaded /\ ~alive[a] ->
                 /\ loaded' = loaded \ {a}
                 /\ residents' = Without(a)
                 /\ known' = known \ {a}
                 /\ UNCHANGED <<chan, sent>>
    /\ Release(p)
    /\ Goto(p, "done")
    /\ UNCHANGED <<pendingSlots, mailbox, turn, ended, alive, scan, handled, unread, abandoned>>

SendRefused(p) ==
    /\ at[p] = "send" /\ ~Spawns(p) /\ CallOf[p[2]].op = "followup"
    /\ turn[Target(p)] = None
    /\ gen' = [gen EXCEPT ![Target(p)] = @ + 1]
    /\ Fail(p)
    /\ UNCHANGED <<residency, manager, sessions, scan, history>>

(* ToolCallRuntime aborts the call's task: its guards are dropped.         *)
Interruptible(p) ==
    \/ at[p] \in {"begin", "ensure", "look", "await", "judge", "stop", "wait", "load", "send"}
    \/ at[p] = "commit" /\ ~Spawns(p)

(* Faulty variant: dropping the reservation releases it a second time.     *)
CancelReleasesTwice(p) ==
    /\ Cancels /\ IsCall(p) /\ Interruptible(p)
    /\ pendingSlots' = IF at[p] \in {"load", "commit", "send"} THEN pendingSlots - 1 ELSE pendingSlots
    /\ abandoned' = abandoned \cup
          (CASE at[p] \in {"look", "await", "judge", "stop", "wait"} -> {victim[p]}
             [] at[p] = "commit" -> {Target(p)}
             [] OTHER -> {})
    /\ Fail(p)
    /\ UNCHANGED <<residents, manager, gen, sessions, scan, sent, handled, unread>>

Cancel(p) ==
    /\ Cancels /\ IsCall(p) /\ Interruptible(p)
    /\ pendingSlots' = IF at[p] \in {"load", "commit"} THEN pendingSlots - 1 ELSE pendingSlots
    /\ abandoned' = abandoned \cup
          (CASE at[p] \in {"look", "await", "judge", "stop", "wait"} -> {victim[p]}
             [] at[p] = "commit" -> {Target(p)}
             [] OTHER -> {})
    /\ Fail(p)
    /\ UNCHANGED <<residents, manager, gen, sessions, scan, sent, handled, unread>>

-----------------------------------------------------------------------------
(* The session of an agent. *)

StartsTurn(c) == CallOf[c].op \in {"spawn", "followup"}

(* Op::Shutdown aborts the turn and ends the loop.                         *)
LoopStep(a) ==
    /\ alive[a] /\ chan[a] # <<>>
    /\ LET m == Head(chan[a]) IN
       IF m = Shutdown
       THEN /\ alive' = [alive EXCEPT ![a] = FALSE]
            /\ turn' = [turn EXCEPT ![a] = None]
            /\ ended' = [ended EXCEPT ![a] = FALSE]
            /\ chan' = [chan EXCEPT ![a] = <<>>]
            /\ mailbox' = [mailbox EXCEPT ![a] = {}]
       ELSE /\ chan' = [chan EXCEPT ![a] = Tail(@)]
            /\ mailbox' = [mailbox EXCEPT ![a] = @ \cup {m}]
            /\ IF StartsTurn(m) /\ turn[a] = None
               THEN turn' = [turn EXCEPT ![a] = m] /\ ended' = [ended EXCEPT ![a] = FALSE]
               ELSE UNCHANGED <<turn, ended>>
            /\ UNCHANGED alive
    /\ UNCHANGED <<residency, manager, io, at, scan, history>>

TurnTakesMail(a) ==
    /\ turn[a] # None /\ mailbox[a] # {}
    /\ handled' = handled \cup mailbox[a]
    /\ mailbox' = [mailbox EXCEPT ![a] = {}]
    /\ UNCHANGED <<residency, manager, io, chan, turn, ended, alive, at, scan, sent,
                   unread, abandoned>>

(* A turn that completes, on_task_finished, goes on to schedule an unload; *)
(* one that was interrupted does not.  Mail that asks for a turn and came  *)
(* too late starts the next one.                                           *)
TurnEnds(a) ==
    /\ turn[a] \in handled
    /\ \E completed \in BOOLEAN :
          at' = IF completed THEN [at EXCEPT ![Unload(turn[a])] = "schedule"] ELSE at
    /\ LET late == {m \in mailbox[a] : StartsTurn(m)} IN
       IF late = {}
       THEN turn' = [turn EXCEPT ![a] = None] /\ ended' = [ended EXCEPT ![a] = TRUE]
       ELSE /\ \E m \in late : turn' = [turn EXCEPT ![a] = m]
            /\ UNCHANGED ended
    /\ UNCHANGED <<residency, manager, io, chan, mailbox, alive, scan, history>>

(* schedule_terminal_v2_unload, unless the status is no longer terminal.   *)
Schedule(p) ==
    LET a == Target(p) IN
    /\ at[p] = "schedule"
    /\ IF ended[a]
       THEN /\ ReadGeneration(p, a)
            /\ victim' = [victim EXCEPT ![p] = a]
            /\ Goto(p, "await")
       ELSE Goto(p, "done") /\ UNCHANGED <<expect, unread, victim>>
    /\ UNCHANGED <<residency, manager, io, sessions, left, sent, handled, abandoned>>

-----------------------------------------------------------------------------
Init ==
    /\ residents = <<>> /\ pendingSlots = 0
    /\ loaded = {} /\ known = {}
    /\ lock = [a \in Agents |-> NoTask] /\ gen = [a \in Agents |-> 0]
    /\ chan = [a \in Agents |-> <<>>] /\ mailbox = [a \in Agents |-> {}]
    /\ turn = [a \in Agents |-> None]
    /\ ended = [a \in Agents |-> FALSE] /\ alive = [a \in Agents |-> FALSE]
    /\ \E W \in Workloads :
          at = [p \in Tasks |-> IF IsCall(p) /\ p[2] \in W THEN "begin" ELSE "off"]
    /\ victim = [p \in Tasks |-> None] /\ left = [p \in Tasks |-> 0]
    /\ expect = [p \in Tasks |-> 0]
    /\ sent = {} /\ handled = {} /\ unread = {} /\ abandoned = {}

TaskStep(p) ==
    \/ LockTarget(p) \/ Ensure(p) \/ BeginSpawn(p) \/ Reserve(p) \/ Pop(p) \/ Look(p)
    \/ Await(p) \/ Judge(p) \/ Stop(p) \/ Forget(p) \/ PutBack(p) \/ Recheck(p) \/ Retouch(p)
    \/ Load(p) \/ LoadFails(p) \/ Commit(p) \/ Send(p) \/ SendRefused(p)
    \/ Schedule(p)

SessionStep(a) == LoopStep(a) \/ TurnTakesMail(a) \/ TurnEnds(a)

(* Calls and unloads that were made have ended, and no turn runs: nothing  *)
(* is left to happen.                                                      *)
Over ==
    /\ \A p \in Tasks :
          \/ at[p] \in {"off", "done", "failed"}
          \/ at[p] = "begin" /\ ~Spawns(p) /\ Target(p) \notin known
    /\ UNCHANGED vars

Next ==
    \/ \E p \in Tasks : TaskStep(p) \/ Cancel(p)
    \/ \E a \in Agents : SessionStep(a)
    \/ Over

Spec == Init /\ [][Next]_vars

(* tokio does not idle while a task or a session's loop can go on.  A turn *)
(* may take for ever.                                                      *)
FairSpec ==
    /\ Spec
    /\ WF_vars(\E p \in Tasks : TaskStep(p))
    /\ WF_vars(\E a \in Agents : LoopStep(a))

-----------------------------------------------------------------------------
(* Properties. *)

TypeOK ==
    /\ residents \in Seq(Agents) /\ IsInjective(residents) /\ pendingSlots \in Nat
    /\ loaded \subseteq Agents /\ known \subseteq Agents
    /\ lock \in [Agents -> Tasks \cup {NoTask}] /\ gen \in [Agents -> Nat]
    /\ chan \in [Agents -> Seq(Calls \cup {Shutdown})]
    /\ mailbox \in [Agents -> SUBSET Calls]
    /\ turn \in [Agents -> Calls \cup {None}]
    /\ ended \in [Agents -> BOOLEAN] /\ alive \in [Agents -> BOOLEAN]
    /\ at \in [Tasks -> {"off", "begin", "ensure", "reserve", "pop", "look", "await", "judge",
                         "stop", "wait", "touch", "retouch", "load", "commit", "send",
                         "schedule", "done", "failed"}]
    /\ victim \in [Tasks -> Agents \cup {None}] /\ left \in [Tasks -> Nat]
    /\ expect \in [Tasks -> Nat]
    /\ sent \subseteq Calls /\ handled \subseteq Calls /\ unread \subseteq Calls
    /\ abandoned \subseteq Agents

(* pending_slots counts the reservations that are held, whoever fails or   *)
(* is cancelled.                                                           *)
SlotsBalanced == pendingSlots = Cardinality({p \in Tasks : at[p] \in {"load", "commit"}})

(* An agent that is loaded can be found by who needs its room: it is among *)
(* the residents, or a task has it in hand, unless such a task was         *)
(* cancelled.                                                              *)
InHand(a) ==
    \/ \E p \in Tasks : victim[p] = a /\ at[p] \in {"look", "await", "judge", "stop", "wait", "touch"}
    \/ \E p \in Tasks : Target(p) = a /\ at[p] = "commit"

LoadedKnown == loaded \subseteq Range(residents) \cup abandoned \cup {a \in Agents : InHand(a)}

(* A message that was accepted is with its agent until a turn takes it,    *)
(* unless it was still in the channel when an unload read the generation,  *)
(* or a call was cancelled that dealt with the agent.  (spawn_agent sends  *)
(* its first input without the lock.)                                      *)
MailKept ==
    \A c \in sent :
        \/ CallOf[c].op = "spawn" \/ CallOf[c].agent \in abandoned
        \/ c \in handled \cup unread
        \/ c \in mailbox[CallOf[c].agent] \cup Messages(CallOf[c].agent)

(* "Per-root-session cap for loaded MultiAgentV2 subagent threads".        *)
LoadedWithinCap == Cardinality(loaded) <= Capacity

(* No task waits for ever for an agent's lock, or for room: who holds the  *)
(* lock is not waiting for another that waits for it, and whoever is put   *)
(* back among the residents is not tried again without end.                *)
Begun(p) == at[p] \notin {"off", "begin", "done", "failed"}
TasksEnd == []<>(\A p \in Tasks : ~Begun(p))
=============================================================================
