----------------------------- MODULE AgentRegistry -----------------------------
(***************************************************************************)
(* The registry that all agents of a session tree share, and the calls     *)
(* that race in it: spawns, resumes and restores reserve a slot of the     *)
(* spawn counter, a path and a nickname, start a thread and commit; closes *)
(* and messages to agents that died release what was committed.  Every     *)
(* lock of the registry or of the thread manager's map, and every atomic   *)
(* operation on the counter, is an action of its own.                      *)
(*                                                                         *)
(* core-agent-registry/src/registry.rs, core/src/agent/control.rs and      *)
(* control/spawn.rs, control/legacy.rs, core/src/thread_manager.rs.        *)
(***************************************************************************)
EXTENDS Integers, FiniteSets

CONSTANTS
    Thread,        \* thread ids; the key of an agent without a path
    Path,          \* agent paths
    RootPath,      \* AgentPath::ROOT
    RootThread,    \* the thread that registers itself as the root
    Name,          \* nickname candidates
    Call,          \* the calls that are made
    Workloads,     \* the sets of them that are made together, each once
    Max,           \* agent_max_threads
    UsizeMax,      \* what fetch_sub leaves of a counter at zero
    NoThread, NoPath, NoNickname

(* A nickname of the n-th pool is "Ada", "Ada the 2nd", "Ada the 3rd" ...  *)
Nickname == Name \X Nat

(* by tells calls of the same operation on the same thread apart; names    *)
(* are the candidates of the agent's role, which has at least one; prefers *)
(* is the nickname that a resumed or restored thread had.                  *)
CallRecord ==
    [op : {"Spawn", "Resume", "Restore", "Message", "Close"}, by : Nat,
     thread : Thread, path : Path \cup {NoPath}, names : (SUBSET Name) \ {{}},
     prefers : Nickname \cup {NoNickname}]

ASSUME NullAssumption ==
    /\ NoThread \notin Thread
    /\ NoPath \notin Path
    /\ NoNickname \notin Nickname

ASSUME KeyAssumption ==
    /\ IsFiniteSet(Thread) /\ IsFiniteSet(Path)
    /\ Thread \cap Path = {}
    /\ RootPath \in Path /\ RootThread \in Thread

(* A spawn creates a thread that has never existed.                        *)
ASSUME CallAssumption ==
    /\ IsFiniteSet(Call)
    /\ Call \subseteq CallRecord
    /\ \A c \in Call : c.path # RootPath
    /\ \A c \in Call : c.op \in {"Spawn", "Resume", "Restore"} => c.thread # RootThread
    /\ \A c, d \in Call :
         c.op = "Spawn" /\ d.op = "Spawn" /\ c.thread = d.thread => c = d

ASSUME WorkloadAssumption == Workloads \subseteq SUBSET Call

ASSUME LimitAssumption == Max \in Nat /\ UsizeMax \in Nat /\ Max <= UsizeMax

VARIABLES
    totalCount,     \* AgentRegistry.total_count
    agentTree,      \* ActiveAgents.agent_tree
    usedNicknames,  \* ActiveAgents.used_agent_nicknames
    nicknameResets, \* ActiveAgents.nickname_reset_count
    threads,        \* the manager's map, and which threads were ever stored
    pc,             \* where each call is
    reservation,    \* what the SpawnReservation of each call holds
    strays          \* history: threads that nobody need know (see Cancel, FinishThread)

registry == <<totalCount, agentTree, usedNicknames, nicknameResets>>
vars     == <<totalCount, agentTree, usedNicknames, nicknameResets, threads, pc,
              reservation, strays>>

Key == Thread \cup Path

(* AgentMetadata: its agent_path is known from the key.                    *)
Vacant == [present |-> FALSE, id |-> NoThread, nickname |-> NoNickname]
Agent(t, n) == [present |-> TRUE, id |-> t, nickname |-> n]

KeyOf(c) == IF c.path = NoPath THEN c.thread ELSE c.path

(* Spawns with a path are limited by residency instead.                    *)
Limited(c) == c.op = "Resume" \/ (c.op = "Spawn" /\ c.path = NoPath)

FirstStep(c) == CASE c.op = "Spawn"   -> "reserve"
                  [] c.op = "Resume"  -> "status"
                  [] c.op = "Restore" -> "restore"
                  [] c.op = "Message" -> "send"
                  [] c.op = "Close"   -> "close"

Spawned(t) == \E c \in Call : c.op = "Spawn" /\ c.thread = t

Init ==
    /\ totalCount = 0
    /\ agentTree = [k \in Key |-> Vacant]
    /\ usedNicknames = {}
    /\ nicknameResets = 0
    /\ threads = [t \in Thread |-> CASE t = RootThread -> "running"
                                     [] Spawned(t)     -> "none"
                                     [] OTHER          -> "unloaded"]
    /\ \E W \in Workloads :
          pc = [c \in Call |-> IF c \in W THEN FirstStep(c) ELSE "off"]
    /\ reservation = [c \in Call |-> [path |-> NoPath, nickname |-> NoNickname]]
    /\ strays = {}

Goto(c, step) == pc' = [pc EXCEPT ![c] = step]

Made(c) == pc[c] # "off"

(* The id of a new thread is nobody's to use before its spawn commits.     *)
Known(t) ==
    /\ threads[t] # "none"
    /\ \A c \in Call : c.op = "Spawn" /\ c.thread = t => pc[c] # "started"

-----------------------------------------------------------------------------
(* Before a reservation.                                                   *)

(* resume_agent goes on only for an agent it does not find.                *)
CheckStatus(c) ==
    /\ pc[c] = "status"
    /\ Known(c.thread)
    /\ Goto(c, IF threads[c.thread] = "unloaded" THEN "reserve" ELSE "done")
    /\ UNCHANGED <<registry, threads, reservation, strays>>

RootRegistered ==
    IF agentTree[RootPath].present THEN agentTree
    ELSE [agentTree EXCEPT ![RootPath] = Agent(RootThread, NoNickname)]

RestoreBegin(c) ==
    /\ pc[c] = "restore"
    /\ agentTree' = RootRegistered
    /\ Goto(c, "lookup")
    /\ UNCHANGED <<totalCount, usedNicknames, nicknameResets, threads, reservation, strays>>

HasAgent(t) == \E k \in Key : agentTree[k].id = t

RestoreLookup(c) ==
    /\ pc[c] = "lookup"
    /\ Goto(c, IF HasAgent(c.thread) THEN "done" ELSE "reserve")
    /\ UNCHANGED <<registry, threads, reservation, strays>>

-----------------------------------------------------------------------------
(* The life of a SpawnReservation.                                         *)

(* Faulty variant: the limit is compared with the count it already has.    *)
ReserveOneMore(c) ==
    /\ pc[c] = "reserve"
    /\ Limited(c) => totalCount <= Max
    /\ totalCount' = totalCount + 1
    /\ Goto(c, IF c.op = "Restore" THEN "path" ELSE "root")
    /\ UNCHANGED <<agentTree, usedNicknames, nicknameResets, threads, reservation, strays>>

(* The compare-and-exchange loop of try_increment_spawned is one step: it  *)
(* ends with the exchange that succeeds, or the load that meets the limit. *)
Reserve(c) ==
    /\ pc[c] = "reserve"
    /\ Limited(c) => totalCount < Max
    /\ totalCount' = totalCount + 1
    /\ Goto(c, IF c.op = "Restore" THEN "path" ELSE "root")
    /\ UNCHANGED <<agentTree, usedNicknames, nicknameResets, threads, reservation, strays>>

Refuse(c) ==
    /\ pc[c] = "reserve"
    /\ Limited(c)
    /\ totalCount >= Max
    /\ Goto(c, "refused")
    /\ UNCHANGED <<registry, threads, reservation, strays>>

(* Only children of the root register it.                                  *)
RegisterRoot(c) ==
    /\ pc[c] = "root"
    /\ agentTree' \in {agentTree, RootRegistered}
    /\ Goto(c, "path")
    /\ UNCHANGED <<totalCount, usedNicknames, nicknameResets, threads, reservation, strays>>

(* Faulty variant: an insert where the entry must be vacant.               *)
ReservePathBlindly(c) ==
    /\ pc[c] = "path"
    /\ c.path # NoPath
    /\ agentTree' = [agentTree EXCEPT ![c.path] = Agent(NoThread, NoNickname)]
    /\ reservation' = [reservation EXCEPT ![c].path = c.path]
    /\ Goto(c, "nickname")
    /\ UNCHANGED <<totalCount, usedNicknames, nicknameResets, threads, strays>>

ReservePath(c) ==
    /\ pc[c] = "path"
    /\ c.path # NoPath
    /\ ~agentTree[c.path].present
    /\ agentTree' = [agentTree EXCEPT ![c.path] = Agent(NoThread, NoNickname)]
    /\ reservation' = [reservation EXCEPT ![c].path = c.path]
    /\ Goto(c, "nickname")
    /\ UNCHANGED <<totalCount, usedNicknames, nicknameResets, threads, strays>>

(* Without a path there is nothing to reserve; with one that is taken the  *)
(* reservation is dropped.                                                 *)
ReserveNoPath(c) ==
    /\ pc[c] = "path"
    /\ \/ c.path = NoPath /\ Goto(c, "nickname")
       \/ c.path # NoPath /\ agentTree[c.path].present /\ Goto(c, "dropPath")
    /\ UNCHANGED <<registry, threads, reservation, strays>>

Available(c) == {n \in c.names \X {nicknameResets} : n \notin usedNicknames}

(* Faulty variant: the reservation does not remember its nickname.         *)
TakeNicknameOnly(c, n, used) ==
    /\ usedNicknames' = used \cup {n}
    /\ Goto(c, IF c.op = "Restore" THEN "commit"
               ELSE IF c.op = "Resume" THEN "start" ELSE "finish")
    /\ UNCHANGED <<totalCount, agentTree, threads, reservation, strays>>

TakeNickname(c, n, used) ==
    /\ usedNicknames' = used \cup {n}
    /\ reservation' = [reservation EXCEPT ![c].nickname = n]
    /\ Goto(c, IF c.op = "Restore" THEN "commit"
               ELSE IF c.op = "Resume" THEN "start" ELSE "finish")
    /\ UNCHANGED <<totalCount, agentTree, threads, strays>>

PreferredNickname(c) ==
    /\ pc[c] = "nickname"
    /\ c.prefers # NoNickname
    /\ TakeNickname(c, c.prefers, usedNicknames)
    /\ UNCHANGED nicknameResets

FreeNickname(c) ==
    /\ pc[c] = "nickname"
    /\ c.prefers = NoNickname
    /\ \E n \in Available(c) : TakeNickname(c, n, usedNicknames)
    /\ UNCHANGED nicknameResets

(* Faulty variant: the pool is cleared, its generation is not counted.     *)
ResetNicknamesOnly(c) ==
    /\ pc[c] = "nickname"
    /\ c.prefers = NoNickname
    /\ Available(c) = {}
    /\ UNCHANGED nicknameResets
    /\ \E n \in c.names \X {nicknameResets} : TakeNickname(c, n, {})

(* The role's candidates are used up: a new generation of nicknames begins *)
(* for every role.                                                         *)
ResetNicknames(c) ==
    /\ pc[c] = "nickname"
    /\ c.prefers = NoNickname
    /\ Available(c) = {}
    /\ nicknameResets' = nicknameResets + 1
    /\ \E n \in c.names \X {nicknameResets + 1} : TakeNickname(c, n, {})

-----------------------------------------------------------------------------
(* Starting the thread (spawn_thread_with_source).                         *)

(* A resume finds the thread running and takes it, or clears a dead one    *)
(* out of the way.                                                         *)
StartThread(c) ==
    /\ pc[c] = "start"
    /\ \/ /\ threads[c.thread] = "running"
          /\ Goto(c, "commit")
          /\ UNCHANGED threads
       \/ /\ threads[c.thread] # "running"
          /\ Goto(c, "finish")
          /\ threads' = [threads EXCEPT ![c.thread] = "unloaded"]
    /\ UNCHANGED <<registry, reservation, strays>>

(* A call has found the thread dead, or closed it, and forgets it next.    *)
BeingForgotten(t) == \E d \in Call : d.thread = t /\ pc[d] \in {"forget", "release"}

(* The session was created meanwhile; its thread enters the map unless     *)
(* another one is there.  Extensions are told of a resume, and a fork is   *)
(* hydrated, before the call goes on to commit.                            *)
FinishThread(c) ==
    /\ pc[c] = "finish"
    /\ threads[c.thread] \in {"none", "unloaded"}
    /\ threads' = [threads EXCEPT ![c.thread] = "running"]
    /\ Goto(c, "started")
    /\ strays' = IF BeingForgotten(c.thread) THEN strays \cup {c.thread}
                 ELSE strays \ {c.thread}
    /\ UNCHANGED <<registry, reservation>>

(* Creating the session fails, or its thread is there already.             *)
StartFailed(c) ==
    /\ pc[c] = "finish"
    /\ Goto(c, "dropPath")
    /\ UNCHANGED <<registry, threads, reservation, strays>>

Committing(c) == pc[c] \in {"started", "commit"}

(* Faulty variant: an entry that is there already is left as it is.        *)
CommitIfVacant(c) ==
    /\ Committing(c)
    /\ agentTree' = [agentTree EXCEPT
                       ![KeyOf(c)] = IF @.present THEN @
                                     ELSE Agent(c.thread, reservation[c].nickname)]
    /\ usedNicknames' = usedNicknames \cup {reservation[c].nickname}
    /\ reservation' = [reservation EXCEPT ![c].path = NoPath]
    /\ Goto(c, IF c.op = "Spawn" THEN "send" ELSE "done")
    /\ UNCHANGED <<totalCount, nicknameResets, threads, strays>>

(* Faulty variant: the committed reservation stays active and is dropped.  *)
CommitStillActive(c) ==
    /\ Committing(c)
    /\ agentTree' = [agentTree EXCEPT
                       ![KeyOf(c)] = Agent(c.thread, reservation[c].nickname)]
    /\ usedNicknames' = usedNicknames \cup {reservation[c].nickname}
    /\ reservation' = [reservation EXCEPT ![c].path = NoPath]
    /\ Goto(c, "dropPath")
    /\ UNCHANGED <<totalCount, nicknameResets, threads, strays>>

Commit(c) ==
    /\ Committing(c)
    /\ agentTree' = [agentTree EXCEPT
                       ![KeyOf(c)] = Agent(c.thread, reservation[c].nickname)]
    /\ usedNicknames' = usedNicknames \cup {reservation[c].nickname}
    /\ reservation' = [reservation EXCEPT ![c].path = NoPath]
    /\ Goto(c, IF c.op = "Spawn" THEN "send" ELSE "done")
    /\ UNCHANGED <<totalCount, nicknameResets, threads, strays>>

(* Drop: release_reserved_agent_path, then the counter.                    *)
PathDropped(c) ==
    LET p == reservation[c].path
    IN  IF p # NoPath /\ agentTree[p].id = NoThread
        THEN [agentTree EXCEPT ![p] = Vacant] ELSE agentTree

DropPath(c) ==
    /\ pc[c] = "dropPath"
    /\ agentTree' = PathDropped(c)
    /\ reservation' = [reservation EXCEPT ![c].path = NoPath]
    /\ Goto(c, "uncount")
    /\ UNCHANGED <<totalCount, usedNicknames, nicknameResets, threads, strays>>

(* fetch_sub, of a dropped reservation or of a released agent.             *)
Decremented == IF totalCount = 0 THEN UsizeMax ELSE totalCount - 1

Uncount(c) ==
    /\ pc[c] = "uncount"
    /\ totalCount' = Decremented
    /\ Goto(c, "done")
    /\ UNCHANGED <<agentTree, usedNicknames, nicknameResets, threads, reservation, strays>>

-----------------------------------------------------------------------------
(* Agents that die, are closed, or are unloaded.                           *)

(* send_op and handle_thread_request_result: an agent that is not loaded   *)
(* is not found; one that has terminated is forgotten.                     *)
Send(c) ==
    /\ pc[c] = "send"
    /\ Known(c.thread)
    /\ Goto(c, IF threads[c.thread] = "dead" THEN "forget" ELSE "done")
    /\ UNCHANGED <<registry, threads, reservation, strays>>

(* shutdown_live_agent: a failed flush leaves everything as it was; else   *)
(* the thread has terminated, if there was one, before it is forgotten.    *)
Close(c) ==
    /\ pc[c] = "close"
    /\ Known(c.thread)
    /\ \/ /\ threads[c.thread] = "running"
          /\ Goto(c, "forget")
          /\ threads' = [threads EXCEPT ![c.thread] = "dead"]
       \/ /\ threads[c.thread] # "running"
          /\ Goto(c, "forget")
          /\ UNCHANGED threads
       \/ /\ threads[c.thread] \in {"running", "dead"}
          /\ Goto(c, "done")
          /\ UNCHANGED threads
    /\ UNCHANGED <<registry, reservation, strays>>

ForgetThread(c) ==
    /\ pc[c] = "forget"
    /\ threads' = [threads EXCEPT ![c.thread] = "unloaded"]
    /\ Goto(c, "release")
    /\ UNCHANGED <<registry, reservation, strays>>

(* Faulty variant: agents with a path are taken for the root.              *)
ReleasePathFree(c) ==
    /\ pc[c] = "release"
    /\ \/ /\ ~HasAgent(c.thread)
          /\ Goto(c, "done")
          /\ UNCHANGED agentTree
       \/ \E k \in Key :
            /\ agentTree[k].id = c.thread
            /\ agentTree' = [agentTree EXCEPT ![k] = Vacant]
            /\ Goto(c, IF k \in Path THEN "done" ELSE "uncount")
    /\ UNCHANGED <<totalCount, usedNicknames, nicknameResets, threads, reservation, strays>>

(* release_spawned_thread: one entry of the thread goes, whichever the map *)
(* yields first, and is counted unless it is the root's.                   *)
Release(c) ==
    /\ pc[c] = "release"
    /\ \/ /\ ~HasAgent(c.thread)
          /\ Goto(c, "done")
          /\ UNCHANGED agentTree
       \/ \E k \in Key :
            /\ agentTree[k].id = c.thread
            /\ agentTree' = [agentTree EXCEPT ![k] = Vacant]
            /\ Goto(c, IF k = RootPath THEN "done" ELSE "uncount")
    /\ UNCHANGED <<totalCount, usedNicknames, nicknameResets, threads, reservation, strays>>

(* The thread's own loop ends.                                             *)
Die(t) ==
    /\ threads[t] = "running"
    /\ threads' = [threads EXCEPT ![t] = "dead"]
    /\ UNCHANGED <<registry, pc, reservation, strays>>

(* Whoever removes a thread from the manager does not tell the registry.   *)
Unload(t) ==
    /\ threads[t] = "dead"
    /\ threads' = [threads EXCEPT ![t] = "unloaded"]
    /\ UNCHANGED <<registry, pc, reservation, strays>>

(* The tool call is aborted at an await.  What it has reserved is dropped; *)
(* a thread that it has started, and not committed yet, runs on.  Spawns   *)
(* wait between the reservation and the path, resumes do not, and nothing  *)
(* waits between a thread that is taken, or forgotten, and what follows.   *)
Cancel(c) ==
    /\ \/ /\ pc[c] \in {"status", "reserve", "send", "close", "forget"}
          /\ c.op # "Restore"
          /\ Goto(c, "done")
          /\ UNCHANGED strays
       \/ /\ pc[c] \in {"start", "finish"} \/ (pc[c] = "root" /\ c.op = "Spawn")
          /\ Goto(c, "dropPath")
          /\ UNCHANGED strays
       \/ /\ pc[c] = "started"
          /\ Goto(c, "dropPath")
          /\ strays' = strays \cup {c.thread}
    /\ UNCHANGED <<registry, threads, reservation>>

-----------------------------------------------------------------------------
CallStep(c) ==
    \/ CheckStatus(c) \/ RestoreBegin(c) \/ RestoreLookup(c)
    \/ Reserve(c) \/ Refuse(c) \/ RegisterRoot(c)
    \/ ReservePath(c) \/ ReserveNoPath(c)
    \/ PreferredNickname(c) \/ FreeNickname(c) \/ ResetNicknames(c)
    \/ StartThread(c) \/ FinishThread(c) \/ StartFailed(c)
    \/ Commit(c) \/ DropPath(c) \/ Uncount(c)
    \/ Send(c) \/ Close(c) \/ ForgetThread(c) \/ Release(c)
    \/ Cancel(c)

Next ==
    \/ \E c \in Call : CallStep(c)
    \/ \E t \in Thread : Die(t) \/ Unload(t)

Spec == Init /\ [][Next]_vars

-----------------------------------------------------------------------------
(* Properties.                                                             *)

Steps == {"off", "status", "restore", "lookup", "reserve", "refused", "root", "path",
          "nickname", "start", "finish", "started", "commit", "dropPath", "uncount",
          "send", "close", "forget", "release", "done"}

(* Types; and only a reservation that is held holds a path, its call's.    *)
TypeOK ==
    /\ totalCount \in Nat
    /\ agentTree \in [Key -> [present : BOOLEAN, id : Thread \cup {NoThread},
                              nickname : Nickname \cup {NoNickname}]]
    /\ usedNicknames \subseteq Nickname
    /\ nicknameResets \in Nat
    /\ threads \in [Thread -> {"none", "running", "dead", "unloaded"}]
    /\ pc \in [Call -> Steps]
    /\ reservation \in [Call -> [path : Path \cup {NoPath},
                                 nickname : Nickname \cup {NoNickname}]]
    /\ strays \subseteq Thread

(* Who has raised the counter and not lowered it: calls that hold a        *)
(* reservation or are about to lower it, and the agents in the tree.       *)
Holding == {c \in Call : pc[c] \in {"root", "path", "nickname", "start", "finish",
                                    "started", "commit", "dropPath", "uncount"}}
Counted == {k \in Key \ {RootPath} : agentTree[k].id # NoThread}

(* The counter never falls below what it counts, so that no fetch_sub      *)
(* meets zero, whichever calls race (SpawnReservation::drop,               *)
(* release_spawned_thread).                                                *)
CountCoversAgents == totalCount >= Cardinality(Holding) + Cardinality(Counted)

(* No slot is lost either: every slot taken belongs to an agent or to a    *)
(* call (AgentRegistry.total_count).                                       *)
NoSlotLost == totalCount = Cardinality(Holding) + Cardinality(Counted)

(* None is lost unless an agent without a path is added twice, so that its *)
(* second entry overwrites the first: when it is resumed by two calls at   *)
(* the same time, or again after its thread went without a release.        *)
AddedOnce ==
    \A c, d \in Call :
        /\ c # d /\ c.thread = d.thread /\ c.path = NoPath /\ d.path = NoPath
        /\ {c.op, d.op} \subseteq {"Spawn", "Resume", "Restore"}
        => ~Made(c) \/ ~Made(d)

CountExact == AddedOnce => NoSlotLost

(* agent_max_threads: there are never more agents and spawns under way     *)
(* than the limit, where every reservation is subject to it.               *)
AgentsWithinLimit ==
    (\A c \in Call : Made(c) /\ c.op \in {"Spawn", "Resume", "Restore"} => Limited(c))
        => Cardinality(Holding) + Cardinality(Counted) <= Max

(* An entry without an agent is the reservation of exactly one call, and   *)
(* a call's reserved path is still reserved when it commits or drops it    *)
(* (reserve_agent_path, release_reserved_agent_path).                      *)
ReservedPathHeld ==
    \A p \in Path :
      /\ agentTree[p].present /\ agentTree[p].id = NoThread
           => \E c \in Call : reservation[c].path = p
      /\ \A c, d \in Call :
           reservation[c].path = p /\ reservation[d].path = p => c = d
      /\ \A c \in Call :
           reservation[c].path = p => agentTree[p] = Agent(NoThread, NoNickname)

(* No agent takes another one's place in the tree                          *)
(* (register_spawned_thread overwrites what it finds).                     *)
AgentsKeepTheirPlace ==
    [][\A k \in Key :
         agentTree[k].id # NoThread /\ agentTree'[k].id # NoThread
           => agentTree'[k].id = agentTree[k].id]_vars

(* Agents that were given their nicknames by the registry have different   *)
(* ones, also across a reset of the pool (reserve_agent_nickname).         *)
NicknamesDistinct ==
    (\A c \in Call : Made(c) => c.prefers = NoNickname)
        => \A j, k \in Counted :
             agentTree[j].nickname = agentTree[k].nickname => j = k

(* A sub-agent that runs can be found, closed and counted, unless its call *)
(* is about to register it (spawn_agent_internal, shutdown_live_agent,     *)
(* handle_thread_request_result).  Two races leave one that runs unknown,  *)
(* and nothing else does: its call was aborted after the thread was        *)
(* started and before the commit; or the thread was started again between  *)
(* a look that found its predecessor dead, or closed it, and the release   *)
(* of the entry, which by then is the new one.                             *)
RunningAreKnown ==
    \A t \in Thread \ {RootThread} :
      threads[t] = "running"
        => \/ HasAgent(t)
           \/ \E c \in Call : c.thread = t /\ pc[c] = "started"
           \/ t \in strays
=============================================================================
