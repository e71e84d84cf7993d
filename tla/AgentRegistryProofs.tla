-------------------------- MODULE AgentRegistryProofs -------------------------
(***************************************************************************)
(* Proofs about AgentRegistry, for any calls, threads, paths and limit:    *)
(* the spawn counter covers what it counts; where every reservation is     *)
(* limited there are never more agents than the limit; a reserved path is  *)
(* its call's until the call commits or drops it; no agent takes the place *)
(* of another; nicknames are given out once; where no agent without a path *)
(* is added twice the counter is exact; and agents that run are known.     *)
(***************************************************************************)
EXTENDS AgentRegistry, FiniteSetTheorems, TLAPS

(* A vacant entry has no agent; a reservation that is past the nickname    *)
(* has one; and only calls that start agents come to reserve.              *)
VacantHasNoAgent ==
    \A k \in Key : ~agentTree[k].present => agentTree[k].id = NoThread

NicknameHeld ==
    \A c \in Call : pc[c] \in {"start", "finish", "started", "commit"}
                      => reservation[c].nickname # NoNickname

StartersReserve ==
    \A c \in Call : pc[c] \in {"status", "restore", "lookup", "reserve"}
                      => c.op \in {"Spawn", "Resume", "Restore"}

TypeInv == TypeOK /\ VacantHasNoAgent /\ NicknameHeld /\ StartersReserve

(* What a call is, without the set of all records.                         *)
LEMMA CallFields ==
    ASSUME NEW c \in Call
    PROVE  /\ c.op \in {"Spawn", "Resume", "Restore", "Message", "Close"}
           /\ c.thread \in Thread
           /\ c.path \in Path \cup {NoPath}
           /\ c.path # RootPath
           /\ KeyOf(c) \in Key /\ KeyOf(c) # RootPath
           /\ c.names \in SUBSET Name
           /\ c.prefers \in Nickname \cup {NoNickname}
  <1>1. c \in CallRecord /\ c.path # RootPath
    BY CallAssumption
  <1>2. /\ c.op \in {"Spawn", "Resume", "Restore", "Message", "Close"}
        /\ c.thread \in Thread
        /\ c.path \in Path \cup {NoPath}
        /\ c.names \in SUBSET Name
        /\ c.prefers \in Nickname \cup {NoNickname}
    BY <1>1 DEF CallRecord
  <1>3. KeyOf(c) \in Key /\ KeyOf(c) # RootPath
    BY <1>1, <1>2, KeyAssumption DEF KeyOf, Key
  <1> QED BY <1>1, <1>2, <1>3

LEMMA RootRegisteredTyped ==
    ASSUME TypeInv
    PROVE  /\ RootRegistered \in [Key -> [present : BOOLEAN, id : Thread \cup {NoThread},
                                     nickname : Nickname \cup {NoNickname}]]
           /\ \A k \in Key : ~RootRegistered[k].present => RootRegistered[k].id = NoThread
           /\ \A k \in Key \ {RootPath} : RootRegistered[k] = agentTree[k]
  BY KeyAssumption DEF TypeInv, TypeOK, VacantHasNoAgent, RootRegistered, Agent, Key

LEMMA InitTyped == Init => TypeInv
  <1> SUFFICES ASSUME Init PROVE TypeInv
    OBVIOUS
  <1>1. \A c \in Call : /\ FirstStep(c) \in Steps
                        /\ FirstStep(c) \in {"status", "restore", "lookup", "reserve"}
                             => c.op \in {"Spawn", "Resume", "Restore"}
                        /\ FirstStep(c) \notin {"start", "finish", "started", "commit"}
    BY CallFields DEF FirstStep, Steps
  <1>2. TypeOK
    <2>1. pc \in [Call -> Steps]
      BY <1>1 DEF Init, Steps
    <2>2. /\ totalCount = 0
          /\ agentTree = [k \in Key |-> Vacant]
          /\ usedNicknames = {} /\ nicknameResets = 0
          /\ reservation = [c \in Call |-> [path |-> NoPath, nickname |-> NoNickname]]
          /\ threads \in [Thread -> {"none", "running", "dead", "unloaded"}]
          /\ strays = {}
      BY DEF Init
    <2> QED BY <2>1, <2>2 DEF TypeOK, Vacant
  <1>3. VacantHasNoAgent
    BY DEF Init, VacantHasNoAgent, Vacant
  <1>4. NicknameHeld /\ StartersReserve
    BY <1>1 DEF Init, NicknameHeld, StartersReserve
  <1> QED BY <1>2, <1>3, <1>4 DEF TypeInv

LEMMA StepTyped == TypeInv /\ [Next]_vars => TypeInv'
  <1> SUFFICES ASSUME TypeInv, [Next]_vars PROVE TypeInv'
    OBVIOUS
  <1> USE DEF TypeInv, TypeOK, VacantHasNoAgent, NicknameHeld, StartersReserve, Goto,
              registry, Steps
  <1>1. ASSUME NEW c \in Call, CheckStatus(c) PROVE TypeInv'
    BY <1>1, CallFields DEF CheckStatus
  <1>2. ASSUME NEW c \in Call, RestoreBegin(c) PROVE TypeInv'
    BY <1>2, CallFields, RootRegisteredTyped DEF RestoreBegin
  <1>3. ASSUME NEW c \in Call, RestoreLookup(c) PROVE TypeInv'
    BY <1>3, CallFields DEF RestoreLookup
  <1>4. ASSUME NEW c \in Call, Reserve(c) PROVE TypeInv'
    BY <1>4, CallFields DEF Reserve
  <1>5. ASSUME NEW c \in Call, Refuse(c) PROVE TypeInv'
    BY <1>5, CallFields DEF Refuse
  <1>6. ASSUME NEW c \in Call, RegisterRoot(c) PROVE TypeInv'
    BY <1>6, CallFields, RootRegisteredTyped DEF RegisterRoot
  <1>7. ASSUME NEW c \in Call, ReservePath(c) PROVE TypeInv'
    BY <1>7, CallFields DEF ReservePath, Agent, Key
  <1>8. ASSUME NEW c \in Call, ReserveNoPath(c) PROVE TypeInv'
    <2>1. /\ pc' = [pc EXCEPT ![c] = "nickname"] \/ pc' = [pc EXCEPT ![c] = "dropPath"]
          /\ UNCHANGED <<registry, threads, reservation, strays>>
      BY <1>8 DEF ReserveNoPath
    <2>2. \A d \in Call : pc'[d] = pc[d] \/ pc'[d] \in {"nickname", "dropPath"}
      BY <2>1
    <2> QED BY <2>1, <2>2
  <1>9. ASSUME NEW c \in Call, PreferredNickname(c) PROVE TypeInv'
    <2>1. c.prefers \in Nickname
      BY <1>9, CallFields DEF PreferredNickname
    <2>2. usedNicknames' \subseteq Nickname /\ nicknameResets' = nicknameResets
      BY <1>9, <2>1 DEF PreferredNickname, TakeNickname
    <2>3. /\ reservation' = [reservation EXCEPT ![c].nickname = c.prefers]
          /\ pc' = [pc EXCEPT ![c] = IF c.op = "Restore" THEN "commit"
                                    ELSE IF c.op = "Resume" THEN "start" ELSE "finish"]
          /\ UNCHANGED <<totalCount, agentTree, threads, strays>>
      BY <1>9 DEF PreferredNickname, TakeNickname
    <2> QED BY <2>1, <2>2, <2>3, NullAssumption
  <1>10. ASSUME NEW c \in Call, FreeNickname(c) PROVE TypeInv'
    BY <1>10, CallFields, NullAssumption DEF FreeNickname, TakeNickname, Available, Nickname
  <1>11. ASSUME NEW c \in Call, ResetNicknames(c) PROVE TypeInv'
    <2>1. PICK n \in c.names \X {nicknameResets + 1} : TakeNickname(c, n, {})
      BY <1>11 DEF ResetNicknames
    <2>2. n \in Nickname /\ nicknameResets' \in Nat
      BY <1>11, <2>1, CallFields DEF ResetNicknames, Nickname
    <2> QED BY <2>1, <2>2, <1>11, NullAssumption DEF ResetNicknames, TakeNickname
  <1>12. ASSUME NEW c \in Call, StartThread(c) PROVE TypeInv'
    <2>1. /\ \/ pc' = [pc EXCEPT ![c] = "commit"] /\ threads' = threads
             \/ /\ pc' = [pc EXCEPT ![c] = "finish"]
                /\ threads' = [threads EXCEPT ![c.thread] = "unloaded"]
          /\ pc[c] = "start"
      BY <1>12 DEF StartThread
    <2>2. \A d \in Call : pc'[d] = pc[d] \/ (d = c /\ pc'[d] \in {"commit", "finish"})
      BY <2>1
    <2>3. UNCHANGED <<registry, reservation, strays>>
      BY <1>12 DEF StartThread
    <2>4. pc' \in [Call -> Steps] /\ threads' \in [Thread -> {"none", "running", "dead", "unloaded"}]
      BY <2>1, CallFields
    <2> QED BY <2>1, <2>2, <2>3, <2>4
  <1>13. ASSUME NEW c \in Call, FinishThread(c) PROVE TypeInv'
    <2>1. strays' \subseteq Thread
      BY <1>13, CallFields DEF FinishThread
    <2> QED BY <1>13, <2>1, CallFields DEF FinishThread
  <1>14. ASSUME NEW c \in Call, StartFailed(c) PROVE TypeInv'
    BY <1>14, CallFields DEF StartFailed
  <1>15. ASSUME NEW c \in Call, Commit(c) PROVE TypeInv'
    BY <1>15, CallFields DEF Commit, Committing, Agent
  <1>16. ASSUME NEW c \in Call, DropPath(c) PROVE TypeInv'
    BY <1>16, CallFields DEF DropPath, PathDropped, Vacant, Key
  <1>17. ASSUME NEW c \in Call, Uncount(c) PROVE TypeInv'
    BY <1>17, CallFields, LimitAssumption DEF Uncount, Decremented
  <1>18. ASSUME NEW c \in Call, Send(c) PROVE TypeInv'
    BY <1>18, CallFields DEF Send
  <1>19. ASSUME NEW c \in Call, Close(c) PROVE TypeInv'
    <2>1. /\ \/ pc' = [pc EXCEPT ![c] = "forget"]
             \/ pc' = [pc EXCEPT ![c] = "done"]
          /\ \/ threads' = threads
             \/ threads' = [threads EXCEPT ![c.thread] = "dead"]
      BY <1>19 DEF Close
    <2>2. \A d \in Call : pc'[d] = pc[d] \/ pc'[d] \in {"forget", "done"}
      BY <1>19 DEF Close
    <2>3. UNCHANGED <<registry, reservation, strays>>
      BY <1>19 DEF Close
    <2> QED BY <2>1, <2>2, <2>3
  <1>20. ASSUME NEW c \in Call, ForgetThread(c) PROVE TypeInv'
    BY <1>20, CallFields DEF ForgetThread, Cancel
  <1>21. ASSUME NEW c \in Call, Release(c) PROVE TypeInv'
    <2>1. pc' \in [Call -> Steps]
      BY <1>21 DEF Release
    <2>2. \A d \in Call : pc'[d] = pc[d] \/ pc'[d] \in {"uncount", "done"}
      BY <1>21 DEF Release
    <2>3. UNCHANGED <<totalCount, usedNicknames, nicknameResets, threads, reservation,
                      strays>>
      BY <1>21 DEF Release
    <2>4. CASE UNCHANGED agentTree
      BY <2>1, <2>2, <2>3, <2>4
    <2>5. ASSUME NEW k \in Key, agentTree' = [agentTree EXCEPT ![k] = Vacant]
          PROVE  TypeInv'
      BY <2>1, <2>2, <2>3, <2>5 DEF Vacant
    <2> QED BY <1>21, <2>4, <2>5 DEF Release
  <1>22. ASSUME NEW c \in Call, Cancel(c) PROVE TypeInv'
    <2>1. /\ pc' = [pc EXCEPT ![c] = "done"] \/ pc' = [pc EXCEPT ![c] = "dropPath"]
          /\ strays' = strays \/ strays' = strays \cup {c.thread}
          /\ UNCHANGED <<registry, threads, reservation>>
      BY <1>22 DEF Cancel
    <2>2. \A d \in Call : pc'[d] = pc[d] \/ pc'[d] \in {"done", "dropPath"}
      BY <2>1
    <2>3. strays' \subseteq Thread
      BY <2>1, CallFields
    <2> QED BY <2>1, <2>2, <2>3
  <1>23. ASSUME NEW t \in Thread, Die(t) \/ Unload(t) PROVE TypeInv'
    BY <1>23 DEF Die, Unload
  <1>24. CASE UNCHANGED vars
    BY <1>24 DEF vars
  <1> QED BY <1>1, <1>2, <1>3, <1>4, <1>5, <1>6, <1>7, <1>8, <1>9, <1>10, <1>11, <1>12,
             <1>13, <1>14, <1>15, <1>16, <1>17, <1>18, <1>19, <1>20, <1>21, <1>22, <1>23, <1>24
          DEF Next, CallStep

-----------------------------------------------------------------------------
(* The counter.                                                            *)

AllLimited ==
    \A c \in Call :
        Made(c) /\ c.op \in {"Spawn", "Resume", "Restore"} => Limited(c)

CountWithinLimit == AllLimited => totalCount <= Max

CountInv == TypeInv /\ CountCoversAgents /\ CountWithinLimit

LEMMA FiniteParts ==
    /\ \A S \in SUBSET Call : IsFiniteSet(S) /\ Cardinality(S) \in Nat
    /\ \A S \in SUBSET Key : IsFiniteSet(S) /\ Cardinality(S) \in Nat
  <1>1. IsFiniteSet(Key)
    BY KeyAssumption, FS_Union DEF Key
  <1> QED BY <1>1, CallAssumption, FS_Subset, FS_CardinalityType

LEMMA Sizes ==
    /\ IsFiniteSet(Holding) /\ Cardinality(Holding) \in Nat
    /\ IsFiniteSet(Counted) /\ Cardinality(Counted) \in Nat
    /\ IsFiniteSet(Holding') /\ Cardinality(Holding') \in Nat
    /\ IsFiniteSet(Counted') /\ Cardinality(Counted') \in Nat
  <1>1. Holding \in SUBSET Call /\ Holding' \in SUBSET Call
    BY DEF Holding
  <1>2. Counted \in SUBSET Key /\ Counted' \in SUBSET Key
    BY DEF Counted
  <1> QED BY <1>1, <1>2, FiniteParts

(* A call that was made is not unmade.                                     *)
LEMMA CallsStayMade ==
    ASSUME TypeInv, [Next]_vars
    PROVE  /\ AllLimited' => AllLimited
           /\ \A d \in Call : Made(d) => Made(d)'
  <1>1. ASSUME NEW c \in Call, CallStep(c), NEW d \in Call, Made(d)
        PROVE  Made(d)'
    <2> USE <1>1 DEF TypeInv, TypeOK, Goto, Made
    <2>1. CASE \/ CheckStatus(c) \/ RestoreBegin(c) \/ RestoreLookup(c) \/ Reserve(c)
               \/ Refuse(c) \/ RegisterRoot(c) \/ ReservePath(c) \/ ReserveNoPath(c)
      BY <2>1 DEF CheckStatus, RestoreBegin, RestoreLookup, Reserve, Refuse, RegisterRoot,
                  ReservePath, ReserveNoPath
    <2>2. CASE PreferredNickname(c) \/ FreeNickname(c) \/ ResetNicknames(c)
      BY <2>2 DEF PreferredNickname, FreeNickname, ResetNicknames, TakeNickname
    <2>3. CASE \/ StartThread(c) \/ FinishThread(c) \/ StartFailed(c) \/ Commit(c)
               \/ DropPath(c) \/ Uncount(c) \/ Send(c) \/ Close(c) \/ ForgetThread(c) \/ Cancel(c)
               \/ Release(c)
      BY <2>3 DEF StartThread, FinishThread, StartFailed, Commit, DropPath, Uncount, Send,
                  Close, ForgetThread, Cancel, Release
    <2> QED BY <2>1, <2>2, <2>3 DEF CallStep
  <1>2. ASSUME NEW t \in Thread, Die(t) \/ Unload(t) PROVE pc' = pc
    BY <1>2 DEF Die, Unload
  <1>3. \A d \in Call : Made(d) => Made(d)'
    BY <1>1, <1>2 DEF Next, vars, Made
  <1> QED BY <1>3 DEF AllLimited, Made

(* Most steps change neither the counter nor what it counts.               *)
Quiet == Holding' = Holding /\ Counted' = Counted /\ totalCount' = totalCount

LEMMA QuietSteps ==
    ASSUME TypeInv, NEW c \in Call,
           \/ CheckStatus(c) \/ RestoreBegin(c) \/ RestoreLookup(c) \/ Refuse(c)
           \/ RegisterRoot(c) \/ ReservePath(c) \/ ReserveNoPath(c)
           \/ PreferredNickname(c) \/ FreeNickname(c) \/ ResetNicknames(c)
           \/ StartThread(c) \/ FinishThread(c) \/ StartFailed(c) \/ DropPath(c)
           \/ Send(c) \/ Close(c) \/ ForgetThread(c) \/ Cancel(c)
    PROVE  Quiet
  <1> USE DEF TypeInv, TypeOK, Quiet, Holding, Counted, Goto, registry
  <1>1. CASE CheckStatus(c) \/ RestoreLookup(c) \/ Refuse(c)
    BY <1>1 DEF CheckStatus, RestoreLookup, Refuse
  <1>2. CASE RestoreBegin(c) \/ RegisterRoot(c)
    BY <1>2, RootRegisteredTyped DEF RestoreBegin, RegisterRoot
  <1>3. CASE ReservePath(c)
    BY <1>3, CallFields DEF ReservePath, Agent, Key, VacantHasNoAgent
  <1>4. CASE ReserveNoPath(c)
    BY <1>4 DEF ReserveNoPath
  <1>5. CASE PreferredNickname(c) \/ FreeNickname(c) \/ ResetNicknames(c)
    BY <1>5 DEF PreferredNickname, FreeNickname, ResetNicknames, TakeNickname
  <1>6. CASE StartThread(c) \/ FinishThread(c) \/ StartFailed(c)
    BY <1>6 DEF StartThread, FinishThread, StartFailed
  <1>7. CASE DropPath(c)
    BY <1>7, CallFields DEF DropPath, PathDropped, Vacant, Key
  <1>8. CASE Send(c) \/ Close(c) \/ ForgetThread(c) \/ Cancel(c)
    BY <1>8 DEF Send, Close, ForgetThread, Cancel
  <1> QED BY <1>1, <1>2, <1>3, <1>4, <1>5, <1>6, <1>7, <1>8

LEMMA ReserveCounts ==
    ASSUME CountInv, AllLimited' => AllLimited, NEW c \in Call, Reserve(c)
    PROVE  CountCoversAgents' /\ CountWithinLimit'
  <1> USE DEF CountInv, TypeInv, TypeOK
  <1>1. c \notin Holding /\ Holding' = Holding \cup {c} /\ Counted' = Counted
    BY DEF Reserve, Goto, Holding, Counted
  <1>2. totalCount' = totalCount + 1
    BY DEF Reserve
  <1>3. Cardinality(Holding') = Cardinality(Holding) + 1
    BY <1>1, Sizes, FS_AddElement
  <1>4. CountCoversAgents'
    BY <1>1, <1>2, <1>3, Sizes DEF CountCoversAgents
  <1>5. AllLimited => totalCount < Max
    BY DEF Reserve, StartersReserve, AllLimited, Made
  <1>6. CountWithinLimit'
    BY <1>2, <1>5, LimitAssumption DEF CountWithinLimit
  <1> QED BY <1>4, <1>6

(* A commit passes the slot from the call to the agent.                    *)
LEMMA CommitCounts ==
    ASSUME CountInv, AllLimited' => AllLimited, NEW c \in Call, Commit(c)
    PROVE  CountCoversAgents' /\ CountWithinLimit'
  <1> USE DEF CountInv, TypeInv, TypeOK
  <1>1. c \in Holding /\ Holding' = Holding \ {c}
    BY DEF Commit, Committing, Goto, Holding
  <1>2. Counted' \in SUBSET (Counted \cup {KeyOf(c)})
    BY CallFields DEF Commit, Counted
  <1>3. totalCount' = totalCount
    BY DEF Commit
  <1>4. Cardinality(Holding') = Cardinality(Holding) - 1
    BY <1>1, Sizes, FS_RemoveElement
  <1>5. /\ IsFiniteSet(Counted \cup {KeyOf(c)})
        /\ Cardinality(Counted \cup {KeyOf(c)}) <= Cardinality(Counted) + 1
    <2> DEFINE k == KeyOf(c)
    <2> HIDE DEF k
    <2>1. /\ IsFiniteSet(Counted \cup {k})
          /\ Cardinality(Counted \cup {k}) =
               IF k \in Counted THEN Cardinality(Counted) ELSE Cardinality(Counted) + 1
      BY Sizes, FS_AddElement
    <2>2. Cardinality(Counted \cup {k}) <= Cardinality(Counted) + 1
      BY <2>1, Sizes
    <2> QED BY <2>1, <2>2 DEF k
  <1>6. Cardinality(Counted') <= Cardinality(Counted) + 1
    <2>1. Cardinality(Counted') <= Cardinality(Counted \cup {KeyOf(c)})
      BY <1>2, <1>5, FS_Subset
    <2>2. Cardinality(Counted \cup {KeyOf(c)}) \in Nat
      BY <1>5, FS_CardinalityType
    <2> QED BY <2>1, <2>2, <1>5, Sizes
  <1>7. CountCoversAgents'
    BY <1>3, <1>4, <1>6, Sizes DEF CountCoversAgents
  <1> QED BY <1>3, <1>7 DEF CountWithinLimit

(* The counter is at least one when it is lowered: its caller is counted.  *)
LEMMA UncountCounts ==
    ASSUME CountInv, AllLimited' => AllLimited, NEW c \in Call, Uncount(c)
    PROVE  CountCoversAgents' /\ CountWithinLimit'
  <1> USE DEF CountInv, TypeInv, TypeOK
  <1>1. c \in Holding /\ Holding' = Holding \ {c} /\ Counted' = Counted
    BY DEF Uncount, Goto, Holding, Counted
  <1>2. Cardinality(Holding') = Cardinality(Holding) - 1
    BY <1>1, Sizes, FS_RemoveElement
  <1>4. totalCount >= 1
    BY <1>2, Sizes DEF CountCoversAgents
  <1>5. totalCount' = totalCount - 1
    BY <1>4 DEF Uncount, Decremented
  <1>6. CountCoversAgents'
    BY <1>1, <1>2, <1>5, Sizes DEF CountCoversAgents
  <1>7. CountWithinLimit'
    BY <1>5, LimitAssumption DEF CountWithinLimit
  <1> QED BY <1>6, <1>7

(* A release passes the slot from the agent back to the call.              *)
LEMMA ReleaseCounts ==
    ASSUME CountInv, AllLimited' => AllLimited, NEW c \in Call, Release(c)
    PROVE  CountCoversAgents' /\ CountWithinLimit'
  <1> USE DEF CountInv, TypeInv, TypeOK
  <1>1. totalCount' = totalCount /\ c \notin Holding
    BY DEF Release, Holding
  <1>2. CountWithinLimit'
    BY <1>1 DEF CountWithinLimit
  <1>3. CASE UNCHANGED agentTree /\ Goto(c, "done")
    <2>1. Holding' = Holding /\ Counted' = Counted
      BY <1>1, <1>3 DEF Goto, Holding, Counted
    <2> QED BY <1>1, <1>2, <2>1 DEF CountCoversAgents
  <1>4. ASSUME NEW k \in Key, agentTree[k].id = c.thread,
               agentTree' = [agentTree EXCEPT ![k] = Vacant],
               Goto(c, IF k = RootPath THEN "done" ELSE "uncount")
        PROVE  CountCoversAgents'
    <2>1. CASE k = RootPath
      <3>1. Holding' = Holding /\ Counted' = Counted
        BY <1>1, <1>4, <2>1 DEF Goto, Holding, Counted
      <3> QED BY <1>1, <3>1 DEF CountCoversAgents
    <2>2. CASE k # RootPath
      <3>1. Holding' = Holding \cup {c}
        BY <1>4, <2>2 DEF Goto, Holding
      <3>2. k \in Counted /\ Counted' = Counted \ {k}
        BY <1>4, <2>2, CallFields, NullAssumption DEF Counted, Vacant
      <3>3. Cardinality(Holding') = Cardinality(Holding) + 1
        BY <1>1, <3>1, Sizes, FS_AddElement
      <3>4. Cardinality(Counted') = Cardinality(Counted) - 1
        BY <3>2, Sizes, FS_RemoveElement
      <3> QED BY <1>1, <3>3, <3>4, Sizes DEF CountCoversAgents
    <2> QED BY <2>1, <2>2
  <1> QED BY <1>2, <1>3, <1>4 DEF Release

LEMMA StepCounts == CountInv /\ [Next]_vars => CountInv'
  <1> SUFFICES ASSUME CountInv, [Next]_vars PROVE CountInv'
    OBVIOUS
  <1>1. TypeInv'
    BY StepTyped DEF CountInv
  <1>2. CountCoversAgents' /\ CountWithinLimit'
    <2>0. AllLimited' => AllLimited
      BY CallsStayMade DEF CountInv
    <2>1. ASSUME Quiet PROVE CountCoversAgents' /\ CountWithinLimit'
      BY <2>0, <2>1 DEF Quiet, CountInv, CountCoversAgents, CountWithinLimit
    <2>2. ASSUME NEW c \in Call, CallStep(c)
          PROVE  CountCoversAgents' /\ CountWithinLimit'
      BY <2>0, <2>1, <2>2, QuietSteps, ReserveCounts, CommitCounts, UncountCounts, ReleaseCounts
         DEF CallStep, CountInv
    <2>3. ASSUME NEW t \in Thread, Die(t) \/ Unload(t) PROVE Quiet
      BY <2>3 DEF Die, Unload, Quiet, Holding, Counted, registry
    <2>4. CASE UNCHANGED vars
      BY <2>1, <2>4 DEF vars, Quiet, Holding, Counted
    <2> QED BY <2>1, <2>2, <2>3, <2>4 DEF Next
  <1> QED BY <1>1, <1>2 DEF CountInv

LEMMA InitCounts == Init => CountInv
  <1> SUFFICES ASSUME Init PROVE CountInv
    OBVIOUS
  <1>1. Holding = {}
    <2>1. \A c \in Call : FirstStep(c) \in {"reserve", "status", "restore", "send", "close"}
      BY CallFields DEF FirstStep
    <2> QED BY <2>1 DEF Init, Holding
  <1>2. Counted = {}
    BY DEF Init, Counted, Vacant
  <1> QED BY <1>1, <1>2, InitTyped, FS_EmptySet, LimitAssumption
          DEF Init, CountInv, CountCoversAgents, CountWithinLimit

THEOREM CountInvariance == Spec => []CountInv
  BY InitCounts, StepCounts, PTL DEF Spec

(* total_count is never lower than what it counts, so that no fetch_sub    *)
(* meets zero, whichever spawns, resumes, restores and closes race.        *)
THEOREM CounterNeverWraps == Spec => []CountCoversAgents
  <1>1. CountInv => CountCoversAgents
    BY DEF CountInv
  <1> QED BY <1>1, CountInvariance, PTL

(* agent_max_threads is kept: where every reservation is limited there are *)
(* never more agents and spawns under way than the limit.                  *)
THEOREM LimitIsKept == Spec => []AgentsWithinLimit
  <1>1. CountInv => AgentsWithinLimit
    BY Sizes, LimitAssumption
       DEF CountInv, CountCoversAgents, CountWithinLimit, AgentsWithinLimit, AllLimited,
           TypeInv, TypeOK
  <1> QED BY <1>1, CountInvariance, PTL

-----------------------------------------------------------------------------
(* Paths.                                                                  *)

(* What a reservation holds follows from where its call is.                *)
PathFollowsStep ==
    \A c \in Call :
      /\ pc[c] \in {"nickname", "start", "finish", "started", "commit"}
           => reservation[c].path = c.path
      /\ reservation[c].path # NoPath
           => /\ reservation[c].path = c.path
              /\ pc[c] \in {"nickname", "start", "finish", "started", "commit", "dropPath"}

PathInv == TypeInv /\ PathFollowsStep /\ ReservedPathHeld

(* Most steps leave the entries of paths and the reserved paths alone.     *)
LEMMA PathsUntouched ==
    ASSUME PathInv, TypeInv',
           \A p \in Path : agentTree'[p] = agentTree[p],
           \A c \in Call : reservation'[c].path = reservation[c].path,
           PathFollowsStep'
    PROVE  PathInv'
  BY DEF PathInv, ReservedPathHeld

(* Where a call goes next fits what its reservation holds.                 *)
PathFits(c, path, step) ==
    /\ step \in {"nickname", "start", "finish", "started", "commit"} => path = c.path
    /\ path # NoPath => /\ path = c.path
                        /\ step \in {"nickname", "start", "finish", "started", "commit", "dropPath"}

LEMMA PathFollows ==
    ASSUME PathFollowsStep, pc \in [Call -> Steps], NEW c \in Call, NEW step,
           pc' = [pc EXCEPT ![c] = step],
           \A d \in Call \ {c} : reservation'[d].path = reservation[d].path,
           PathFits(c, reservation'[c].path, step)
    PROVE  PathFollowsStep'
  <1> SUFFICES ASSUME NEW d \in Call
               PROVE  /\ pc'[d] \in {"nickname", "start", "finish", "started", "commit"}
                           => reservation'[d].path = d.path
                      /\ reservation'[d].path # NoPath
                           => /\ reservation'[d].path = d.path
                              /\ pc'[d] \in {"nickname", "start", "finish", "started", "commit",
                                              "dropPath"}
    BY DEF PathFollowsStep
  <1>1. CASE d = c
    BY <1>1 DEF PathFits
  <1>2. CASE d # c
    BY <1>2 DEF PathFollowsStep
  <1> QED BY <1>1, <1>2

LEMMA PathQuietSteps ==
    ASSUME PathInv, TypeInv', NEW c \in Call,
           \/ CheckStatus(c) \/ RestoreLookup(c) \/ Reserve(c) \/ Refuse(c)
           \/ ReserveNoPath(c)
           \/ PreferredNickname(c) \/ FreeNickname(c) \/ ResetNicknames(c)
           \/ StartThread(c) \/ FinishThread(c) \/ StartFailed(c)
           \/ Uncount(c) \/ Send(c) \/ Close(c) \/ ForgetThread(c) \/ Cancel(c)
    PROVE  PathInv'
  <1>1. UNCHANGED agentTree
    BY DEF CheckStatus, RestoreLookup, Reserve, Refuse, ReserveNoPath, PreferredNickname,
           FreeNickname, ResetNicknames, TakeNickname, StartThread, FinishThread,
           StartFailed, Uncount, Send, Close, ForgetThread, Cancel, registry
  <1>2. /\ PathFollowsStep
        /\ pc \in [Call -> Steps]
        /\ reservation \in [Call -> [path : Path \cup {NoPath},
                                    nickname : Nickname \cup {NoNickname}]]
    BY DEF PathInv, TypeInv, TypeOK
  <1>3. ASSUME UNCHANGED reservation, NEW step, pc' = [pc EXCEPT ![c] = step],
               PathFits(c, reservation[c].path, step)
        PROVE  PathInv'
    BY <1>1, <1>2, <1>3, PathFollows, PathsUntouched
  <1>4. CASE CheckStatus(c) \/ RestoreLookup(c) \/ Reserve(c) \/ Refuse(c)
    <2>1. reservation[c].path = NoPath
      BY <1>2, <1>4 DEF PathFollowsStep, CheckStatus, RestoreLookup, Reserve, Refuse
    <2>2. PICK step \in {"reserve", "path", "root", "refused", "done"} :
             UNCHANGED reservation /\ pc' = [pc EXCEPT ![c] = step]
      BY <1>4 DEF CheckStatus, RestoreLookup, Reserve, Refuse, Goto
    <2> QED BY <1>3, <2>1, <2>2 DEF PathFits
  <1>5. CASE ReserveNoPath(c)
    <2>1. reservation[c].path = NoPath
      BY <1>2, <1>5 DEF PathFollowsStep, ReserveNoPath
    <2>2. PICK step \in {"nickname", "dropPath"} :
             /\ UNCHANGED reservation /\ pc' = [pc EXCEPT ![c] = step]
             /\ step = "nickname" => c.path = NoPath
      BY <1>5 DEF ReserveNoPath, Goto
    <2> QED BY <1>3, <2>1, <2>2 DEF PathFits
  <1>6. CASE PreferredNickname(c) \/ FreeNickname(c) \/ ResetNicknames(c)
    <2>1. reservation[c].path = c.path
      BY <1>2, <1>6 DEF PathFollowsStep, PreferredNickname, FreeNickname, ResetNicknames
    <2>2. PICK n, used : TakeNickname(c, n, used)
      BY <1>6 DEF PreferredNickname, FreeNickname, ResetNicknames
    <2>3. PICK step \in {"start", "finish", "started", "commit"} : pc' = [pc EXCEPT ![c] = step]
      BY <2>2 DEF TakeNickname, Goto
    <2>4. \A d \in Call : reservation'[d].path = reservation[d].path
      BY <1>2, <2>2 DEF TakeNickname
    <2>5. PathFits(c, reservation'[c].path, step)
      BY <2>1, <2>3, <2>4 DEF PathFits
    <2>6. PathFollowsStep'
      BY <1>2, <2>3, <2>4, <2>5, PathFollows
    <2> QED BY <1>1, <2>4, <2>6, PathsUntouched
  <1>7. CASE StartThread(c) \/ FinishThread(c) \/ StartFailed(c)
    <2>1. reservation[c].path = c.path
      BY <1>2, <1>7 DEF PathFollowsStep, StartThread, FinishThread, StartFailed
    <2>2. PICK step \in {"finish", "started", "commit", "dropPath"} :
             UNCHANGED reservation /\ pc' = [pc EXCEPT ![c] = step]
      BY <1>7 DEF StartThread, FinishThread, StartFailed, Goto
    <2> QED BY <1>3, <2>1, <2>2 DEF PathFits
  <1>8. CASE Uncount(c) \/ Send(c) \/ Close(c) \/ ForgetThread(c)
    <2>1. reservation[c].path = NoPath
      BY <1>2, <1>8 DEF PathFollowsStep, Uncount, Send, Close, ForgetThread
    <2>2. PICK step \in {"done", "forget", "release"} :
             UNCHANGED reservation /\ pc' = [pc EXCEPT ![c] = step]
      BY <1>8 DEF Uncount, Send, Close, ForgetThread, Goto
    <2> QED BY <1>3, <2>1, <2>2 DEF PathFits
  <1>9. CASE Cancel(c)
    <2>1. \/ /\ reservation[c].path = NoPath
             /\ UNCHANGED reservation /\ pc' = [pc EXCEPT ![c] = "done"]
          \/ /\ reservation[c].path \in {NoPath, c.path}
             /\ UNCHANGED reservation /\ pc' = [pc EXCEPT ![c] = "dropPath"]
      BY <1>2, <1>9 DEF PathFollowsStep, Cancel, Goto
    <2> QED BY <1>3, <2>1 DEF PathFits
  <1> QED BY <1>4, <1>5, <1>6, <1>7, <1>8, <1>9

(* The root's path is nobody's to reserve.                                 *)
LEMMA PathRootSteps ==
    ASSUME PathInv, TypeInv', NEW c \in Call, RestoreBegin(c) \/ RegisterRoot(c)
    PROVE  PathInv'
  <1>1. /\ \A k \in Key \ {RootPath} : agentTree'[k] = agentTree[k]
        /\ agentTree'[RootPath] = agentTree[RootPath] \/ agentTree'[RootPath].id # NoThread
    BY RootRegisteredTyped, KeyAssumption, NullAssumption
       DEF PathInv, TypeInv, TypeOK, RestoreBegin, RegisterRoot, RootRegistered, Agent, Key
  <1>2. UNCHANGED reservation /\ PathFollowsStep'
    BY DEF PathInv, TypeInv, TypeOK, PathFollowsStep, RestoreBegin, RegisterRoot, Goto
  <1>3. \A d \in Call : reservation[d].path # RootPath
    BY CallFields, KeyAssumption, NullAssumption DEF PathInv, PathFollowsStep
  <1>4. ReservedPathHeld'
    BY <1>1, <1>2, <1>3 DEF PathInv, ReservedPathHeld, Key
  <1> QED BY <1>2, <1>4 DEF PathInv

LEMMA PathReserved ==
    ASSUME PathInv, TypeInv', NEW c \in Call, ReservePath(c)
    PROVE  PathInv'
  <1>1. /\ c.path \in Path /\ c.path # NoPath /\ ~agentTree[c.path].present
        /\ reservation[c].path = NoPath
    BY CallFields DEF ReservePath, PathInv, PathFollowsStep
  <1>2. /\ \A p \in Path : agentTree'[p] = IF p = c.path THEN Agent(NoThread, NoNickname)
                                           ELSE agentTree[p]
        /\ reservation'[c].path = c.path
        /\ \A d \in Call \ {c} : reservation'[d].path = reservation[d].path
    BY <1>1 DEF ReservePath, Key, PathInv, TypeInv, TypeOK
  <1>3. PathFollowsStep'
    <2>1. PathFits(c, reservation'[c].path, "nickname")
      BY <1>2 DEF PathFits
    <2> QED BY <1>2, <2>1, PathFollows DEF ReservePath, Goto, PathInv, TypeInv, TypeOK
  <1>4. \A d \in Call : reservation[d].path # c.path
    BY <1>1 DEF PathInv, ReservedPathHeld, Agent
  <1>5. ReservedPathHeld'
    <2> SUFFICES ASSUME NEW p \in Path
                 PROVE
           /\ agentTree'[p].present /\ agentTree'[p].id = NoThread
                => \E d \in Call : reservation'[d].path = p
           /\ \A d, e \in Call :
                reservation'[d].path = p /\ reservation'[e].path = p => d = e
           /\ \A d \in Call :
                reservation'[d].path = p => agentTree'[p] = Agent(NoThread, NoNickname)
      BY DEF ReservedPathHeld
    <2>1. CASE p = c.path
      BY <1>2, <1>4, <2>1
    <2>2. CASE p # c.path
      <3>1. \A d \in Call : reservation'[d].path = p <=> reservation[d].path = p
        BY <1>1, <1>2, <2>2, NullAssumption
      <3> QED BY <1>2, <2>2, <3>1 DEF PathInv, ReservedPathHeld
    <2> QED BY <2>1, <2>2
  <1> QED BY <1>3, <1>5 DEF PathInv

(* A commit and a drop give up a path and leave no reserved entry there.   *)
LEMMA PathGivenUp ==
    ASSUME PathInv, NEW c \in Call,
           reservation'[c].path = NoPath,
           \A d \in Call \ {c} : reservation'[d].path = reservation[d].path,
           reservation[c].path \in Path \cup {NoPath},
           NEW entry, ~(entry.present /\ entry.id = NoThread),
           \A p \in Path : agentTree'[p] = IF p = reservation[c].path THEN entry
                                           ELSE agentTree[p]
    PROVE  ReservedPathHeld'
  <1> SUFFICES ASSUME NEW p \in Path
               PROVE
         /\ agentTree'[p].present /\ agentTree'[p].id = NoThread
              => \E d \in Call : reservation'[d].path = p
         /\ \A d, e \in Call :
              reservation'[d].path = p /\ reservation'[e].path = p => d = e
         /\ \A d \in Call :
              reservation'[d].path = p => agentTree'[p] = Agent(NoThread, NoNickname)
    BY DEF ReservedPathHeld
  <1>1. CASE p = reservation[c].path
    <2>1. \A d \in Call : reservation'[d].path # p
      BY <1>1, NullAssumption DEF PathInv, ReservedPathHeld
    <2>2. agentTree'[p] = entry
      BY <1>1
    <2> QED BY <2>1, <2>2
  <1>2. CASE p # reservation[c].path
    <2>1. \A d \in Call : reservation'[d].path = p <=> reservation[d].path = p
      BY <1>2, NullAssumption
    <2>2. agentTree'[p] = agentTree[p]
      BY <1>2
    <2> QED BY <2>1, <2>2 DEF PathInv, ReservedPathHeld
  <1> QED BY <1>1, <1>2

LEMMA PathCommitted ==
    ASSUME PathInv, TypeInv', NEW c \in Call, Commit(c)
    PROVE  PathInv'
  <1>1. reservation[c].path = c.path /\ c.path \in Path \cup {NoPath}
    BY CallFields DEF Commit, Committing, PathInv, PathFollowsStep
  <1>2. c.thread \in Thread /\ c.thread # NoThread /\ c.thread \notin Path
    BY CallFields, KeyAssumption, NullAssumption
  <1>3. \A p \in Path : agentTree'[p] = IF p = reservation[c].path
                                       THEN Agent(c.thread, reservation[c].nickname)
                                       ELSE agentTree[p]
    BY <1>1, <1>2, NullAssumption DEF Commit, KeyOf, Key, PathInv, TypeInv, TypeOK
  <1>4. /\ reservation'[c].path = NoPath
        /\ \A d \in Call \ {c} : reservation'[d].path = reservation[d].path
    BY DEF Commit, PathInv, TypeInv, TypeOK
  <1>5. PathFollowsStep'
    <2>1. PICK step \in {"send", "done"} : pc' = [pc EXCEPT ![c] = step]
      BY DEF Commit, Goto
    <2>2. PathFits(c, reservation'[c].path, step)
      BY <1>4, <2>1 DEF PathFits
    <2> QED BY <1>4, <2>1, <2>2, PathFollows DEF PathInv, TypeInv, TypeOK
  <1>6. ReservedPathHeld'
    <2>1. ~(Agent(c.thread, reservation[c].nickname).present
            /\ Agent(c.thread, reservation[c].nickname).id = NoThread)
      BY <1>2 DEF Agent
    <2> QED BY <1>1, <1>3, <1>4, <2>1, PathGivenUp
  <1> QED BY <1>5, <1>6 DEF PathInv

LEMMA PathReleased ==
    ASSUME PathInv, TypeInv', NEW c \in Call, DropPath(c)
    PROVE  PathInv'
  <1>1. reservation[c].path \in Path \cup {NoPath}
    BY DEF PathInv, TypeInv, TypeOK
  <1>2. reservation[c].path # NoPath => agentTree[reservation[c].path].id = NoThread
    BY <1>1 DEF PathInv, ReservedPathHeld, Agent
  <1>3. \A p \in Path : agentTree'[p] = IF p = reservation[c].path THEN Vacant
                                       ELSE agentTree[p]
    BY <1>1, <1>2, NullAssumption
       DEF DropPath, PathDropped, Key, PathInv, TypeInv, TypeOK
  <1>4. /\ reservation'[c].path = NoPath
        /\ \A d \in Call \ {c} : reservation'[d].path = reservation[d].path
    BY DEF DropPath, PathInv, TypeInv, TypeOK
  <1>5. PathFollowsStep'
    <2>1. PathFits(c, reservation'[c].path, "uncount")
      BY <1>4 DEF PathFits
    <2> QED BY <1>4, <2>1, PathFollows DEF DropPath, Goto, PathInv, TypeInv, TypeOK
  <1>6. ReservedPathHeld'
    <2>1. ~(Vacant.present /\ Vacant.id = NoThread)
      BY DEF Vacant
    <2> QED BY <1>1, <1>3, <1>4, <2>1, PathGivenUp
  <1> QED BY <1>5, <1>6 DEF PathInv

(* Only entries that have an agent are released.                           *)
LEMMA PathAgentReleased ==
    ASSUME PathInv, TypeInv', NEW c \in Call, Release(c)
    PROVE  PathInv'
  <1>1. UNCHANGED reservation
    BY DEF Release
  <1>2. PathFollowsStep'
    <2>1. PICK step \in {"done", "uncount"} : pc' = [pc EXCEPT ![c] = step]
      BY DEF Release, Goto
    <2>2. reservation[c].path = NoPath
      BY DEF Release, PathInv, PathFollowsStep
    <2>3. PathFits(c, reservation'[c].path, step)
      BY <1>1, <2>1, <2>2 DEF PathFits
    <2> QED BY <1>1, <2>1, <2>3, PathFollows DEF PathInv, TypeInv, TypeOK
  <1>3. c.thread # NoThread
    BY CallFields, NullAssumption
  <1>4. \A p \in Path : \/ agentTree'[p] = agentTree[p]
                        \/ agentTree[p].id # NoThread /\ agentTree'[p] = Vacant
    BY <1>3 DEF Release, Key, PathInv, TypeInv, TypeOK
  <1>5. ReservedPathHeld'
    <2> SUFFICES ASSUME NEW p \in Path
                 PROVE
           /\ agentTree'[p].present /\ agentTree'[p].id = NoThread
                => \E d \in Call : reservation[d].path = p
           /\ \A d, e \in Call :
                reservation[d].path = p /\ reservation[e].path = p => d = e
           /\ \A d \in Call :
                reservation[d].path = p => agentTree'[p] = Agent(NoThread, NoNickname)
      BY <1>1 DEF ReservedPathHeld
    <2>1. CASE agentTree'[p] = agentTree[p]
      BY <2>1 DEF PathInv, ReservedPathHeld
    <2>2. CASE agentTree[p].id # NoThread /\ agentTree'[p] = Vacant
      BY <2>2 DEF PathInv, ReservedPathHeld, Agent, Vacant
    <2> QED BY <1>4, <2>1, <2>2
  <1> QED BY <1>2, <1>5 DEF PathInv

LEMMA StepKeepsPaths == PathInv /\ [Next]_vars => PathInv'
  <1> SUFFICES ASSUME PathInv, [Next]_vars PROVE PathInv'
    OBVIOUS
  <1>1. TypeInv'
    BY StepTyped DEF PathInv
  <1>2. ASSUME NEW c \in Call, CallStep(c) PROVE PathInv'
    BY <1>1, <1>2, PathQuietSteps, PathRootSteps, PathReserved, PathCommitted, PathReleased,
       PathAgentReleased DEF CallStep
  <1>3. ASSUME NEW t \in Thread, Die(t) \/ Unload(t) PROVE PathInv'
    BY <1>1, <1>3, PathsUntouched DEF Die, Unload, registry, PathInv, PathFollowsStep
  <1>4. CASE UNCHANGED vars
    BY <1>1, <1>4, PathsUntouched DEF vars, PathInv, PathFollowsStep
  <1> QED BY <1>2, <1>3, <1>4 DEF Next

LEMMA InitKeepsPaths == Init => PathInv
  <1> SUFFICES ASSUME Init PROVE PathInv
    OBVIOUS
  <1>1. \A c \in Call : FirstStep(c) \in {"reserve", "status", "restore", "send", "close"}
    BY CallFields DEF FirstStep
  <1>2. PathFollowsStep
    BY <1>1 DEF Init, PathFollowsStep
  <1>3. ReservedPathHeld
    BY NullAssumption DEF Init, ReservedPathHeld, Vacant, Key
  <1> QED BY <1>2, <1>3, InitTyped DEF PathInv

THEOREM PathInvariance == Spec => []PathInv
  BY InitKeepsPaths, StepKeepsPaths, PTL DEF Spec

(* A path that a spawn reserved is its own, whoever else asks for it, and  *)
(* is freed by its own drop or commit only.                                *)
THEOREM PathsAreHeld == Spec => []ReservedPathHeld
  <1>1. PathInv => ReservedPathHeld
    BY DEF PathInv
  <1> QED BY <1>1, PathInvariance, PTL

(* Every reachable state is well typed.                                    *)
THEOREM RegistryTyped == Spec => []TypeOK
  <1>1. PathInv => TypeOK
    BY DEF PathInv, TypeInv
  <1> QED BY <1>1, PathInvariance, PTL

-----------------------------------------------------------------------------
(* Nicknames.                                                              *)

(* No call brings a nickname of its own.                                   *)
FreshNames == \A c \in Call : Made(c) => c.prefers = NoNickname

(* The calls that hold a nickname, and nicknames that the registry gave    *)
(* out: of the generation that is in use only those it knows as used.      *)
Named == {c \in Call : pc[c] \in {"start", "finish", "started", "commit"}}

Given(n) ==
    /\ n \in Nickname
    /\ n[2] <= nicknameResets
    /\ n[2] = nicknameResets => n \in usedNicknames

NamesGiven ==
    /\ \A c \in Named : Given(reservation[c].nickname)
    /\ \A k \in Counted : Given(agentTree[k].nickname)

NamesApart ==
    /\ \A c, d \in Named : reservation[c].nickname = reservation[d].nickname => c = d
    /\ \A c \in Named, k \in Counted : reservation[c].nickname # agentTree[k].nickname
    /\ \A j, k \in Counted : agentTree[j].nickname = agentTree[k].nickname => j = k

NameInv == TypeInv /\ (FreshNames => NamesGiven /\ NamesApart)

(* Steps that give nobody a nickname.                                      *)
LEMMA NamesKept ==
    ASSUME NamesGiven, NamesApart,
           nicknameResets' = nicknameResets, usedNicknames \subseteq usedNicknames',
           Named' \subseteq Named,
           \A d \in Named' : reservation'[d].nickname = reservation[d].nickname,
           \A k \in Counted' : k \in Counted /\ agentTree'[k] = agentTree[k]
    PROVE  NamesGiven' /\ NamesApart'
  <1>1. \A n : Given(n) => Given(n)'
    BY DEF Given
  <1>2. NamesGiven'
    BY <1>1 DEF NamesGiven, Given
  <1>3. NamesApart'
    BY DEF NamesApart
  <1> QED BY <1>2, <1>3

(* A nickname that nobody has goes to one more call.                       *)
LEMMA NameTaken ==
    ASSUME NamesGiven, NamesApart, TypeInv, NEW c \in Call, NEW n \in Nickname, NEW used,
           TakeNickname(c, n, used), Given(n)',
           \A m : Given(m) => Given(m)' /\ m # n
    PROVE  NamesGiven' /\ NamesApart'
  <1>1. /\ reservation' = [reservation EXCEPT ![c].nickname = n]
        /\ agentTree' = agentTree
        /\ \A d \in Call \ {c} : pc'[d] = pc[d]
    BY DEF TakeNickname, Goto, TypeInv, TypeOK
  <1>2. /\ reservation'[c].nickname = n
        /\ \A d \in Call \ {c} : reservation'[d].nickname = reservation[d].nickname
    BY <1>1 DEF TypeInv, TypeOK
  <1>3. /\ Counted' = Counted
        /\ \A d \in Named' : d = c \/ d \in Named \ {c}
    BY <1>1 DEF Counted, Named
  <1>4. /\ \A d \in Named : reservation[d].nickname # n
        /\ \A k \in Counted : agentTree[k].nickname # n
    BY DEF NamesGiven
  <1>5. NamesGiven'
    <2>1. ASSUME NEW d \in Named' PROVE Given(reservation[d].nickname)'
      <3>1. CASE d = c
        BY <1>2, <3>1 DEF Given
      <3>2. CASE d \in Named \ {c}
        <4>1. reservation'[d].nickname = reservation[d].nickname
          BY <1>2, <3>2 DEF Named
        <4>2. Given(reservation[d].nickname)
          BY <3>2 DEF NamesGiven
        <4>3. DEFINE m == reservation[d].nickname
        <4> HIDE DEF m
        <4> QED BY <4>1, <4>2 DEF Given, m
      <3> QED BY <1>3, <2>1, <3>1, <3>2
    <2>2. ASSUME NEW k \in Counted' PROVE Given(agentTree[k].nickname)'
      <3>1. Given(agentTree[k].nickname)
        BY <1>3, <2>2 DEF NamesGiven
      <3> QED BY <1>1, <3>1 DEF Given
    <2> QED BY <2>1, <2>2 DEF NamesGiven
  <1>6. NamesApart'
    <2>1. \A d, e \in Named' :
            reservation'[d].nickname = reservation'[e].nickname => d = e
      BY <1>2, <1>3, <1>4 DEF NamesApart, Named
    <2>2. \A d \in Named', k \in Counted' :
            reservation'[d].nickname # agentTree'[k].nickname
      BY <1>1, <1>2, <1>3, <1>4 DEF NamesApart, Named
    <2>3. \A j, k \in Counted' : agentTree'[j].nickname = agentTree'[k].nickname => j = k
      BY <1>1, <1>3 DEF NamesApart
    <2> QED BY <2>1, <2>2, <2>3 DEF NamesApart
  <1> QED BY <1>5, <1>6

LEMMA FreeNameTaken ==
    ASSUME NamesGiven, NamesApart, TypeInv, NEW c \in Call, FreeNickname(c)
    PROVE  NamesGiven' /\ NamesApart'
  <1>1. PICK n \in Available(c) : TakeNickname(c, n, usedNicknames)
    BY DEF FreeNickname
  <1>2. n \in Nickname /\ n[2] = nicknameResets /\ n \notin usedNicknames
    BY CallFields DEF Available, Nickname, TypeInv, TypeOK
  <1>3. usedNicknames' = usedNicknames \cup {n} /\ nicknameResets' = nicknameResets
    BY <1>1 DEF FreeNickname, TakeNickname
  <1>4. Given(n)'
    BY <1>2, <1>3 DEF Given, TypeInv, TypeOK
  <1>5. \A m : Given(m) => Given(m)' /\ m # n
    BY <1>2, <1>3 DEF Given
  <1> QED BY <1>1, <1>2, <1>4, <1>5, NameTaken

(* A reset forgets what is used, but its nicknames are of a generation     *)
(* that nobody has one of.                                                 *)
LEMMA NewGenerationTaken ==
    ASSUME NamesGiven, NamesApart, TypeInv, NEW c \in Call, ResetNicknames(c)
    PROVE  NamesGiven' /\ NamesApart'
  <1>1. PICK n \in c.names \X {nicknameResets + 1} : TakeNickname(c, n, {})
    BY DEF ResetNicknames
  <1>2. n \in Nickname /\ n[2] = nicknameResets + 1 /\ nicknameResets \in Nat
    BY CallFields DEF Nickname, TypeInv, TypeOK
  <1>3. usedNicknames' = {n} /\ nicknameResets' = nicknameResets + 1
    BY <1>1 DEF ResetNicknames, TakeNickname
  <1>4. Given(n)'
    BY <1>2, <1>3 DEF Given
  <1>5. \A m : Given(m) => Given(m)' /\ m # n
    <2> SUFFICES ASSUME NEW m, Given(m) PROVE Given(m)' /\ m # n
      OBVIOUS
    <2>1. m \in Nickname /\ m[2] \in Nat /\ m[2] <= nicknameResets
      BY DEF Given, Nickname
    <2>2. m[2] <= nicknameResets + 1 /\ m[2] # nicknameResets + 1
      BY <1>2, <2>1
    <2> QED BY <1>2, <1>3, <2>1, <2>2 DEF Given
  <1> QED BY <1>1, <1>2, <1>4, <1>5, NameTaken

(* A commit passes the nickname from the call to the agent.                *)
LEMMA NameCommitted ==
    ASSUME NamesGiven, NamesApart, TypeInv, NEW c \in Call, Commit(c)
    PROVE  NamesGiven' /\ NamesApart'
  <1> DEFINE k0 == KeyOf(c)
             n == reservation[c].nickname
  <1>1. /\ k0 \in Key
        /\ agentTree'[k0].nickname = n
        /\ \A k \in Key \ {k0} : agentTree'[k] = agentTree[k]
    BY CallFields DEF Commit, Agent, TypeInv, TypeOK
  <1>2. /\ c \in Named
        /\ Named' \subseteq Named \ {c}
        /\ \A d \in Call : reservation'[d].nickname = reservation[d].nickname
    BY DEF Commit, Committing, Goto, Named, TypeInv, TypeOK
  <1>3. \A k \in Counted' : k = k0 \/ k \in Counted \ {k0}
    BY <1>1 DEF Counted
  <1> HIDE DEF k0, n
  <1>4. n = reservation[c].nickname
    BY DEF n
  <1>5. nicknameResets' = nicknameResets /\ usedNicknames \subseteq usedNicknames'
    BY DEF Commit
  <1>6. \A m : Given(m) => Given(m)'
    BY <1>5 DEF Given
  <1>7. /\ Given(n)
        /\ \A d \in Named \ {c} : reservation[d].nickname # n
        /\ \A k \in Counted : agentTree[k].nickname # n
    BY <1>2, <1>4 DEF NamesGiven, NamesApart
  <1>8. \A k \in Counted' : \/ k = k0 /\ agentTree'[k].nickname = n
                            \/ /\ k \in Counted \ {k0}
                               /\ agentTree'[k].nickname = agentTree[k].nickname
    BY <1>1, <1>3 DEF Counted
  <1>9. NamesGiven'
    <2>1. ASSUME NEW d \in Named' PROVE Given(reservation[d].nickname)'
      <3>1. /\ reservation'[d].nickname = reservation[d].nickname
            /\ Given(reservation[d].nickname)
        BY <1>2, <2>1 DEF NamesGiven, Named
      <3> QED BY <1>5, <3>1 DEF Given
    <2>2. ASSUME NEW k \in Counted' PROVE Given(agentTree[k].nickname)'
      <3>1. Given(agentTree'[k].nickname)
        BY <1>7, <1>8, <2>2 DEF NamesGiven
      <3> QED BY <1>5, <3>1 DEF Given
    <2> QED BY <2>1, <2>2 DEF NamesGiven
  <1>10. NamesApart'
    <2>1. \A d, e \in Named' :
            reservation'[d].nickname = reservation'[e].nickname => d = e
      BY <1>2 DEF NamesApart, Named
    <2>2. \A d \in Named', k \in Counted' :
            reservation'[d].nickname # agentTree'[k].nickname
      BY <1>2, <1>7, <1>8 DEF NamesApart, Named
    <2>3. \A j, k \in Counted' : agentTree'[j].nickname = agentTree'[k].nickname => j = k
      BY <1>7, <1>8 DEF NamesApart
    <2> QED BY <2>1, <2>2, <2>3 DEF NamesApart
  <1> QED BY <1>9, <1>10

LEMMA NameQuietSteps ==
    ASSUME NamesGiven, NamesApart, TypeInv, NEW c \in Call,
           \/ CheckStatus(c) \/ RestoreBegin(c) \/ RestoreLookup(c) \/ Reserve(c)
           \/ Refuse(c) \/ RegisterRoot(c) \/ ReservePath(c) \/ ReserveNoPath(c)
           \/ StartThread(c) \/ FinishThread(c) \/ StartFailed(c) \/ DropPath(c)
           \/ Uncount(c) \/ Send(c) \/ Close(c) \/ ForgetThread(c) \/ Cancel(c) \/ Release(c)
    PROVE  NamesGiven' /\ NamesApart'
  <1>1. nicknameResets' = nicknameResets /\ usedNicknames' = usedNicknames
    BY DEF CheckStatus, RestoreBegin, RestoreLookup, Reserve, Refuse, RegisterRoot,
           ReservePath, ReserveNoPath, StartThread, FinishThread, StartFailed, DropPath,
           Uncount, Send, Close, ForgetThread, Cancel, Release, registry
  <1>2. Named' \subseteq Named
    <2> USE DEF TypeInv, TypeOK, Goto, Named
    <2>1. CASE \/ CheckStatus(c) \/ RestoreBegin(c) \/ RestoreLookup(c) \/ Reserve(c)
               \/ Refuse(c) \/ RegisterRoot(c) \/ ReservePath(c) \/ ReserveNoPath(c)
      BY <2>1 DEF CheckStatus, RestoreBegin, RestoreLookup, Reserve, Refuse, RegisterRoot,
                  ReservePath, ReserveNoPath
    <2>2. CASE \/ StartThread(c) \/ FinishThread(c) \/ StartFailed(c) \/ DropPath(c)
               \/ Uncount(c) \/ Send(c) \/ Close(c) \/ ForgetThread(c) \/ Cancel(c)
      BY <2>2 DEF StartThread, FinishThread, StartFailed, DropPath, Uncount, Send, Close,
                  ForgetThread, Cancel
    <2>3. CASE Release(c)
      BY <2>3 DEF Release
    <2> QED BY <2>1, <2>2, <2>3
  <1>3. \A d \in Call : reservation'[d].nickname = reservation[d].nickname
    BY DEF CheckStatus, RestoreBegin, RestoreLookup, Reserve, Refuse, RegisterRoot,
           ReservePath, ReserveNoPath, StartThread, FinishThread, StartFailed, DropPath,
           Uncount, Send, Close, ForgetThread, Cancel, Release, TypeInv, TypeOK
  <1>4. \A k \in Counted' : k \in Counted /\ agentTree'[k] = agentTree[k]
    <2> USE DEF TypeInv, TypeOK, Counted
    <2>1. CASE RestoreBegin(c) \/ RegisterRoot(c)
      BY <2>1, RootRegisteredTyped DEF RestoreBegin, RegisterRoot
    <2>2. CASE ReservePath(c)
      BY <2>2, CallFields DEF ReservePath, Agent, Key
    <2>3. CASE DropPath(c)
      BY <2>3, CallFields DEF DropPath, PathDropped, Vacant, Key
    <2>4. CASE Release(c)
      BY <2>4 DEF Release, Vacant
    <2>5. CASE agentTree' = agentTree
      BY <2>5
    <2>6. CASE \/ CheckStatus(c) \/ RestoreLookup(c) \/ Reserve(c) \/ Refuse(c)
               \/ ReserveNoPath(c) \/ StartThread(c) \/ FinishThread(c)
               \/ StartFailed(c) \/ Uncount(c) \/ Send(c) \/ Close(c) \/ ForgetThread(c) \/ Cancel(c)
      BY <2>5, <2>6 DEF CheckStatus, RestoreLookup, Reserve, Refuse, ReserveNoPath,
                        StartThread, FinishThread, StartFailed, Uncount, Send, Close,
                        ForgetThread, Cancel, registry
    <2> QED BY <2>1, <2>2, <2>3, <2>4, <2>6
  <1>5. \A d \in Named' : reservation'[d].nickname = reservation[d].nickname
    BY <1>3 DEF Named
  <1> QED BY <1>1, <1>2, <1>4, <1>5, NamesKept

LEMMA StepKeepsNames == NameInv /\ [Next]_vars => NameInv'
  <1> SUFFICES ASSUME NameInv, [Next]_vars PROVE NameInv'
    OBVIOUS
  <1>1. TypeInv /\ TypeInv'
    BY StepTyped DEF NameInv
  <1>2. SUFFICES ASSUME FreshNames' PROVE NamesGiven' /\ NamesApart'
    BY <1>1 DEF NameInv
  <1>3. FreshNames
    BY <1>1, <1>2, CallsStayMade DEF FreshNames
  <1>4. NamesGiven /\ NamesApart
    BY <1>3 DEF NameInv
  <1>5. ASSUME NEW c \in Call, CallStep(c) PROVE NamesGiven' /\ NamesApart'
    <2>1. ~PreferredNickname(c)
      BY <1>3 DEF FreshNames, Made, PreferredNickname
    <2> QED BY <1>1, <1>4, <1>5, <2>1, FreeNameTaken, NewGenerationTaken, NameCommitted,
               NameQuietSteps DEF CallStep
  <1>6. ASSUME NEW t \in Thread, Die(t) \/ Unload(t) PROVE NamesGiven' /\ NamesApart'
    <2>1. UNCHANGED <<registry, pc, reservation>>
      BY <1>6 DEF Die, Unload
    <2>2. Named' = Named /\ Counted' = Counted
      BY <2>1 DEF Named, Counted, registry
    <2> QED BY <1>4, <2>1, <2>2, NamesKept DEF registry
  <1>7. CASE UNCHANGED vars
    <2>1. Named' = Named /\ Counted' = Counted
      BY <1>7 DEF Named, Counted, vars
    <2> QED BY <1>4, <1>7, <2>1, NamesKept DEF vars
  <1> QED BY <1>5, <1>6, <1>7 DEF Next

LEMMA InitKeepsNames == Init => NameInv
  <1> SUFFICES ASSUME Init PROVE NameInv
    OBVIOUS
  <1>1. \A c \in Call : FirstStep(c) \notin {"start", "finish", "started", "commit"}
    BY CallFields DEF FirstStep
  <1>2. Named = {}
    BY <1>1 DEF Init, Named
  <1>3. Counted = {}
    BY DEF Init, Counted, Vacant
  <1> QED BY <1>2, <1>3, InitTyped DEF NameInv, NamesGiven, NamesApart

(* No two agents have the same nickname while the registry gives them out, *)
(* also across any number of resets of the pool.                           *)
THEOREM NicknamesStayDistinct == Spec => []NicknamesDistinct
  <1>1. NameInv => NicknamesDistinct
    BY DEF NameInv, NamesApart, FreshNames, NicknamesDistinct
  <1> QED BY <1>1, InitKeepsNames, StepKeepsNames, PTL DEF Spec

-----------------------------------------------------------------------------
(* Places in the tree.                                                     *)

(* The entry of an agent without a path is its own.                        *)
OwnEntries == \A t \in Thread : agentTree[t].id \in {t, NoThread}

PlaceInv == PathInv /\ OwnEntries

(* Whoever is in the entry that a step writes stays there or leaves it.    *)
EntryKept ==
    \A k \in Key : \/ agentTree'[k] = agentTree[k]
                   \/ agentTree'[k].id = NoThread
                   \/ agentTree[k].id = NoThread /\ k \in Path
                   \/ k \in Thread /\ agentTree'[k].id = k

LEMMA StepKeepsEntries == PlaceInv /\ [Next]_vars => EntryKept
  <1> SUFFICES ASSUME PlaceInv, [Next]_vars PROVE EntryKept
    OBVIOUS
  <1> USE DEF PlaceInv, PathInv, TypeInv, TypeOK
  <1>1. ASSUME NEW c \in Call, RestoreBegin(c) \/ RegisterRoot(c) PROVE EntryKept
    BY <1>1, KeyAssumption
       DEF RestoreBegin, RegisterRoot, RootRegistered, VacantHasNoAgent, EntryKept, Key
  <1>2. ASSUME NEW c \in Call, ReservePath(c) PROVE EntryKept
    BY <1>2 DEF ReservePath, Agent, EntryKept
  <1>3. ASSUME NEW c \in Call, Commit(c) PROVE EntryKept
    <2>1. /\ \A k \in Key \ {KeyOf(c)} : agentTree'[k] = agentTree[k]
          /\ agentTree'[KeyOf(c)].id = c.thread
      BY <1>3, CallFields DEF Commit, Agent
    <2>2. reservation[c].path = c.path
      BY <1>3 DEF Commit, Committing, PathFollowsStep
    <2>3. CASE c.path = NoPath
      BY <2>1, <2>3, CallFields DEF KeyOf, EntryKept
    <2>4. CASE c.path # NoPath
      <3>1. c.path \in Path /\ KeyOf(c) = c.path
        BY <2>4, CallFields DEF KeyOf
      <3>2. agentTree[c.path].id = NoThread
        BY <2>2, <3>1 DEF ReservedPathHeld, Agent
      <3> QED BY <2>1, <3>1, <3>2 DEF EntryKept
    <2> QED BY <2>3, <2>4
  <1>4. ASSUME NEW c \in Call, DropPath(c) PROVE EntryKept
    BY <1>4 DEF DropPath, PathDropped, Vacant, EntryKept
  <1>5. ASSUME NEW c \in Call, Release(c) PROVE EntryKept
    BY <1>5 DEF Release, Vacant, EntryKept
  <1>6. CASE agentTree' = agentTree
    BY <1>6 DEF EntryKept
  <1>7. ASSUME NEW c \in Call,
               \/ CheckStatus(c) \/ RestoreLookup(c) \/ Reserve(c) \/ Refuse(c)
               \/ ReserveNoPath(c) \/ PreferredNickname(c) \/ FreeNickname(c)
               \/ ResetNicknames(c) \/ StartThread(c) \/ FinishThread(c)
               \/ StartFailed(c) \/ Uncount(c) \/ Send(c) \/ Close(c)
               \/ ForgetThread(c) \/ Cancel(c)
        PROVE  agentTree' = agentTree
    BY <1>7 DEF CheckStatus, RestoreLookup, Reserve, Refuse, ReserveNoPath,
                PreferredNickname, FreeNickname, ResetNicknames, TakeNickname, StartThread,
                FinishThread, StartFailed, Uncount, Send, Close, ForgetThread, Cancel, registry
  <1>8. ASSUME NEW t \in Thread, Die(t) \/ Unload(t) PROVE agentTree' = agentTree
    BY <1>8 DEF Die, Unload, registry
  <1>9. CASE UNCHANGED vars
    BY <1>6, <1>9 DEF vars
  <1>10. ASSUME NEW c \in Call, CallStep(c) PROVE EntryKept
    BY <1>1, <1>2, <1>3, <1>4, <1>5, <1>6, <1>7, <1>10 DEF CallStep
  <1> QED BY <1>6, <1>8, <1>9, <1>10 DEF Next

LEMMA StepKeepsPlaces == PlaceInv /\ [Next]_vars => PlaceInv'
  <1> SUFFICES ASSUME PlaceInv, [Next]_vars PROVE PlaceInv'
    OBVIOUS
  <1>1. PathInv'
    BY StepKeepsPaths DEF PlaceInv
  <1>2. OwnEntries'
    BY StepKeepsEntries, KeyAssumption DEF PlaceInv, OwnEntries, EntryKept, Key
  <1> QED BY <1>1, <1>2 DEF PlaceInv

LEMMA InitKeepsPlaces == Init => PlaceInv
  <1> SUFFICES ASSUME Init PROVE PlaceInv
    OBVIOUS
  <1>1. OwnEntries
    BY DEF Init, OwnEntries, Vacant, Key
  <1> QED BY <1>1, InitKeepsPaths DEF PlaceInv

LEMMA StepKeepsAgents ==
    PlaceInv /\ [Next]_vars
      => [\A k \in Key :
            agentTree[k].id # NoThread /\ agentTree'[k].id # NoThread
              => agentTree'[k].id = agentTree[k].id]_vars
  BY StepKeepsEntries DEF PlaceInv, OwnEntries, EntryKept

(* An entry goes to another agent only once it was released                *)
(* (register_spawned_thread overwrites what it finds, and finds its own    *)
(* reservation or its own thread).                                         *)
THEOREM PlacesAreKept == Spec => AgentsKeepTheirPlace
  <1> QED BY InitKeepsPlaces, StepKeepsPlaces, StepKeepsAgents, PTL
          DEF Spec, AgentsKeepTheirPlace

-----------------------------------------------------------------------------
(* Where calls are, by what they do. *)

Starters == {"Spawn", "Resume", "Restore"}
Before == {"status", "restore", "lookup", "reserve", "root", "path", "nickname", "start",
           "finish", "started", "commit"}
After == {"send", "forget", "release", "uncount", "done"}

StepsFollow ==
    \A c \in Call :
        /\ pc[c] \in Before => c.op \in Starters
        /\ pc[c] \in {"status", "start"} => c.op = "Resume"
        /\ pc[c] \in {"restore", "lookup"} => c.op = "Restore"
        /\ pc[c] = "finish" => c.op \in {"Spawn", "Resume"}
        /\ pc[c] \in {"send", "close", "forget", "release"}
             => c.op \in {"Spawn", "Message", "Close"}

(* Which step a call goes on to.                                           *)
LEMMA CallMoves ==
    ASSUME TypeInv, StepsFollow, NEW c \in Call, CallStep(c)
    PROVE  /\ \A d \in Call \ {c} : pc'[d] = pc[d]
           /\ pc[c] # "off" /\ pc'[c] # "off" /\ pc'[c] # FirstStep(c)
           /\ pc[c] \in After => pc'[c] \in After
           /\ pc'[c] \in Before => pc[c] \in Before
           /\ pc'[c] \in {"status", "start"} => c.op = "Resume"
           /\ pc'[c] \in {"restore", "lookup"} => c.op = "Restore"
           /\ pc'[c] = "finish" => c.op \in {"Spawn", "Resume"}
           /\ pc'[c] \in {"send", "close", "forget", "release"}
                => c.op \in {"Spawn", "Message", "Close"}
  <1> USE DEF TypeInv, TypeOK, Goto, After, Before, StepsFollow, Steps, FirstStep, Starters
  <1>0. c.op \in {"Spawn", "Resume", "Restore", "Message", "Close"}
    BY CallFields
  <1>1. CASE CheckStatus(c) \/ RestoreBegin(c) \/ RestoreLookup(c)
    BY <1>0, <1>1 DEF CheckStatus, RestoreBegin, RestoreLookup
  <1>2. CASE Reserve(c) \/ Refuse(c) \/ RegisterRoot(c) \/ ReservePath(c) \/ ReserveNoPath(c)
    BY <1>0, <1>2 DEF Reserve, Refuse, RegisterRoot, ReservePath, ReserveNoPath
  <1>3. CASE PreferredNickname(c) \/ FreeNickname(c) \/ ResetNicknames(c)
    BY <1>0, <1>3 DEF PreferredNickname, FreeNickname, ResetNicknames, TakeNickname
  <1>4. CASE StartThread(c) \/ FinishThread(c) \/ StartFailed(c) \/ Commit(c)
    BY <1>0, <1>4 DEF StartThread, FinishThread, StartFailed, Commit, Committing
  <1>5. CASE DropPath(c) \/ Uncount(c) \/ Send(c) \/ ForgetThread(c) \/ Cancel(c)
    BY <1>0, <1>5 DEF DropPath, Uncount, Send, ForgetThread, Cancel
  <1>6. CASE Close(c)
    <2>1. pc[c] = "close" /\ (Goto(c, "forget") \/ Goto(c, "done"))
      BY <1>6 DEF Close
    <2> QED BY <1>0, <2>1
  <1>7. CASE Release(c)
    <2>1. pc[c] = "release" /\ (Goto(c, "uncount") \/ Goto(c, "done"))
      BY <1>7 DEF Release
    <2> QED BY <1>0, <2>1
  <1> QED BY <1>1, <1>2, <1>3, <1>4, <1>5, <1>6, <1>7 DEF CallStep

LEMMA InitFollows == Init => StepsFollow
  <1> SUFFICES ASSUME Init, NEW c \in Call
               PROVE  /\ pc[c] \in Before => c.op \in Starters
                      /\ pc[c] \in {"status", "start"} => c.op = "Resume"
                      /\ pc[c] \in {"restore", "lookup"} => c.op = "Restore"
                      /\ pc[c] = "finish" => c.op \in {"Spawn", "Resume"}
                      /\ pc[c] \in {"send", "close", "forget", "release"}
                           => c.op \in {"Spawn", "Message", "Close"}
    BY DEF StepsFollow
  <1>1. pc[c] = "off" \/ pc[c] = FirstStep(c)
    BY DEF Init
  <1> QED BY <1>1, CallFields DEF FirstStep, Before, Starters

LEMMA StepFollows == TypeInv /\ StepsFollow /\ [Next]_vars => StepsFollow'
  <1> SUFFICES ASSUME TypeInv, StepsFollow, [Next]_vars PROVE StepsFollow'
    OBVIOUS
  <1>1. ASSUME NEW c \in Call, CallStep(c) PROVE StepsFollow'
    <2> SUFFICES ASSUME NEW d \in Call
                 PROVE  /\ pc'[d] \in Before => d.op \in Starters
                        /\ pc'[d] \in {"status", "start"} => d.op = "Resume"
                        /\ pc'[d] \in {"restore", "lookup"} => d.op = "Restore"
                        /\ pc'[d] = "finish" => d.op \in {"Spawn", "Resume"}
                        /\ pc'[d] \in {"send", "close", "forget", "release"}
                             => d.op \in {"Spawn", "Message", "Close"}
      BY DEF StepsFollow
    <2>1. CASE d = c
      BY <1>1, <2>1, CallMoves DEF StepsFollow
    <2>2. CASE d # c
      BY <1>1, <2>2, CallMoves DEF StepsFollow
    <2> QED BY <2>1, <2>2
  <1>2. ASSUME NEW t \in Thread, Die(t) \/ Unload(t) PROVE StepsFollow'
    BY <1>2 DEF Die, Unload, StepsFollow
  <1>3. CASE UNCHANGED vars
    BY <1>3 DEF vars, StepsFollow
  <1> QED BY <1>1, <1>2, <1>3 DEF Next

-----------------------------------------------------------------------------
(* The counter is exact where no agent without a path is added twice. *)

(* Whoever is in the entry of a thread was committed there.                *)
Entered ==
    \A t \in Thread : agentTree[t].id # NoThread =>
        \E c \in Call : /\ c.path = NoPath /\ c.thread = t /\ c.op \in Starters
                        /\ pc[c] \in After

(* Where a call without a path, or with its reservation, commits, no agent *)
(* is.                                                                     *)
LEMMA CommitsToNobody ==
    ASSUME PlaceInv, StepsFollow, AddedOnce, Entered, NEW c \in Call, Committing(c)
    PROVE  agentTree[KeyOf(c)].id = NoThread
  <1>1. CASE c.path # NoPath
    <2>1. reservation[c].path = c.path /\ c.path \in Path /\ KeyOf(c) = c.path
      BY <1>1, CallFields DEF Committing, PlaceInv, PathInv, PathFollowsStep, KeyOf
    <2> QED BY <2>1 DEF PlaceInv, PathInv, ReservedPathHeld, Agent
  <1>2. CASE c.path = NoPath
    <2> SUFFICES ASSUME agentTree[c.thread].id # NoThread PROVE FALSE
      BY <1>2 DEF KeyOf
    <2>1. c.thread \in Thread /\ c.op \in Starters
      BY CallFields DEF Committing, StepsFollow, Before
    <2>2. PICK d \in Call : /\ d.path = NoPath /\ d.thread = c.thread /\ d.op \in Starters
                            /\ pc[d] \in After
      BY <2>1 DEF Entered
    <2>3. c # d /\ Made(c) /\ Made(d)
      BY <2>2 DEF Committing, After, Made
    <2> QED BY <1>2, <2>1, <2>2, <2>3 DEF AddedOnce, Starters
  <1> QED BY <1>1, <1>2

(* Only a commit puts an agent into an entry.                              *)
LEMMA EntriesOnlyLeave ==
    ASSUME TypeInv, NEW c \in Call, CallStep(c), ~Commit(c), NEW k \in Key \ {RootPath}
    PROVE  agentTree'[k].id \in {agentTree[k].id, NoThread}
  <1> USE DEF TypeInv, TypeOK
  <1>1. CASE RestoreBegin(c) \/ RegisterRoot(c)
    BY <1>1, RootRegisteredTyped DEF RestoreBegin, RegisterRoot
  <1>2. CASE ReservePath(c)
    BY <1>2 DEF ReservePath, Agent
  <1>3. CASE DropPath(c)
    BY <1>3 DEF DropPath, PathDropped, Vacant
  <1>4. CASE Release(c)
    BY <1>4 DEF Release, Vacant
  <1>5. CASE \/ CheckStatus(c) \/ RestoreLookup(c) \/ Reserve(c) \/ Refuse(c)
             \/ ReserveNoPath(c) \/ PreferredNickname(c) \/ FreeNickname(c)
             \/ ResetNicknames(c) \/ StartThread(c) \/ FinishThread(c)
             \/ StartFailed(c) \/ Uncount(c) \/ Send(c) \/ Close(c) \/ ForgetThread(c) \/ Cancel(c)
    BY <1>5 DEF CheckStatus, RestoreLookup, Reserve, Refuse, ReserveNoPath,
                PreferredNickname, FreeNickname, ResetNicknames, TakeNickname, StartThread,
                FinishThread, StartFailed, Uncount, Send, Close, ForgetThread, Cancel, registry
  <1> QED BY <1>1, <1>2, <1>3, <1>4, <1>5 DEF CallStep

LEMMA StepEnters ==
    ASSUME TypeInv, StepsFollow, Entered, [Next]_vars
    PROVE  Entered'
  <1>1. ASSUME NEW c \in Call, CallStep(c) PROVE Entered'
    <2> SUFFICES ASSUME NEW t \in Thread, agentTree'[t].id # NoThread
                 PROVE  \E d \in Call : /\ d.path = NoPath /\ d.thread = t /\ d.op \in Starters
                                        /\ pc'[d] \in After
      BY DEF Entered
    <2>1. t \in Key /\ t # RootPath /\ t \notin Path
      BY KeyAssumption DEF Key
    <2>2. CASE agentTree[t].id # NoThread
      <3>1. PICK d \in Call : /\ d.path = NoPath /\ d.thread = t /\ d.op \in Starters
                              /\ pc[d] \in After
        BY <2>2 DEF Entered
      <3>2. pc'[d] \in After
        BY <1>1, <3>1, CallMoves
      <3> QED BY <3>1, <3>2
    <2>3. CASE agentTree[t].id = NoThread
      <3>1. Commit(c)
        BY <1>1, <2>1, <2>3, EntriesOnlyLeave
      <3>2. KeyOf(c) = t
        BY <2>3, <3>1 DEF Commit, TypeInv, TypeOK
      <3>3. c.path = NoPath /\ c.thread = t
        BY <2>1, <3>2, CallFields DEF KeyOf
      <3>4. c.op \in Starters /\ pc'[c] \in After
        BY <3>1 DEF Commit, Committing, StepsFollow, Before, After, Goto, TypeInv, TypeOK
      <3> QED BY <3>3, <3>4
    <2> QED BY <2>2, <2>3
  <1>2. ASSUME NEW t \in Thread, Die(t) \/ Unload(t) PROVE Entered'
    BY <1>2 DEF Die, Unload, Entered, registry
  <1>3. CASE UNCHANGED vars
    BY <1>3 DEF vars, Entered
  <1> QED BY <1>1, <1>2, <1>3 DEF Next

ExactInv ==
    /\ CountInv /\ PlaceInv /\ StepsFollow
    /\ AddedOnce => NoSlotLost /\ Entered

LEMMA InitExact == Init => ExactInv
  <1> SUFFICES ASSUME Init PROVE ExactInv
    OBVIOUS
  <1>1. Holding = {}
    <2>1. \A c \in Call : FirstStep(c) \in {"reserve", "status", "restore", "send", "close"}
      BY CallFields DEF FirstStep
    <2> QED BY <2>1 DEF Init, Holding
  <1>2. Counted = {}
    BY DEF Init, Counted, Vacant
  <1>3. NoSlotLost
    BY <1>1, <1>2, FS_EmptySet DEF Init, NoSlotLost
  <1>4. Entered
    BY DEF Init, Entered, Vacant, Key
  <1> QED BY <1>3, <1>4, InitCounts, InitKeepsPlaces, InitFollows DEF ExactInv

(* A call that passes its slot to an agent, or back, or gives it up.       *)
LEMMA CallKeepsSlots ==
    ASSUME CountInv, PlaceInv, StepsFollow, AddedOnce, NoSlotLost, Entered,
           NEW c \in Call, CallStep(c)
    PROVE  NoSlotLost'
  <1> USE DEF CountInv, TypeInv, TypeOK
  <1>1. CASE Reserve(c)
    <2>1. c \notin Holding /\ Holding' = Holding \cup {c} /\ Counted' = Counted
      BY <1>1 DEF Reserve, Goto, Holding, Counted
    <2>2. totalCount' = totalCount + 1
      BY <1>1 DEF Reserve
    <2>3. Cardinality(Holding') = Cardinality(Holding) + 1
      BY <2>1, Sizes, FS_AddElement
    <2> QED BY <2>1, <2>2, <2>3, Sizes DEF NoSlotLost
  <1>2. CASE Commit(c)
    <2> DEFINE k == KeyOf(c)
    <2>1. c \in Holding /\ Holding' = Holding \ {c}
      BY <1>2 DEF Commit, Committing, Goto, Holding
    <2>2. k \notin Counted /\ Counted' = Counted \cup {k}
      <3>1. Committing(c)
        BY <1>2 DEF Commit
      <3>2. agentTree[k].id = NoThread
        BY <3>1, CommitsToNobody
      <3>3. agentTree' = [agentTree EXCEPT ![k] = Agent(c.thread, reservation[c].nickname)]
        BY <1>2 DEF Commit
      <3>4. k \in Key /\ k # RootPath /\ c.thread # NoThread
        BY CallFields, NullAssumption
      <3> HIDE DEF k
      <3> QED BY <3>2, <3>3, <3>4 DEF Counted, Agent
    <2> HIDE DEF k
    <2>3. totalCount' = totalCount
      BY <1>2 DEF Commit
    <2>4. Cardinality(Holding') = Cardinality(Holding) - 1
      BY <2>1, Sizes, FS_RemoveElement
    <2>5. Cardinality(Counted') = Cardinality(Counted) + 1
      BY <2>2, Sizes, FS_AddElement
    <2> QED BY <2>3, <2>4, <2>5, Sizes DEF NoSlotLost
  <1>3. CASE Uncount(c)
    <2>1. c \in Holding /\ Holding' = Holding \ {c} /\ Counted' = Counted
      BY <1>3 DEF Uncount, Goto, Holding, Counted
    <2>2. Cardinality(Holding') = Cardinality(Holding) - 1
      BY <2>1, Sizes, FS_RemoveElement
    <2>3. totalCount >= 1
      BY <2>2, Sizes DEF CountCoversAgents
    <2>4. totalCount' = totalCount - 1
      BY <1>3, <2>3 DEF Uncount, Decremented
    <2> QED BY <2>1, <2>2, <2>4, Sizes DEF NoSlotLost
  <1>4. CASE Release(c)
    <2>1. totalCount' = totalCount /\ c \notin Holding
      BY <1>4 DEF Release, Holding
    <2>2. CASE UNCHANGED agentTree /\ Goto(c, "done")
      <3>1. Holding' = Holding /\ Counted' = Counted
        BY <2>1, <2>2 DEF Goto, Holding, Counted
      <3> QED BY <2>1, <3>1 DEF NoSlotLost
    <2>3. ASSUME NEW k \in Key, agentTree[k].id = c.thread,
                 agentTree' = [agentTree EXCEPT ![k] = Vacant],
                 Goto(c, IF k = RootPath THEN "done" ELSE "uncount")
          PROVE  NoSlotLost'
      <3>1. CASE k = RootPath
        <4>1. Holding' = Holding /\ Counted' = Counted
          BY <2>1, <2>3, <3>1 DEF Goto, Holding, Counted
        <4> QED BY <2>1, <4>1 DEF NoSlotLost
      <3>2. CASE k # RootPath
        <4>1. Holding' = Holding \cup {c}
          BY <2>3, <3>2 DEF Goto, Holding
        <4>2. k \in Counted /\ Counted' = Counted \ {k}
          BY <2>3, <3>2, CallFields, NullAssumption DEF Counted, Vacant
        <4>3. Cardinality(Holding') = Cardinality(Holding) + 1
          BY <2>1, <4>1, Sizes, FS_AddElement
        <4>4. Cardinality(Counted') = Cardinality(Counted) - 1
          BY <4>2, Sizes, FS_RemoveElement
        <4> QED BY <2>1, <4>3, <4>4, Sizes DEF NoSlotLost
      <3> QED BY <3>1, <3>2
    <2> QED BY <1>4, <2>2, <2>3 DEF Release
  <1>5. Quiet => NoSlotLost'
    BY DEF Quiet, NoSlotLost
  <1> QED BY <1>1, <1>2, <1>3, <1>4, <1>5, QuietSteps DEF CallStep

LEMMA StepExact == ExactInv /\ [Next]_vars => ExactInv'
  <1> SUFFICES ASSUME ExactInv, [Next]_vars PROVE ExactInv'
    OBVIOUS
  <1>1. CountInv' /\ PlaceInv' /\ StepsFollow'
    BY StepCounts, StepKeepsPlaces, StepFollows DEF ExactInv, CountInv
  <1>2. AddedOnce' => AddedOnce
    <2>1. \A d \in Call : Made(d) => Made(d)'
      BY CallsStayMade DEF ExactInv, CountInv
    <2> QED BY <2>1 DEF AddedOnce, Made
  <1>3. ASSUME AddedOnce PROVE NoSlotLost' /\ Entered'
    <2>1. Entered'
      BY <1>3, StepEnters DEF ExactInv, CountInv
    <2>2. ASSUME NEW c \in Call, CallStep(c) PROVE NoSlotLost'
      BY <1>3, <2>2, CallKeepsSlots DEF ExactInv
    <2>3. ASSUME NEW t \in Thread, Die(t) \/ Unload(t) PROVE NoSlotLost'
      BY <1>3, <2>3 DEF Die, Unload, ExactInv, NoSlotLost, Holding, Counted, registry
    <2>4. ASSUME UNCHANGED vars PROVE NoSlotLost'
      BY <1>3, <2>4 DEF vars, ExactInv, NoSlotLost, Holding, Counted
    <2>5. NoSlotLost'
      BY <2>2, <2>3, <2>4 DEF Next
    <2> QED BY <2>1, <2>5
  <1> QED BY <1>1, <1>2, <1>3 DEF ExactInv

THEOREM ExactInvariance == Spec => []ExactInv
  BY InitExact, StepExact, PTL DEF Spec

(* Where no agent without a path is added twice, total_count is exactly    *)
(* the agents in the tree and the calls that hold a slot: no slot is lost, *)
(* however spawns, closes and failures interleave.                         *)
THEOREM NoSlotIsLost == Spec => []CountExact
  <1>1. ExactInv => CountExact
    BY DEF ExactInv, CountExact
  <1> QED BY <1>1, ExactInvariance, PTL

-----------------------------------------------------------------------------
(* Agents that run. *)

(* A thread that runs again while a call forgets its predecessor is a stray. *)
ForgottenAreStray ==
    \A d \in Call :
        pc[d] \in {"forget", "release"} /\ threads[d.thread] = "running"
          => d.thread \in strays

RunInv == PlaceInv /\ StepsFollow /\ ForgottenAreStray /\ RunningAreKnown

LEMMA InitRuns == Init => RunInv
  <1> SUFFICES ASSUME Init PROVE RunInv
    OBVIOUS
  <1>1. \A c \in Call : pc[c] \in {"off", FirstStep(c)}
    BY DEF Init
  <1>2. \A c \in Call : pc[c] \notin {"forget", "release"}
    BY <1>1, CallFields DEF FirstStep
  <1>3. \A t \in Thread \ {RootThread} : threads[t] # "running"
    BY DEF Init
  <1> QED BY <1>2, <1>3, InitKeepsPlaces, InitFollows
          DEF RunInv, ForgottenAreStray, RunningAreKnown

(* What a step does to the threads.                                        *)
LEMMA ThreadMoves ==
    ASSUME TypeInv, NEW c \in Call, CallStep(c)
    PROVE  \/ threads' = threads
           \/ /\ pc[c] = "start" /\ threads' = [threads EXCEPT ![c.thread] = "unloaded"]
           \/ /\ FinishThread(c)
              /\ threads' = [threads EXCEPT ![c.thread] = "running"]
           \/ /\ pc[c] = "close"
              /\ threads' = [threads EXCEPT ![c.thread] = "dead"]
           \/ /\ pc[c] = "forget" /\ threads' = [threads EXCEPT ![c.thread] = "unloaded"]
  <1> USE DEF TypeInv, TypeOK, Goto
  <1>1. CASE StartThread(c)
    BY <1>1 DEF StartThread
  <1>2. CASE FinishThread(c)
    BY <1>2 DEF FinishThread
  <1>3. CASE Close(c)
    BY <1>3 DEF Close
  <1>4. CASE ForgetThread(c)
    BY <1>4 DEF ForgetThread
  <1>5. CASE \/ CheckStatus(c) \/ RestoreBegin(c) \/ RestoreLookup(c) \/ Reserve(c)
             \/ Refuse(c) \/ RegisterRoot(c) \/ ReservePath(c) \/ ReserveNoPath(c)
             \/ PreferredNickname(c) \/ FreeNickname(c) \/ ResetNicknames(c)
             \/ StartFailed(c) \/ Commit(c) \/ DropPath(c) \/ Uncount(c) \/ Send(c)
             \/ Release(c) \/ Cancel(c)
    BY <1>5 DEF CheckStatus, RestoreBegin, RestoreLookup, Reserve, Refuse, RegisterRoot,
                ReservePath, ReserveNoPath, PreferredNickname, FreeNickname, ResetNicknames,
                TakeNickname, StartFailed, Commit, DropPath, Uncount, Send, Release, Cancel
  <1> QED BY <1>1, <1>2, <1>3, <1>4, <1>5 DEF CallStep

(* A thread comes to run only where a call finishes to start it.           *)
LEMMA RunsFrom ==
    ASSUME TypeInv, [Next]_vars, NEW t \in Thread, threads[t] # "running",
           threads'[t] = "running"
    PROVE  \E c \in Call : FinishThread(c) /\ c.thread = t
  <1>1. ASSUME NEW c \in Call, CallStep(c)
        PROVE  FinishThread(c) /\ c.thread = t
    BY <1>1, ThreadMoves, CallFields DEF TypeInv, TypeOK
  <1>2. ASSUME NEW u \in Thread, Die(u) \/ Unload(u) PROVE FALSE
    BY <1>2 DEF Die, Unload, TypeInv, TypeOK
  <1>3. ~ UNCHANGED vars
    BY DEF vars
  <1> QED BY <1>1, <1>2, <1>3 DEF Next

(* A stray that runs stays one.                                            *)
LEMMA StraysStay ==
    ASSUME TypeInv, [Next]_vars, NEW t \in strays, threads[t] = "running"
    PROVE  t \in strays'
  <1>1. ASSUME NEW c \in Call, FinishThread(c) PROVE t \in strays'
    BY <1>1 DEF FinishThread
  <1>2. ASSUME NEW c \in Call, Cancel(c) PROVE t \in strays'
    BY <1>2 DEF Cancel
  <1>3. ASSUME NEW c \in Call,
               \/ CheckStatus(c) \/ RestoreBegin(c) \/ RestoreLookup(c)
               \/ Reserve(c) \/ Refuse(c) \/ RegisterRoot(c)
               \/ ReservePath(c) \/ ReserveNoPath(c)
               \/ PreferredNickname(c) \/ FreeNickname(c) \/ ResetNicknames(c)
        PROVE  strays' = strays
    BY <1>3 DEF CheckStatus, RestoreBegin, RestoreLookup, Reserve, Refuse, RegisterRoot,
                ReservePath, ReserveNoPath, PreferredNickname, FreeNickname, ResetNicknames,
                TakeNickname
  <1>4. ASSUME NEW c \in Call,
               \/ StartThread(c) \/ StartFailed(c) \/ Commit(c) \/ DropPath(c)
               \/ Uncount(c) \/ Send(c) \/ Close(c) \/ ForgetThread(c) \/ Release(c)
        PROVE  strays' = strays
    BY <1>4 DEF StartThread, StartFailed, Commit, DropPath, Uncount, Send, Close,
                ForgetThread, Release
  <1>5. ASSUME NEW u \in Thread, Die(u) \/ Unload(u) PROVE strays' = strays
    BY <1>5 DEF Die, Unload
  <1>6. CASE UNCHANGED vars
    BY <1>6 DEF vars
  <1> QED BY <1>1, <1>2, <1>3, <1>4, <1>5, <1>6 DEF Next, CallStep

(* A call comes to forget a thread only when it does not run.              *)
LEMMA ForgetsTheDead ==
    ASSUME TypeInv, NEW d \in Call, CallStep(d),
           pc[d] \notin {"forget", "release"}, pc'[d] \in {"forget", "release"}
    PROVE  threads'[d.thread] # "running"
  <1> USE DEF TypeInv, TypeOK, Goto
  <1>0. d.thread \in Thread
    BY CallFields
  <1>1. CASE Send(d)
    BY <1>1 DEF Send
  <1>2. CASE Close(d)
    <2>1. CASE threads' = [threads EXCEPT ![d.thread] = "dead"]
      BY <1>0, <2>1
    <2>2. CASE threads[d.thread] # "running" /\ UNCHANGED threads
      BY <2>2
    <2>3. CASE Goto(d, "done")
      BY <2>3
    <2> QED BY <1>2, <2>1, <2>2, <2>3 DEF Close
  <1>3. CASE \/ CheckStatus(d) \/ RestoreBegin(d) \/ RestoreLookup(d) \/ Reserve(d)
             \/ Refuse(d) \/ RegisterRoot(d) \/ ReservePath(d) \/ ReserveNoPath(d)
    BY <1>3 DEF CheckStatus, RestoreBegin, RestoreLookup, Reserve, Refuse, RegisterRoot,
                ReservePath, ReserveNoPath
  <1>4. CASE PreferredNickname(d) \/ FreeNickname(d) \/ ResetNicknames(d)
    BY <1>4 DEF PreferredNickname, FreeNickname, ResetNicknames, TakeNickname
  <1>5. CASE \/ StartThread(d) \/ FinishThread(d) \/ StartFailed(d) \/ Commit(d)
             \/ DropPath(d) \/ Uncount(d) \/ Cancel(d)
    BY <1>5 DEF StartThread, FinishThread, StartFailed, Commit, DropPath, Uncount, Cancel
  <1>6. CASE ForgetThread(d) \/ Release(d)
    BY <1>6 DEF ForgetThread, Release
  <1> QED BY <1>1, <1>2, <1>3, <1>4, <1>5, <1>6 DEF CallStep

LEMMA StepForgets ==
    ASSUME TypeInv, StepsFollow, ForgottenAreStray, [Next]_vars
    PROVE  ForgottenAreStray'
  <1> SUFFICES ASSUME NEW d \in Call, pc'[d] \in {"forget", "release"},
                      threads'[d.thread] = "running"
               PROVE  d.thread \in strays'
    BY DEF ForgottenAreStray
  <1>0. d.thread \in Thread
    BY CallFields
  <1>1. CASE pc[d] \in {"forget", "release"} /\ threads[d.thread] = "running"
    BY <1>1, StraysStay DEF ForgottenAreStray
  <1>2. CASE pc[d] \in {"forget", "release"} /\ threads[d.thread] # "running"
    <2>1. PICK c \in Call : FinishThread(c) /\ c.thread = d.thread
      BY <1>0, <1>2, RunsFrom
    <2>2. BeingForgotten(c.thread)
      BY <1>2, <2>1 DEF BeingForgotten
    <2> QED BY <2>1, <2>2 DEF FinishThread
  <1>3. CASE pc[d] \notin {"forget", "release"}
    <2>1. PICK c \in Call : CallStep(c)
      BY <1>3 DEF Next, Die, Unload, vars
    <2>2. c = d
      BY <1>3, <2>1, CallMoves
    <2> QED BY <1>3, <2>1, <2>2, ForgetsTheDead
  <1> QED BY <1>1, <1>2, <1>3

(* An agent's entry goes only when a call releases the agent.              *)
LEMMA EntriesGo ==
    ASSUME PlaceInv, [Next]_vars, NEW t \in Thread, HasAgent(t), ~HasAgent(t)'
    PROVE  \E c \in Call : pc[c] = "release" /\ c.thread = t
  <1> USE DEF PlaceInv, PathInv, TypeInv, TypeOK
  <1>1. PICK k \in Key : agentTree[k].id = t
    BY DEF HasAgent
  <1>2. agentTree'[k].id # t /\ t # NoThread
    BY NullAssumption DEF HasAgent
  <1>3. agentTree'[k].id = NoThread
    BY <1>1, <1>2, StepKeepsEntries DEF EntryKept, OwnEntries
  <1>4. PICK c \in Call : CallStep(c)
    BY <1>1, <1>2 DEF Next, Die, Unload, registry, vars
  <1>5. CASE Release(c)
    <2>1. pc[c] = "release"
      BY <1>5 DEF Release
    <2>2. PICK j \in Key : /\ agentTree[j].id = c.thread
                           /\ agentTree' = [agentTree EXCEPT ![j] = Vacant]
      BY <1>1, <1>2, <1>5 DEF Release
    <2>3. j = k
      BY <1>1, <1>2, <2>2
    <2> QED BY <1>1, <2>1, <2>2, <2>3
  <1>6. CASE Commit(c)
    <2>1. agentTree'[KeyOf(c)].id = c.thread /\ c.thread # NoThread
      BY <1>6, CallFields, NullAssumption DEF Commit, Agent
    <2>2. \A j \in Key \ {KeyOf(c)} : agentTree'[j] = agentTree[j]
      BY <1>6 DEF Commit
    <2> QED BY <1>1, <1>2, <1>3, <2>1, <2>2
  <1>7. CASE RestoreBegin(c) \/ RegisterRoot(c)
    BY <1>1, <1>2, <1>7
       DEF RestoreBegin, RegisterRoot, RootRegistered, VacantHasNoAgent
  <1>8. CASE ReservePath(c)
    BY <1>1, <1>2, <1>8 DEF ReservePath, VacantHasNoAgent
  <1>9. CASE DropPath(c)
    BY <1>1, <1>2, <1>9 DEF DropPath, PathDropped
  <1>10. CASE \/ CheckStatus(c) \/ RestoreLookup(c) \/ Reserve(c) \/ Refuse(c)
              \/ ReserveNoPath(c) \/ PreferredNickname(c) \/ FreeNickname(c)
              \/ ResetNicknames(c) \/ StartThread(c) \/ FinishThread(c)
              \/ StartFailed(c) \/ Uncount(c) \/ Send(c) \/ Close(c) \/ ForgetThread(c) \/ Cancel(c)
    BY <1>1, <1>2, <1>10
       DEF CheckStatus, RestoreLookup, Reserve, Refuse, ReserveNoPath, PreferredNickname,
           FreeNickname, ResetNicknames, TakeNickname, StartThread, FinishThread,
           StartFailed, Uncount, Send, Close, ForgetThread, Cancel, registry
  <1> QED BY <1>4, <1>5, <1>6, <1>7, <1>8, <1>9, <1>10 DEF CallStep

LEMMA StepRuns ==
    ASSUME RunInv, [Next]_vars
    PROVE  RunningAreKnown'
  <1>0. TypeInv /\ PlaceInv /\ StepsFollow /\ ForgottenAreStray /\ RunningAreKnown
    BY DEF RunInv, PlaceInv, PathInv
  <1> SUFFICES ASSUME NEW t \in Thread \ {RootThread}, threads'[t] = "running"
               PROVE  \/ HasAgent(t)'
                      \/ \E c \in Call : c.thread = t /\ pc'[c] = "started"
                      \/ t \in strays'
    BY DEF RunningAreKnown
  <1>1. CASE threads[t] # "running"
    <2>1. PICK c \in Call : FinishThread(c) /\ c.thread = t
      BY <1>0, <1>1, RunsFrom
    <2>2. pc'[c] = "started"
      BY <1>0, <2>1 DEF FinishThread, Goto, TypeInv, TypeOK
    <2> QED BY <2>1, <2>2
  <1>2. CASE threads[t] = "running" /\ t \in strays
    BY <1>0, <1>2, StraysStay
  <1>3. CASE threads[t] = "running" /\ HasAgent(t)
    <2> SUFFICES ASSUME ~HasAgent(t)' PROVE t \in strays'
      OBVIOUS
    <2>1. PICK d \in Call : pc[d] = "release" /\ d.thread = t
      BY <1>0, <1>3, EntriesGo
    <2>2. t \in strays
      BY <1>0, <1>3, <2>1 DEF ForgottenAreStray
    <2> QED BY <1>0, <1>3, <2>2, StraysStay
  <1>4. CASE threads[t] = "running" /\ \E c \in Call : c.thread = t /\ pc[c] = "started"
    <2>1. PICK c \in Call : c.thread = t /\ pc[c] = "started"
      BY <1>4
    <2>2. CASE pc'[c] = "started"
      BY <2>1, <2>2
    <2>3. CASE pc'[c] # "started"
      <3>1. PICK e \in Call : CallStep(e)
        BY <2>1, <2>3 DEF Next, Die, Unload, vars
      <3>2. e = c
        BY <1>0, <2>1, <2>3, <3>1, CallMoves
      <3>3. Commit(c) \/ Cancel(c)
        BY <2>1, <3>1, <3>2
           DEF CallStep, CheckStatus, RestoreBegin, RestoreLookup, Reserve, Refuse,
               RegisterRoot, ReservePath, ReserveNoPath, PreferredNickname, FreeNickname,
               ResetNicknames, StartThread, FinishThread,
               StartFailed, DropPath, Uncount, Send, Close, ForgetThread, Release
      <3>4. CASE Commit(c)
        <4>1. agentTree'[KeyOf(c)].id = t /\ KeyOf(c) \in Key
          BY <1>0, <2>1, <3>4, CallFields DEF Commit, Agent, TypeInv, TypeOK
        <4> QED BY <4>1 DEF HasAgent
      <3>5. CASE Cancel(c)
        BY <2>1, <3>5 DEF Cancel
      <3> QED BY <3>3, <3>4, <3>5
    <2> QED BY <2>2, <2>3
  <1> QED BY <1>0, <1>1, <1>2, <1>3, <1>4 DEF RunningAreKnown

LEMMA StepRunInv == RunInv /\ [Next]_vars => RunInv'
  <1> SUFFICES ASSUME RunInv, [Next]_vars PROVE RunInv'
    OBVIOUS
  <1>1. TypeInv /\ StepsFollow /\ ForgottenAreStray
    BY DEF RunInv, PlaceInv, PathInv
  <1>2. PlaceInv' /\ StepsFollow'
    BY <1>1, StepKeepsPlaces, StepFollows DEF RunInv
  <1>3. ForgottenAreStray'
    BY <1>1, StepForgets
  <1>4. RunningAreKnown'
    BY StepRuns
  <1> QED BY <1>2, <1>3, <1>4 DEF RunInv

THEOREM RunInvariance == Spec => []RunInv
  BY InitRuns, StepRunInv, PTL DEF Spec

(* A sub-agent that runs is in the registry, or its call is about to put   *)
(* it there, except where that call was aborted after it had started the   *)
(* thread, or where the thread was started again while another call was    *)
(* forgetting its predecessor (spawn_agent_internal, shutdown_live_agent,  *)
(* handle_thread_request_result).                                          *)
THEOREM RunningAgentsAreKnown == Spec => []RunningAreKnown
  <1>1. RunInv => RunningAreKnown
    BY DEF RunInv
  <1> QED BY <1>1, RunInvariance, PTL
=============================================================================
