------------------------- MODULE AgentResidencyProofs -------------------------
(***************************************************************************)
(* Proofs about AgentResidency, for any agents, calls and capacity, with   *)
(* calls that are cancelled anywhere: reservations are counted exactly, an *)
(* agent that is loaded can be found by who needs its room, none is a      *)
(* resident twice, and a message that was accepted stays with its agent.   *)
(***************************************************************************)
EXTENDS AgentResidency, SequenceTheorems, FiniteSetTheorems, TLAPS

Place == {"off", "begin", "ensure", "reserve", "pop", "look", "await", "judge", "stop", "wait",
          "touch", "retouch", "load", "commit", "send", "schedule", "done", "failed"}

LEMMA CallFacts ==
    ASSUME NEW c \in Calls
    PROVE  /\ CallOf[c].agent \in Agents
           /\ CallOf[c].op \in {"spawn", "message", "followup"}
           /\ Call(c) \in Tasks /\ Unload(c) \in Tasks
           /\ c # None /\ c # Shutdown
  BY CallAssumption DEF Tasks, Call, Unload

LEMMA TaskFacts ==
    ASSUME NEW p \in Tasks
    PROVE  /\ p[2] \in Calls /\ p = <<p[1], p[2]>>
           /\ Target(p) \in Agents /\ Target(p) # None
           /\ CallOf[p[2]].op \in {"spawn", "message", "followup"}
           /\ p # NoTask
  BY CallAssumption DEF Tasks, Target, NoTask

-----------------------------------------------------------------------------
(* Reservations. *)

Reserving == {p \in Tasks : at[p] \in {"load", "commit"}}

(* A task is at one place; the unload after a turn reserves nothing.       *)
Allowed(p) ==
    IF IsCall(p) THEN Place \ {"schedule", "retouch"}
    ELSE {"off", "schedule", "await", "judge", "stop", "wait", "touch", "retouch", "done"}

PlaceInv ==
    /\ at \in [Tasks -> Place]
    /\ \A p \in Tasks : at[p] \in Allowed(p)

SlotInv ==
    /\ PlaceInv
    /\ IsFiniteSet(Reserving)
    /\ pendingSlots = Cardinality(Reserving)

(* One task enters or leaves.                                              *)
LEMMA ReservingSame ==
    ASSUME SlotInv, PlaceInv', UNCHANGED pendingSlots, Reserving' = Reserving
    PROVE  SlotInv'
  BY DEF SlotInv

LEMMA ReservingMore ==
    ASSUME SlotInv, PlaceInv', NEW p \in Tasks, p \notin Reserving,
           Reserving' = Reserving \cup {p}, pendingSlots' = pendingSlots + 1
    PROVE  SlotInv'
  BY FS_AddElement DEF SlotInv

LEMMA ReservingLess ==
    ASSUME SlotInv, PlaceInv', NEW p \in Tasks, p \in Reserving,
           Reserving' = Reserving \ {p}, pendingSlots' = pendingSlots - 1
    PROVE  SlotInv'
  BY FS_RemoveElement DEF SlotInv

(* A step of task p to a place.                                            *)
LEMMA Moved ==
    ASSUME PlaceInv, NEW p \in Tasks, NEW place \in Allowed(p), Goto(p, place)
    PROVE  /\ PlaceInv'
           /\ at'[p] = place /\ \A q \in Tasks \ {p} : at'[q] = at[q]
           /\ Reserving' = IF place \in {"load", "commit"} THEN Reserving \cup {p}
                           ELSE Reserving \ {p}
  BY DEF PlaceInv, Goto, Reserving, Allowed, Place

LEMMA StepKeepsSlots == SlotInv /\ [Next]_vars => SlotInv'
  <1> SUFFICES ASSUME SlotInv, [Next]_vars PROVE SlotInv'
    OBVIOUS
  <1> USE DEF residency
  <1>0. PlaceInv
    BY DEF SlotInv
  <1>1. ASSUME NEW p \in Tasks, at[p] \notin {"load", "commit"}, UNCHANGED pendingSlots,
               NEW place \in Allowed(p) \ {"load", "commit"}, Goto(p, place)
        PROVE  SlotInv'
    BY <1>0, <1>1, Moved, ReservingSame DEF Reserving
  <1>2. ASSUME NEW p \in Tasks, LockTarget(p) \/ Ensure(p) \/ BeginSpawn(p) PROVE SlotInv'
    BY <1>0, <1>1, <1>2 DEF LockTarget, Ensure, BeginSpawn, Fail, PlaceInv, Allowed, Place
  <1>3. ASSUME NEW p \in Tasks, Reserve(p) PROVE SlotInv'
    <2>1. at[p] = "reserve" /\ IsCall(p)
      BY <1>0, <1>3 DEF Reserve, PlaceInv, Allowed
    <2>2. CASE Len(residents) + pendingSlots < Capacity
      <3>1. Goto(p, "load") /\ pendingSlots' = pendingSlots + 1
        BY <1>3, <2>2 DEF Reserve
      <3> QED BY <1>0, <2>1, <3>1, Moved, ReservingMore DEF Reserving, Allowed, Place
    <2>3. CASE ~(Len(residents) + pendingSlots < Capacity)
      BY <1>1, <1>3, <2>1, <2>3 DEF Reserve, Allowed, Place
    <2> QED BY <2>2, <2>3
  <1>4. ASSUME NEW p \in Tasks, Pop(p) \/ Look(p) \/ Await(p) \/ Judge(p) PROVE SlotInv'
    BY <1>0, <1>1, <1>4 DEF Pop, Look, Await, Judge, Fail, PlaceInv, Allowed, Place
  <1>5. ASSUME NEW p \in Tasks, Stop(p) \/ Forget(p) \/ PutBack(p) PROVE SlotInv'
    BY <1>0, <1>1, <1>5 DEF Stop, Forget, PutBack, PlaceInv, Allowed, Place
  <1>6. ASSUME NEW p \in Tasks, Recheck(p) \/ Retouch(p) \/ Schedule(p) PROVE SlotInv'
    BY <1>0, <1>1, <1>6 DEF Recheck, Retouch, Schedule, PlaceInv, Allowed, Place
  <1>7. ASSUME NEW p \in Tasks, Load(p) PROVE SlotInv'
    <2>1. at[p] = "load" /\ Goto(p, "commit") /\ UNCHANGED pendingSlots /\ IsCall(p)
      BY <1>0, <1>7 DEF Load, PlaceInv, Allowed
    <2> QED BY <1>0, <2>1, Moved, ReservingSame DEF Reserving, Allowed, Place
  <1>8. ASSUME NEW p \in Tasks, LoadFails(p) \/ Commit(p) PROVE SlotInv'
    <2>1. /\ at[p] \in {"load", "commit"} /\ pendingSlots' = pendingSlots - 1 /\ IsCall(p)
          /\ Goto(p, "failed") \/ Goto(p, "send")
      BY <1>0, <1>8 DEF LoadFails, Commit, Fail, PlaceInv, Allowed
    <2> QED BY <1>0, <2>1, Moved, ReservingLess DEF Reserving, Allowed, Place
  <1>9. ASSUME NEW p \in Tasks, Send(p) \/ SendRefused(p) PROVE SlotInv'
    BY <1>0, <1>1, <1>9 DEF Send, SendRefused, Fail, PlaceInv, Allowed, Place
  <1>10. ASSUME NEW p \in Tasks, Cancel(p) PROVE SlotInv'
    <2>1. IsCall(p) /\ Goto(p, "failed")
      BY <1>10 DEF Cancel, Fail
    <2>2. CASE at[p] \in {"load", "commit"}
      <3>1. pendingSlots' = pendingSlots - 1
        BY <1>10, <2>2 DEF Cancel
      <3> QED BY <1>0, <2>1, <2>2, <3>1, Moved, ReservingLess DEF Reserving, Allowed, Place
    <2>3. CASE at[p] \notin {"load", "commit"}
      <3>1. UNCHANGED pendingSlots
        BY <1>10, <2>3 DEF Cancel
      <3> QED BY <1>1, <2>1, <2>3, <3>1 DEF Allowed, Place
    <2> QED BY <2>2, <2>3
  <1>11. ASSUME NEW a \in Agents, TurnEnds(a) PROVE SlotInv'
    <2>1. \/ UNCHANGED at
          \/ at' = [at EXCEPT ![Unload(turn[a])] = "schedule"]
      BY <1>11 DEF TurnEnds
    <2>2. ~IsCall(Unload(turn[a]))
      BY DEF IsCall, Unload
    <2>3. PlaceInv' /\ Reserving' = Reserving
      BY <1>0, <2>1, <2>2 DEF PlaceInv, Allowed, Place, Reserving
    <2> QED BY <1>11, <2>3, ReservingSame DEF TurnEnds
  <1>12. ASSUME UNCHANGED <<at, pendingSlots>> PROVE SlotInv'
    BY <1>0, <1>12, ReservingSame DEF PlaceInv, Reserving
  <1>13. ASSUME NEW a \in Agents, LoopStep(a) \/ TurnTakesMail(a) PROVE SlotInv'
    BY <1>12, <1>13 DEF LoopStep, TurnTakesMail
  <1>14. CASE Over \/ UNCHANGED vars
    BY <1>12, <1>14 DEF Over, vars
  <1> QED
    BY <1>2, <1>3, <1>4, <1>5, <1>6, <1>7, <1>8, <1>9, <1>10, <1>11, <1>13, <1>14
       DEF Next, TaskStep, SessionStep

LEMMA InitSlots == Init => SlotInv
  <1> SUFFICES ASSUME Init PROVE SlotInv
    OBVIOUS
  <1>1. PlaceInv
    BY DEF Init, PlaceInv, Allowed, Place
  <1>2. Reserving = {}
    BY DEF Init, Reserving
  <1> QED BY <1>1, <1>2, FS_EmptySet DEF Init, SlotInv

THEOREM SlotInvariance == Spec => []SlotInv
  BY InitSlots, StepKeepsSlots, PTL DEF Spec

(* pending_slots counts the reservations that are held: each is released   *)
(* once, by its commit, by a failure or by the cancellation of its call.   *)
THEOREM ReservationsAreCounted == Spec => []SlotsBalanced
  <1>1. SlotInv => SlotsBalanced
    BY DEF SlotInv, SlotsBalanced, Reserving
  <1> QED BY <1>1, SlotInvariance, PTL

-----------------------------------------------------------------------------
(* The residents: each once, in the order of their use. *)

ResidentsTyped == residents \in Seq(Agents) /\ IsInjective(residents)

LEMMA WithoutFacts ==
    ASSUME ResidentsTyped, NEW a \in Agents
    PROVE  /\ Without(a) \in Seq(Agents) /\ IsInjective(Without(a))
           /\ Range(Without(a)) = Range(residents) \ {a}
  <1> USE DEF ResidentsTyped
  <1>1. CASE a \notin Range(residents)
    BY <1>1 DEF Without
  <1>2. CASE a \in Range(residents)
    <2> DEFINE n == Len(residents)
               i == CHOOSE j \in DOMAIN residents : residents[j] = a
               first == SubSeq(residents, 1, i - 1)
               rest == SubSeq(residents, i + 1, n)
    <2>1. n \in Nat /\ DOMAIN residents = 1..n /\ i \in 1..n /\ residents[i] = a
      BY <1>2 DEF Range
    <2>0. n = Len(residents)
      OBVIOUS
    <2> HIDE DEF i, n
    <2>2. Without(a) = first \o rest
      BY <1>2 DEF Without, RemoveAt, i, n
    <2>3. /\ first \in Seq(Agents) /\ Len(first) = i - 1
          /\ \A j \in 1..(i - 1) : first[j] = residents[j]
      <3>1. 1 \in 1..n + 1 /\ i - 1 \in (1 - 1)..n
        BY <2>1
      <3>2. i - 1 - 1 + 1 = i - 1 /\ \A j \in 1..(i - 1) : 1 + j - 1 = j
        BY <2>1
      <3> QED BY <2>0, <2>1, <3>1, <3>2, SubSeqProperties
    <2>4. /\ rest \in Seq(Agents) /\ Len(rest) = n - i
          /\ \A j \in 1..(n - i) : rest[j] = residents[i + j]
      <3>1. i + 1 \in 1..n + 1 /\ n \in (i + 1 - 1)..n
        BY <2>1
      <3>2. n - (i + 1) + 1 = n - i /\ \A j \in 1..(n - i) : i + 1 + j - 1 = i + j
        BY <2>1
      <3> QED BY <2>0, <2>1, <3>1, <3>2, SubSeqProperties
    <2> HIDE DEF first, rest
    <2> DEFINE w == first \o rest
    <2>5. /\ w \in Seq(Agents) /\ Len(w) = n - 1
          /\ \A j \in 1..(n - 1) : w[j] = IF j < i THEN residents[j] ELSE residents[j + 1]
      <3>1. w \in Seq(Agents) /\ Len(w) = n - 1
        <4>1. w \in Seq(Agents) /\ Len(w) = Len(first) + Len(rest)
          BY <2>3, <2>4, ConcatProperties
        <4> QED BY <2>1, <2>3, <2>4, <4>1
      <3>2. ASSUME NEW j \in 1..(n - 1), j < i PROVE w[j] = residents[j]
        BY <2>1, <2>3, <2>4, <3>2, ConcatProperties
      <3>3. ASSUME NEW j \in 1..(n - 1), ~(j < i) PROVE w[j] = residents[j + 1]
        <4>1. w[j] = rest[j - (i - 1)]
          BY <2>1, <2>3, <2>4, <3>3, ConcatProperties
        <4>2. j - (i - 1) \in 1..(n - i) /\ i + (j - (i - 1)) = j + 1
          BY <2>1, <3>3
        <4> QED BY <2>4, <4>1, <4>2
      <3> QED BY <3>1, <3>2, <3>3
    <2> HIDE DEF w
    <2>6. DOMAIN w = 1..(n - 1)
      BY <2>1, <2>5
    <2> DEFINE pos(j) == IF j < i THEN j ELSE j + 1
    <2>a. \A j, k \in 1..(n - 1) : pos(j) \in (1..n) \ {i} /\ (pos(j) = pos(k) => j = k)
      BY <2>1
    <2>b. \A j \in 1..(n - 1) : w[j] = residents[pos(j)]
      BY <2>5
    <2> HIDE DEF pos
    <2>c. \A j, k \in 1..n : residents[j] = residents[k] => j = k
      BY <2>1 DEF IsInjective
    <2>7. IsInjective(w)
      BY <2>6, <2>a, <2>b, <2>c DEF IsInjective
    <2>8. \A j \in 1..(n - 1) : w[j] \in Range(residents) \ {a}
      BY <2>1, <2>a, <2>b, <2>c DEF Range
    <2>9. ASSUME NEW b \in Range(residents) \ {a} PROVE b \in Range(w)
      <3>1. PICK j \in 1..n : residents[j] = b
        BY <2>1 DEF Range
      <3>2. CASE j < i
        <4>1. j \in 1..(n - 1) /\ w[j] = b
          BY <2>1, <2>5, <3>1, <3>2
        <4> QED BY <2>6, <4>1 DEF Range
      <3>3. CASE j > i
        <4>1. j - 1 \in 1..(n - 1) /\ w[j - 1] = b
          BY <2>1, <2>5, <3>1, <3>3
        <4> QED BY <2>6, <4>1 DEF Range
      <3>4. j # i
        BY <2>1, <3>1, <2>9
      <3> QED BY <2>1, <3>2, <3>3, <3>4
    <2>10. Range(w) = Range(residents) \ {a}
      BY <2>6, <2>8, <2>9 DEF Range
    <2> QED BY <2>2, <2>5, <2>7, <2>10 DEF w
  <1> QED BY <1>1, <1>2

LEMMA TouchedFacts ==
    ASSUME ResidentsTyped, NEW a \in Agents
    PROVE  /\ Touched(a) \in Seq(Agents) /\ IsInjective(Touched(a))
           /\ Range(Touched(a)) = Range(residents) \cup {a}
  <1> DEFINE w == Without(a)
             n == Len(w)
  <1>1. w \in Seq(Agents) /\ IsInjective(w) /\ Range(w) = Range(residents) \ {a}
    BY WithoutFacts
  <1>2. Touched(a) = Append(w, a)
    BY DEF Touched
  <1> HIDE DEF w
  <1>3. n \in Nat /\ DOMAIN w = 1..n
    BY <1>1
  <1>4. /\ Append(w, a) \in Seq(Agents) /\ DOMAIN Append(w, a) = 1..(n + 1)
        /\ \A i \in 1..n : Append(w, a)[i] = w[i]
        /\ Append(w, a)[n + 1] = a
    BY <1>1, <1>3, AppendProperties
  <1>5. \A i \in 1..n : w[i] # a
    BY <1>1, <1>3 DEF Range
  <1>6. IsInjective(Append(w, a))
    BY <1>1, <1>3, <1>4, <1>5 DEF IsInjective
  <1>7. Range(Append(w, a)) = Range(w) \cup {a}
    BY <1>3, <1>4 DEF Range
  <1> QED BY <1>1, <1>2, <1>4, <1>6, <1>7

(* The candidate is taken off the front, and whoever is left is in the     *)
(* list as before.                                                         *)
LEMMA PoppedFacts ==
    ASSUME ResidentsTyped, residents # <<>>, NEW p \in Tasks
    PROVE  /\ Head(Rotated(p)) \in Agents
           /\ Tail(Rotated(p)) \in Seq(Agents) /\ IsInjective(Tail(Rotated(p)))
           /\ Range(residents) = Range(Tail(Rotated(p))) \cup {Head(Rotated(p))}
  <1> DEFINE r == Rotated(p)
  <1>1. r \in Seq(Agents) /\ r # <<>> /\ IsInjective(r) /\ Range(r) = Range(residents)
    <2>1. CASE r = residents
      BY <2>1 DEF ResidentsTyped
    <2>2. CASE r = Append(Tail(residents), Head(residents))
      <3> DEFINE n == Len(residents)
      <3>1. /\ n \in Nat \ {0} /\ DOMAIN residents = 1..n
            /\ Head(residents) = residents[1] /\ Tail(residents) \in Seq(Agents)
            /\ Len(Tail(residents)) = n - 1 /\ residents[1] \in Agents
            /\ \A i \in 1..(n - 1) : Tail(residents)[i] = residents[i + 1]
        BY HeadTailProperties DEF ResidentsTyped
      <3>0. \A j, k \in 1..n : residents[j] = residents[k] => j = k
        BY <3>1 DEF IsInjective, ResidentsTyped
      <3> HIDE DEF n
      <3> DEFINE q == Append(Tail(residents), Head(residents))
      <3>2. /\ q \in Seq(Agents) /\ DOMAIN q = 1..n /\ q # <<>>
            /\ \A i \in 1..n : q[i] = IF i = n THEN residents[1] ELSE residents[i + 1]
        BY <3>1, AppendProperties
      <3> HIDE DEF q
      <3> DEFINE pos(i) == IF i = n THEN 1 ELSE i + 1
      <3>a. \A i, j \in 1..n : pos(i) \in 1..n /\ (pos(i) = pos(j) => i = j)
        BY <3>1
      <3>b. \A i \in 1..n : q[i] = residents[pos(i)]
        BY <3>2
      <3> HIDE DEF pos
      <3>3. IsInjective(q)
        BY <3>0, <3>2, <3>a, <3>b DEF IsInjective
      <3>4. Range(q) = Range(residents)
        <4>1. \A i \in 1..n : q[i] \in Range(residents)
          BY <3>1, <3>a, <3>b DEF Range
        <4>2. ASSUME NEW i \in 1..n PROVE residents[i] \in Range(q)
          <5>1. CASE i = 1
            BY <3>1, <3>2, <5>1 DEF Range
          <5>2. CASE i # 1
            <6>1. i - 1 \in 1..n /\ q[i - 1] = residents[i]
              BY <3>1, <3>2, <5>2
            <6> QED BY <3>2, <6>1 DEF Range
          <5> QED BY <5>1, <5>2
        <4> QED BY <3>1, <3>2, <4>1, <4>2 DEF Range
      <3> QED BY <2>2, <3>2, <3>3, <3>4 DEF q
    <2> QED BY <2>1, <2>2 DEF Rotated
  <1> HIDE DEF r
  <1> DEFINE m == Len(r)
  <1>2. /\ m \in Nat \ {0} /\ DOMAIN r = 1..m /\ Head(r) = r[1] /\ r[1] \in Agents
        /\ Tail(r) \in Seq(Agents) /\ DOMAIN Tail(r) = 1..(m - 1)
        /\ \A i \in 1..(m - 1) : Tail(r)[i] = r[i + 1]
    BY <1>1, HeadTailProperties
  <1>3. IsInjective(Tail(r))
    BY <1>1, <1>2 DEF IsInjective
  <1>4. Range(r) = Range(Tail(r)) \cup {Head(r)}
    <2>1. ASSUME NEW i \in 1..m PROVE r[i] = Head(r) \/ r[i] \in Range(Tail(r))
      <3>1. CASE i # 1
        <4>1. i - 1 \in 1..(m - 1) /\ Tail(r)[i - 1] = r[i]
          BY <1>2, <3>1
        <4> QED BY <1>2, <4>1 DEF Range
      <3> QED BY <1>2, <3>1
    <2>2. \A i \in 1..(m - 1) : Tail(r)[i] \in Range(r)
      BY <1>2 DEF Range
    <2> QED BY <1>2, <2>1, <2>2 DEF Range
  <1> QED BY <1>1, <1>2, <1>3, <1>4 DEF r

-----------------------------------------------------------------------------
(* Types. *)

AgentsTyped ==
    /\ loaded \subseteq Agents /\ known \subseteq Agents
    /\ lock \in [Agents -> Tasks \cup {NoTask}] /\ gen \in [Agents -> Nat]
    /\ chan \in [Agents -> Seq(Calls \cup {Shutdown})]
    /\ mailbox \in [Agents -> SUBSET Calls]
    /\ turn \in [Agents -> Calls \cup {None}]
    /\ ended \in [Agents -> BOOLEAN] /\ alive \in [Agents -> BOOLEAN]

ScanTyped ==
    /\ victim \in [Tasks -> Agents \cup {None}] /\ left \in [Tasks -> Nat]
    /\ expect \in [Tasks -> Nat]
    /\ \A p \in Tasks : at[p] \in {"look", "await", "judge", "stop", "wait", "touch", "retouch"}
                         => victim[p] \in Agents

HistoryTyped ==
    /\ sent \subseteq Calls /\ handled \subseteq Calls /\ unread \subseteq Calls
    /\ abandoned \subseteq Agents

TypeInv == SlotInv /\ ResidentsTyped /\ AgentsTyped /\ ScanTyped /\ HistoryTyped

LEMMA MessagesTyped ==
    ASSUME AgentsTyped, NEW a \in Agents
    PROVE  Messages(a) \subseteq Calls
  <1>1. chan[a] \in Seq(Calls \cup {Shutdown})
    BY DEF AgentsTyped
  <1> QED BY <1>1 DEF Messages

LEMMA ReleaseTyped ==
    ASSUME AgentsTyped, NEW p \in Tasks, Release(p)
    PROVE  lock' \in [Agents -> Tasks \cup {NoTask}]
  BY DEF AgentsTyped, Release

LEMMA UnlockTyped ==
    ASSUME AgentsTyped, NEW a, Unlock(a)
    PROVE  lock' \in [Agents -> Tasks \cup {NoTask}]
  BY DEF AgentsTyped, Unlock

LEMMA StepTypesResidents == TypeInv /\ [Next]_vars => ResidentsTyped'
  <1> SUFFICES ASSUME TypeInv, [Next]_vars PROVE ResidentsTyped'
    OBVIOUS
  <1> USE DEF residency
  <1>1. ASSUME UNCHANGED residents PROVE ResidentsTyped'
    BY <1>1 DEF ResidentsTyped, TypeInv
  <1>2. ASSUME NEW a \in Agents, residents' = Touched(a) \/ residents' = Without(a)
        PROVE  ResidentsTyped'
    BY <1>2, TouchedFacts, WithoutFacts DEF ResidentsTyped, TypeInv
  <1>3. ASSUME NEW p \in Tasks, TaskStep(p) \/ Cancel(p) PROVE ResidentsTyped'
    <2>1. CASE Pop(p)
      <3>1. UNCHANGED residents \/ (residents # <<>> /\ residents' = Tail(Rotated(p)))
        BY <2>1 DEF Pop
      <3> QED BY <1>1, <3>1, PoppedFacts DEF ResidentsTyped, TypeInv
    <2>2. CASE Ensure(p) \/ Commit(p) \/ Send(p)
      <3>1. \/ UNCHANGED residents
            \/ residents' \in {Touched(Target(p)), Without(Target(p))}
        BY <2>2 DEF Ensure, Commit, Send
      <3> QED BY <1>1, <1>2, <3>1, TaskFacts
    <2>3. CASE Forget(p) \/ PutBack(p) \/ Retouch(p)
      <3>1. /\ residents' \in {Touched(victim[p]), Without(victim[p])}
            /\ at[p] \in {"wait", "touch", "retouch"}
        BY <2>3 DEF Forget, PutBack, Retouch
      <3>2. victim[p] \in Agents
        BY <3>1 DEF TypeInv, ScanTyped
      <3> QED BY <1>2, <3>1, <3>2
    <2>4. CASE \/ LockTarget(p) \/ BeginSpawn(p) \/ Reserve(p) \/ Look(p) \/ Await(p)
               \/ Judge(p) \/ Stop(p) \/ Recheck(p) \/ Load(p) \/ LoadFails(p)
               \/ SendRefused(p) \/ Schedule(p) \/ Cancel(p)
      BY <1>1, <2>4 DEF LockTarget, BeginSpawn, Reserve, Look, Await, Judge, Stop, Recheck,
                        Load, LoadFails, SendRefused, Schedule, Cancel
    <2> QED BY <1>3, <2>1, <2>2, <2>3, <2>4 DEF TaskStep
  <1>4. ASSUME NEW a \in Agents, SessionStep(a) PROVE ResidentsTyped'
    BY <1>1, <1>4 DEF SessionStep, LoopStep, TurnTakesMail, TurnEnds
  <1>5. CASE Over \/ UNCHANGED vars
    BY <1>1, <1>5 DEF Over, vars
  <1> QED BY <1>3, <1>4, <1>5 DEF Next

LEMMA StepTypesScan == TypeInv /\ SlotInv' /\ [Next]_vars => ScanTyped'
  <1> SUFFICES ASSUME TypeInv, SlotInv', [Next]_vars PROVE ScanTyped'
    OBVIOUS
  <1>0. PlaceInv /\ PlaceInv' /\ ScanTyped /\ AgentsTyped /\ ResidentsTyped
    BY DEF TypeInv, SlotInv
  <1> USE DEF scan, residency
  <1> DEFINE Scanning == {"look", "await", "judge", "stop", "wait", "touch", "retouch"}
  <1>1. ASSUME UNCHANGED scan,
               \A p \in Tasks : at'[p] \in Scanning => at[p] \in Scanning
        PROVE  ScanTyped'
    BY <1>0, <1>1 DEF ScanTyped
  <1>2. ASSUME NEW p \in Tasks, NEW place, Goto(p, place), UNCHANGED scan,
               place \in Scanning => at[p] \in Scanning
        PROVE  ScanTyped'
    BY <1>0, <1>2 DEF ScanTyped, Goto, PlaceInv
  <1>3. ASSUME NEW p \in Tasks, TaskStep(p) \/ Cancel(p) PROVE ScanTyped'
    <2>1. CASE Pop(p)
      <3>1. CASE left[p] = 0 \/ residents \in {<<>>, <<Protected(p)>>}
        BY <1>2, <2>1, <3>1 DEF Pop, Fail
      <3>2. CASE ~(left[p] = 0 \/ residents \in {<<>>, <<Protected(p)>>})
        <4>1. /\ victim' = [victim EXCEPT ![p] = Head(Rotated(p))]
              /\ left' = [left EXCEPT ![p] = @ - 1] /\ left[p] # 0
              /\ UNCHANGED expect /\ Goto(p, "look")
          BY <2>1, <3>2 DEF Pop
        <4>2. Head(Rotated(p)) \in Agents
          BY <1>0, <3>2, PoppedFacts
        <4> QED BY <1>0, <4>1, <4>2 DEF ScanTyped, Goto, PlaceInv
      <3> QED BY <3>1, <3>2
    <2>2. CASE Reserve(p)
      <3>1. Len(residents) \in Nat
        BY <1>0 DEF ResidentsTyped
      <3> QED BY <1>0, <2>2, <3>1 DEF Reserve, ScanTyped, Goto, PlaceInv
    <2>3. CASE Look(p)
      <3>1. at[p] = "look" /\ victim[p] \in Agents
        BY <1>0, <2>3 DEF Look, ScanTyped
      <3>2. gen[victim[p]] \in Nat
        BY <1>0, <3>1 DEF AgentsTyped
      <3>3. /\ UNCHANGED <<victim, left>>
            /\ expect' \in {expect, [expect EXCEPT ![p] = gen[victim[p]]]}
            /\ Goto(p, "await") \/ Goto(p, "reserve")
        BY <2>3 DEF Look, ReadGeneration
      <3> QED BY <1>0, <3>1, <3>2, <3>3 DEF ScanTyped, Goto, PlaceInv
    <2>4. CASE Schedule(p)
      <3>1. gen[Target(p)] \in Nat /\ Target(p) \in Agents
        BY <1>0, TaskFacts DEF AgentsTyped
      <3>2. \/ /\ expect' = [expect EXCEPT ![p] = gen[Target(p)]]
               /\ victim' = [victim EXCEPT ![p] = Target(p)]
               /\ Goto(p, "await") /\ UNCHANGED left
            \/ UNCHANGED scan /\ Goto(p, "done")
        BY <2>4 DEF Schedule, ReadGeneration
      <3> QED BY <1>0, <3>1, <3>2 DEF ScanTyped, Goto, PlaceInv
    <2>5. CASE \/ LockTarget(p) \/ Ensure(p) \/ BeginSpawn(p) \/ Await(p) \/ Judge(p)
               \/ Stop(p) \/ Forget(p) \/ PutBack(p) \/ Recheck(p) \/ Retouch(p)
               \/ Load(p) \/ LoadFails(p) \/ Commit(p) \/ Send(p) \/ SendRefused(p) \/ Cancel(p)
      BY <1>2, <2>5 DEF LockTarget, Ensure, BeginSpawn, Await, Judge, Stop, Forget, PutBack,
                        Recheck, Retouch, Load, LoadFails, Commit, Send, SendRefused, Cancel,
                        Fail
    <2> QED BY <1>3, <2>1, <2>2, <2>3, <2>4, <2>5 DEF TaskStep
  <1>4. ASSUME NEW a \in Agents, SessionStep(a) PROVE ScanTyped'
    <2>1. /\ UNCHANGED scan
          /\ UNCHANGED at \/ at' = [at EXCEPT ![Unload(turn[a])] = "schedule"]
      BY <1>4 DEF SessionStep, LoopStep, TurnTakesMail, TurnEnds
    <2> QED BY <1>0, <1>1, <2>1 DEF PlaceInv
  <1>5. CASE Over \/ UNCHANGED vars
    BY <1>1, <1>5 DEF Over, vars
  <1> QED BY <1>3, <1>4, <1>5 DEF Next

LEMMA AppendTyped ==
    ASSUME AgentsTyped, NEW a \in Agents, NEW m \in Calls \cup {Shutdown},
           chan' = [chan EXCEPT ![a] = Append(@, m)]
    PROVE  chan' \in [Agents -> Seq(Calls \cup {Shutdown})]
  <1> DEFINE s == Append(chan[a], m)
  <1>1. chan[a] \in Seq(Calls \cup {Shutdown})
    BY DEF AgentsTyped
  <1>2. s \in Seq(Calls \cup {Shutdown})
    BY <1>1, AppendProperties
  <1>3. chan' = [chan EXCEPT ![a] = s]
    OBVIOUS
  <1> HIDE DEF s
  <1> QED BY <1>2, <1>3 DEF AgentsTyped

LEMMA GenTyped ==
    ASSUME AgentsTyped, NEW a \in Agents, gen' = [gen EXCEPT ![a] = @ + 1]
    PROVE  gen' \in [Agents -> Nat]
  BY DEF AgentsTyped

LEMMA LoopTypesAgents ==
    ASSUME TypeInv, NEW a \in Agents, LoopStep(a)
    PROVE  AgentsTyped'
  <1> USE DEF TypeInv, AgentsTyped
  <1>1. chan[a] \in Seq(Calls \cup {Shutdown}) /\ chan[a] # <<>>
    BY DEF LoopStep
  <1>2. /\ Head(chan[a]) \in Calls \cup {Shutdown}
        /\ Tail(chan[a]) \in Seq(Calls \cup {Shutdown})
    BY <1>1, HeadTailProperties
  <1>3. UNCHANGED <<loaded, known, lock, gen>>
    BY DEF LoopStep, manager, io
  <1>4. CASE Head(chan[a]) = Shutdown
    <2>1. /\ alive' = [alive EXCEPT ![a] = FALSE] /\ turn' = [turn EXCEPT ![a] = None]
          /\ ended' = [ended EXCEPT ![a] = FALSE] /\ chan' = [chan EXCEPT ![a] = <<>>]
          /\ mailbox' = [mailbox EXCEPT ![a] = {}]
      BY <1>4 DEF LoopStep
    <2> QED BY <1>3, <2>1
  <1>5. CASE Head(chan[a]) # Shutdown
    <2> DEFINE m == Head(chan[a])
    <2>1. /\ chan' = [chan EXCEPT ![a] = Tail(@)]
          /\ mailbox' = [mailbox EXCEPT ![a] = @ \cup {m}]
          /\ turn' \in {turn, [turn EXCEPT ![a] = m]}
          /\ ended' \in {ended, [ended EXCEPT ![a] = FALSE]}
          /\ UNCHANGED alive
      BY <1>5 DEF LoopStep
    <2>2. m \in Calls
      BY <1>2, <1>5
    <2> HIDE DEF m
    <2>3. chan' \in [Agents -> Seq(Calls \cup {Shutdown})]
      BY <1>2, <2>1
    <2>4. mailbox' \in [Agents -> SUBSET Calls]
      BY <2>1, <2>2
    <2> QED BY <1>3, <2>1, <2>2, <2>3, <2>4
  <1> QED BY <1>4, <1>5

LEMMA StepTypesAgents == TypeInv /\ [Next]_vars => AgentsTyped'
  <1> SUFFICES ASSUME TypeInv, [Next]_vars PROVE AgentsTyped'
    OBVIOUS
  <1> USE DEF manager, io, sessions
  <1>0. AgentsTyped /\ ScanTyped
    BY DEF TypeInv
  <1>1. ASSUME UNCHANGED <<loaded, known, gen, chan, mailbox, turn, ended, alive>>,
               lock' \in [Agents -> Tasks \cup {NoTask}]
        PROVE  AgentsTyped'
    BY <1>0, <1>1 DEF AgentsTyped
  <1>2. lock \in [Agents -> Tasks \cup {NoTask}]
    BY <1>0 DEF AgentsTyped
  <1>3. ASSUME NEW p \in Tasks, TaskStep(p) \/ Cancel(p) PROVE AgentsTyped'
    <2>0. Target(p) \in Agents /\ p[2] \in Calls
      BY TaskFacts
    <2>1. CASE LockTarget(p) \/ Await(p)
      <3>1. \E a : lock' = [lock EXCEPT ![a] = p]
        BY <2>1 DEF LockTarget, Await
      <3>2. lock' \in [Agents -> Tasks \cup {NoTask}]
        BY <1>2, <3>1
      <3> QED BY <1>1, <2>1, <3>2 DEF LockTarget, Await
    <2>2. CASE \/ Ensure(p) \/ BeginSpawn(p) \/ Reserve(p) \/ Pop(p) \/ Look(p)
               \/ Judge(p) \/ PutBack(p) \/ Recheck(p) \/ Retouch(p) \/ LoadFails(p)
               \/ Schedule(p) \/ Cancel(p)
      <3>1. UNCHANGED lock \/ Release(p) \/ \E a : Unlock(a)
        BY <2>2 DEF Ensure, BeginSpawn, Reserve, Pop, Look, Judge, PutBack, Recheck, Retouch,
                    LoadFails, Schedule, Cancel, Fail
      <3>2. lock' \in [Agents -> Tasks \cup {NoTask}]
        BY <1>0, <1>2, <3>1, ReleaseTyped, UnlockTyped
      <3>3. UNCHANGED <<loaded, known, gen, chan, mailbox, turn, ended, alive>>
        BY <2>2 DEF Ensure, BeginSpawn, Reserve, Pop, Look, Judge, PutBack, Recheck, Retouch,
                    LoadFails, Schedule, Cancel
      <3> QED BY <1>1, <3>2, <3>3
    <2>3. CASE Stop(p)
      <3>1. chan' \in {chan, [chan EXCEPT ![victim[p]] = Append(@, Shutdown)]}
        BY <2>3 DEF Stop
      <3>2. victim[p] \in Agents
        BY <1>0, <2>3 DEF Stop, ScanTyped
      <3>3. chan' \in [Agents -> Seq(Calls \cup {Shutdown})]
        BY <1>0, <3>1, <3>2, AppendTyped DEF AgentsTyped
      <3> QED BY <1>0, <2>3, <3>3 DEF Stop, AgentsTyped
    <2>4. CASE Forget(p)
      BY <1>0, <2>4, UnlockTyped DEF Forget, AgentsTyped
    <2>5. CASE Load(p)
      BY <1>0, <2>0, <2>5 DEF Load, AgentsTyped
    <2>6. CASE Commit(p)
      BY <1>0, <2>0, <2>6 DEF Commit, AgentsTyped
    <2>7. CASE Send(p)
      <3>1. lock' \in [Agents -> Tasks \cup {NoTask}]
        BY <1>0, <2>7, ReleaseTyped DEF Send
      <3>3. chan' \in {chan, [chan EXCEPT ![Target(p)] = Append(@, p[2])]}
        BY <2>7 DEF Send
      <3>4. chan' \in [Agents -> Seq(Calls \cup {Shutdown})]
        BY <1>0, <2>0, <3>3, AppendTyped DEF AgentsTyped
      <3>5. gen' \in [Agents -> Nat]
        <4>1. gen' = gen \/ gen' = [gen EXCEPT ![Target(p)] = @ + 1]
          BY <2>7 DEF Send
        <4> QED BY <1>0, <2>0, <4>1, GenTyped DEF AgentsTyped
      <3>6. /\ loaded' \subseteq loaded /\ known' \subseteq known
            /\ UNCHANGED <<mailbox, turn, ended, alive>>
        BY <2>7 DEF Send
      <3> QED BY <1>0, <3>1, <3>4, <3>5, <3>6 DEF AgentsTyped
    <2>8. CASE SendRefused(p)
      <3>1. lock' \in [Agents -> Tasks \cup {NoTask}]
        BY <1>0, <2>8, ReleaseTyped DEF SendRefused, Fail
      <3>2. gen' = [gen EXCEPT ![Target(p)] = @ + 1]
        BY <2>8 DEF SendRefused
      <3>3. UNCHANGED <<loaded, known, chan, mailbox, turn, ended, alive>>
        BY <2>8 DEF SendRefused
      <3> QED BY <1>0, <2>0, <3>1, <3>2, <3>3, GenTyped DEF AgentsTyped
    <2> QED BY <1>3, <2>1, <2>2, <2>3, <2>4, <2>5, <2>6, <2>7, <2>8 DEF TaskStep
  <1>4. ASSUME NEW a \in Agents, SessionStep(a) PROVE AgentsTyped'
    <2>1. CASE TurnTakesMail(a)
      BY <1>0, <2>1 DEF TurnTakesMail, AgentsTyped
    <2>2. CASE TurnEnds(a)
      <3>1. turn' = [turn EXCEPT ![a] = None] \/ \E m \in mailbox[a] : turn' = [turn EXCEPT ![a] = m]
        BY <2>2 DEF TurnEnds
      <3>2. mailbox[a] \subseteq Calls
        BY <1>0 DEF AgentsTyped
      <3>3. turn' \in [Agents -> Calls \cup {None}]
        BY <1>0, <3>1, <3>2 DEF AgentsTyped
      <3> QED BY <1>0, <2>2, <3>3 DEF TurnEnds, AgentsTyped
    <2> QED BY <1>4, <2>1, <2>2, LoopTypesAgents DEF SessionStep
  <1>5. CASE Over \/ UNCHANGED vars
    BY <1>1, <1>2, <1>5 DEF Over, vars
  <1> QED BY <1>3, <1>4, <1>5 DEF Next

LEMMA StepTypesHistory == TypeInv /\ [Next]_vars => HistoryTyped'
  <1> SUFFICES ASSUME TypeInv, [Next]_vars PROVE HistoryTyped'
    OBVIOUS
  <1> USE DEF history
  <1>0. HistoryTyped /\ AgentsTyped /\ ScanTyped
    BY DEF TypeInv
  <1>1. ASSUME UNCHANGED history PROVE HistoryTyped'
    BY <1>0, <1>1 DEF HistoryTyped
  <1>2. ASSUME NEW p \in Tasks, TaskStep(p) \/ Cancel(p) PROVE HistoryTyped'
    <2>0. Target(p) \in Agents /\ p[2] \in Calls
      BY TaskFacts
    <2>1. CASE Look(p) \/ Schedule(p)
      <3>1. \/ UNCHANGED unread
            \/ /\ at[p] = "look"
               /\ unread' = unread \cup Messages(victim[p])
            \/ unread' = unread \cup Messages(Target(p))
        BY <2>1 DEF Look, Schedule, ReadGeneration
      <3>2. unread' \subseteq Calls
        BY <1>0, <2>0, <3>1, MessagesTyped DEF ScanTyped, HistoryTyped
      <3> QED BY <1>0, <2>1, <3>2 DEF Look, Schedule, HistoryTyped
    <2>2. CASE Send(p)
      BY <1>0, <2>0, <2>2 DEF Send, HistoryTyped
    <2>3. CASE Cancel(p)
      <3>1. /\ UNCHANGED <<sent, handled, unread>>
            /\ \/ UNCHANGED abandoned
               \/ /\ at[p] \in {"look", "await", "judge", "stop", "wait"}
                  /\ abandoned' = abandoned \cup {victim[p]}
               \/ abandoned' = abandoned \cup {Target(p)}
        BY <2>3 DEF Cancel
      <3> QED BY <1>0, <2>0, <3>1 DEF ScanTyped, HistoryTyped
    <2>4. CASE \/ LockTarget(p) \/ Ensure(p) \/ BeginSpawn(p) \/ Reserve(p) \/ Pop(p)
               \/ Await(p) \/ Judge(p) \/ Stop(p) \/ Forget(p) \/ PutBack(p) \/ Recheck(p)
               \/ Retouch(p) \/ Load(p) \/ LoadFails(p) \/ Commit(p) \/ SendRefused(p)
      BY <1>1, <2>4 DEF LockTarget, Ensure, BeginSpawn, Reserve, Pop, Await, Judge, Stop,
                        Forget, PutBack, Recheck, Retouch, Load, LoadFails, Commit, SendRefused
    <2> QED BY <1>2, <2>1, <2>2, <2>3, <2>4 DEF TaskStep
  <1>3. ASSUME NEW a \in Agents, SessionStep(a) PROVE HistoryTyped'
    <2>1. CASE TurnTakesMail(a)
      BY <1>0, <2>1 DEF TurnTakesMail, HistoryTyped, AgentsTyped
    <2> QED BY <1>1, <1>3, <2>1 DEF SessionStep, LoopStep, TurnEnds
  <1>4. CASE Over \/ UNCHANGED vars
    BY <1>1, <1>4 DEF Over, vars
  <1> QED BY <1>2, <1>3, <1>4 DEF Next

LEMMA InitTyped == Init => TypeInv
  <1> SUFFICES ASSUME Init PROVE TypeInv
    OBVIOUS
  <1>1. ResidentsTyped
    BY DEF Init, ResidentsTyped, IsInjective
  <1>2. AgentsTyped /\ ScanTyped /\ HistoryTyped
    BY DEF Init, AgentsTyped, ScanTyped, HistoryTyped
  <1> QED BY <1>1, <1>2, InitSlots DEF TypeInv

LEMMA StepTyped == TypeInv /\ [Next]_vars => TypeInv'
  BY StepKeepsSlots, StepTypesResidents, StepTypesAgents, StepTypesScan, StepTypesHistory
     DEF TypeInv

THEOREM TypeInvariance == Spec => []TypeInv
  BY InitTyped, StepTyped, PTL DEF Spec

(* Every reachable state is well typed, and no agent is a resident twice.  *)
THEOREM ResidencyTyped == Spec => []TypeOK
  <1>1. TypeInv => pendingSlots \in Nat
    BY FS_CardinalityType DEF TypeInv, SlotInv
  <1>2. TypeInv => TypeOK
    BY <1>1 DEF TypeInv, SlotInv, PlaceInv, Place, ResidentsTyped, AgentsTyped, ScanTyped,
                HistoryTyped, TypeOK
  <1> QED BY <1>2, TypeInvariance, PTL

-----------------------------------------------------------------------------
(* Who can find an agent that is loaded. *)

(* A call took it out of the residents, or has just loaded it.  That an    *)
(* unload after a turn looks at it does not matter: it stays a resident.   *)
Has(p, a) ==
    /\ IsCall(p)
    /\ \/ victim[p] = a /\ at[p] \in {"look", "await", "judge", "stop", "wait", "touch"}
       \/ Target(p) = a /\ at[p] = "commit"

Found(a) == a \in Range(residents) \/ a \in abandoned \/ \E p \in Tasks : Has(p, a)

FoundInv == \A a \in loaded : Found(a)

(* A step of one task, which accounts for the agents that it had, for the  *)
(* residents that it removes and for the agents that it loads.             *)
LEMMA FoundKept ==
    ASSUME FoundInv, NEW p \in Tasks, abandoned \subseteq abandoned',
           \A q \in Tasks \ {p} : at'[q] = at[q] /\ victim'[q] = victim[q],
           \A a \in loaded' : a \in loaded /\ a \in Range(residents) => Found(a)',
           \A a \in loaded' : a \in loaded /\ Has(p, a) => Found(a)',
           \A a \in loaded' : a \notin loaded => Found(a)'
    PROVE  FoundInv'
  <1> SUFFICES ASSUME NEW a \in loaded' PROVE Found(a)'
    BY DEF FoundInv
  <1>1. ASSUME NEW q \in Tasks \ {p}, Has(q, a) PROVE Has(q, a)'
    BY <1>1 DEF Has
  <1> QED BY <1>1 DEF FoundInv, Found

(* The step of a task that had no agent in hand and takes none away.       *)
LEMMA FoundQuietly ==
    ASSUME TypeInv, FoundInv, NEW p \in Tasks, \A a : ~Has(p, a),
           UNCHANGED <<victim, loaded, abandoned>>, Range(residents) \subseteq Range(residents)',
           \E place : Goto(p, place)
    PROVE  FoundInv'
  <1>1. \A q \in Tasks \ {p} : at'[q] = at[q] /\ victim'[q] = victim[q]
    BY DEF Goto, TypeInv, SlotInv, PlaceInv
  <1> QED BY <1>1, FoundKept DEF Found

LEMMA StepKeepsFound == TypeInv /\ FoundInv /\ [Next]_vars => FoundInv'
  <1> SUFFICES ASSUME TypeInv, FoundInv, [Next]_vars PROVE FoundInv'
    OBVIOUS
  <1> USE DEF residency, manager, scan, history
  <1>0. PlaceInv /\ ScanTyped /\ ResidentsTyped
    BY DEF TypeInv, SlotInv
  <1>a. ASSUME NEW p \in Tasks, NEW place, Goto(p, place)
        PROVE  at'[p] = place /\ \A q \in Tasks \ {p} : at'[q] = at[q]
    BY <1>0, <1>a DEF Goto, PlaceInv
  <1>1. ASSUME NEW p \in Tasks, TaskStep(p) \/ Cancel(p) PROVE FoundInv'
    <2>0. Target(p) \in Agents
      BY TaskFacts
    <2>1. CASE \/ LockTarget(p) \/ BeginSpawn(p) \/ Reserve(p) \/ LoadFails(p) \/ SendRefused(p)
      <3>1. at[p] \in {"begin", "reserve", "load", "send"}
        BY <2>1 DEF LockTarget, BeginSpawn, Reserve, LoadFails, SendRefused
      <3>2. UNCHANGED <<victim, loaded, abandoned, residents>> /\ \E place : Goto(p, place)
        BY <2>1 DEF LockTarget, BeginSpawn, Reserve, LoadFails, SendRefused, Fail
      <3> QED BY <3>1, <3>2, FoundQuietly DEF Has
    <2>2. CASE Ensure(p)
      <3>1. /\ at[p] = "ensure" /\ UNCHANGED <<victim, loaded, abandoned>>
            /\ UNCHANGED residents \/ residents' = Touched(Target(p))
            /\ \E place : Goto(p, place)
        BY <2>2 DEF Ensure, Fail
      <3> QED BY <1>0, <2>0, <3>1, FoundQuietly, TouchedFacts DEF Has
    <2>3. CASE Recheck(p) \/ Retouch(p) \/ Schedule(p)
      <3>1. ~IsCall(p)
        BY <1>0, <2>3 DEF Recheck, Retouch, Schedule, PlaceInv, Allowed
      <3>2. /\ UNCHANGED <<loaded, abandoned>> /\ \E place : Goto(p, place)
            /\ \A q \in Tasks \ {p} : victim'[q] = victim[q]
        BY <1>0, <2>3 DEF Recheck, Retouch, Schedule, ScanTyped
      <3>3. Range(residents) \subseteq Range(residents)'
        <4>1. UNCHANGED residents \/ (at[p] = "retouch" /\ residents' = Touched(victim[p]))
          BY <2>3 DEF Recheck, Retouch, Schedule
        <4> QED BY <1>0, <4>1, TouchedFacts DEF ScanTyped
      <3> QED BY <1>a, <3>1, <3>2, <3>3, FoundKept DEF Found, Has
    <2>4. CASE Pop(p)
      <3>1. CASE left[p] = 0 \/ residents \in {<<>>, <<Protected(p)>>}
        <4>1. /\ at[p] = "pop" /\ UNCHANGED <<victim, loaded, abandoned, residents>>
              /\ \E place : Goto(p, place)
          BY <2>4, <3>1 DEF Pop, Fail
        <4> QED BY <4>1, FoundQuietly DEF Has
      <3>2. CASE ~(left[p] = 0 \/ residents \in {<<>>, <<Protected(p)>>})
        <4>0. PICK v \in Agents : v = Head(Rotated(p))
          BY <1>0, <3>2, PoppedFacts
        <4>1. /\ at[p] = "pop" /\ Goto(p, "look") /\ victim' = [victim EXCEPT ![p] = v]
              /\ residents' = Tail(Rotated(p)) /\ UNCHANGED <<loaded, abandoned>> /\ IsCall(p)
          BY <1>0, <2>4, <3>2, <4>0 DEF Pop, PlaceInv, Allowed
        <4>2. Range(residents) = Range(residents)' \cup {v}
          BY <1>0, <3>2, <4>0, <4>1, PoppedFacts
        <4>3. /\ \A q \in Tasks \ {p} : at'[q] = at[q] /\ victim'[q] = victim[q]
              /\ at'[p] = "look" /\ victim'[p] = v
          BY <1>0, <1>a, <4>1 DEF ScanTyped
        <4>4. Has(p, v)'
          BY <4>1, <4>3 DEF Has
        <4> QED BY <4>1, <4>2, <4>3, <4>4, FoundKept DEF Found, Has
      <3> QED BY <3>1, <3>2
    <2>5. CASE Look(p) \/ Await(p) \/ Judge(p) \/ Stop(p)
      <3>1. /\ UNCHANGED <<victim, loaded, abandoned, residents>>
            /\ \/ \E place \in {"await", "judge", "stop", "wait", "touch"} : Goto(p, place)
               \/ Goto(p, "reserve") /\ at[p] = "look" /\ victim[p] \notin loaded
            /\ at[p] \in {"look", "await", "judge", "stop"}
        BY <2>5 DEF Look, Await, Judge, Stop
      <3>2. \A q \in Tasks \ {p} : at'[q] = at[q] /\ victim'[q] = victim[q]
        BY <1>a, <3>1
      <3>3. \A a \in loaded' : Has(p, a) => Has(p, a)'
        BY <1>a, <3>1 DEF Has
      <3> QED BY <3>1, <3>2, <3>3, FoundKept DEF Found
    <2>6. CASE Forget(p)
      <3>1. /\ at[p] = "wait" /\ UNCHANGED <<victim, abandoned>>
            /\ loaded' = loaded \ {victim[p]} /\ residents' = Without(victim[p])
            /\ \E place : Goto(p, place)
        BY <2>6 DEF Forget
      <3>2. Range(residents)' = Range(residents) \ {victim[p]}
        BY <1>0, <3>1, WithoutFacts DEF ScanTyped
      <3>3. \A q \in Tasks \ {p} : at'[q] = at[q] /\ victim'[q] = victim[q]
        BY <1>a, <3>1
      <3> QED BY <3>1, <3>2, <3>3, FoundKept DEF Found, Has
    <2>7. CASE PutBack(p)
      <3>1. /\ at[p] = "touch" /\ UNCHANGED <<victim, abandoned, loaded>>
            /\ residents' = Touched(victim[p]) /\ Goto(p, "pop")
        BY <2>7 DEF PutBack
      <3>2. Range(residents)' = Range(residents) \cup {victim[p]}
        BY <1>0, <3>1, TouchedFacts DEF ScanTyped
      <3>3. \A q \in Tasks \ {p} : at'[q] = at[q] /\ victim'[q] = victim[q]
        BY <1>a, <3>1
      <3> QED BY <3>1, <3>2, <3>3, FoundKept DEF Found, Has
    <2>8. CASE Load(p)
      <3>1. /\ at[p] = "load" /\ UNCHANGED <<victim, abandoned, residents>>
            /\ loaded' = loaded \cup {Target(p)} /\ Goto(p, "commit") /\ IsCall(p)
        BY <1>0, <2>8 DEF Load, PlaceInv, Allowed
      <3>2. \A q \in Tasks \ {p} : at'[q] = at[q] /\ victim'[q] = victim[q]
        BY <1>a, <3>1
      <3>3. Has(p, Target(p))'
        BY <1>a, <3>1 DEF Has, Target
      <3> QED BY <3>1, <3>2, <3>3, FoundKept DEF Found, Has
    <2>9. CASE Commit(p)
      <3>1. /\ at[p] = "commit" /\ UNCHANGED <<victim, abandoned, loaded>>
            /\ residents' = Touched(Target(p)) /\ Goto(p, "send")
        BY <2>9 DEF Commit
      <3>2. Range(residents)' = Range(residents) \cup {Target(p)}
        BY <1>0, <2>0, <3>1, TouchedFacts
      <3>3. \A q \in Tasks \ {p} : at'[q] = at[q] /\ victim'[q] = victim[q]
        BY <1>a, <3>1
      <3> QED BY <3>1, <3>2, <3>3, FoundKept DEF Found, Has
    <2>10. CASE Send(p)
      <3>1. /\ at[p] = "send" /\ UNCHANGED <<victim, abandoned>> /\ Goto(p, "done")
            /\ \/ UNCHANGED <<loaded, residents>>
               \/ loaded' = loaded \ {Target(p)} /\ residents' = Without(Target(p))
        BY <2>10 DEF Send
      <3>2. \A a \in loaded' : a \in loaded /\ (a \in Range(residents) => a \in Range(residents)')
        BY <1>0, <2>0, <3>1, WithoutFacts
      <3>3. \A q \in Tasks \ {p} : at'[q] = at[q] /\ victim'[q] = victim[q]
        BY <1>a, <3>1
      <3> QED BY <3>1, <3>2, <3>3, FoundKept DEF Found, Has
    <2>11. CASE Cancel(p)
      <3>1. /\ UNCHANGED <<victim, loaded, residents>> /\ Goto(p, "failed")
            /\ at[p] # "touch" /\ abandoned \subseteq abandoned'
            /\ at[p] \in {"look", "await", "judge", "stop", "wait"} => victim[p] \in abandoned'
            /\ at[p] = "commit" => Target(p) \in abandoned'
        BY <2>11 DEF Cancel, Interruptible, Fail
      <3>2. \A q \in Tasks \ {p} : at'[q] = at[q] /\ victim'[q] = victim[q]
        BY <1>a, <3>1
      <3> QED BY <3>1, <3>2, FoundKept DEF Found, Has
    <2> QED
      BY <1>1, <2>1, <2>2, <2>3, <2>4, <2>5, <2>6, <2>7, <2>8, <2>9, <2>10, <2>11 DEF TaskStep
  <1>2. ASSUME UNCHANGED <<residents, abandoned, loaded, victim>>,
               \A p \in Tasks : IsCall(p) => at'[p] = at[p]
        PROVE  FoundInv'
    BY <1>2 DEF FoundInv, Found, Has
  <1>3. ASSUME NEW a \in Agents, SessionStep(a) PROVE FoundInv'
    <2>1. UNCHANGED at \/ at' = [at EXCEPT ![Unload(turn[a])] = "schedule"]
      BY <1>3 DEF SessionStep, LoopStep, TurnTakesMail, TurnEnds
    <2>2. \A p \in Tasks : IsCall(p) => at'[p] = at[p]
      BY <1>0, <2>1 DEF PlaceInv, IsCall, Unload
    <2> QED BY <1>2, <1>3, <2>2 DEF SessionStep, LoopStep, TurnTakesMail, TurnEnds
  <1>4. CASE Over \/ UNCHANGED vars
    BY <1>2, <1>4 DEF Over, vars
  <1> QED BY <1>1, <1>3, <1>4 DEF Next

(* A loaded agent that nobody could find would take up room for ever: each *)
(* is a resident, or in the hands of a call, unless a cancelled call       *)
(* dropped it.                                                             *)
THEOREM LoadedAgentsAreFound == Spec => []LoadedKnown
  <1>1. Init => FoundInv
    BY DEF Init, FoundInv
  <1>2. Spec => []FoundInv
    BY <1>1, StepKeepsFound, TypeInvariance, PTL DEF Spec
  <1>3. TypeInv /\ FoundInv => LoadedKnown
    BY DEF TypeInv, AgentsTyped, FoundInv, Found, Has, LoadedKnown, InHand
  <1> QED BY <1>2, <1>3, TypeInvariance, PTL
-----------------------------------------------------------------------------
(***************************************************************************)
(* The mail: a message that AgentResidency accepted stays with its agent,  *)
(* although the agent may be unloaded at any moment: whoever unloads it    *)
(* holds its lock, and has seen that nothing arrived since it looked.      *)
(***************************************************************************)
Sends(p) == IsCall(p) /\ ~Spawns(p)
Created(p) == IsCall(p) /\ Spawns(p)

-----------------------------------------------------------------------------
(* The locks. *)

(* A message holds the lock of its own agent from LockTarget to its end;   *)
(* an unload that of its candidate while it judges, stops and waits.       *)
Locking == {"ensure", "reserve", "pop", "look", "await", "judge", "stop", "wait", "touch",
            "load", "commit", "send"}
Unloading == {"judge", "stop", "wait"}
Considering == Unloading \cup {"await", "touch", "retouch"}

LockOf(p) ==
    /\ Sends(p) /\ at[p] \in Locking => lock[Target(p)] = p
    /\ at[p] \in Unloading => lock[victim[p]] = p
    /\ Sends(p) /\ at[p] \in Unloading => victim[p] # Target(p)
    /\ ~IsCall(p) /\ at[p] \in Considering => victim[p] = Target(p)
    /\ \A a \in Agents : lock[a] = p =>
          IF IsCall(p)
          THEN \/ ~Spawns(p) /\ a = Target(p) /\ at[p] \in Locking
               \/ a = victim[p] /\ at[p] \in Unloading
          ELSE a = Target(p)

LockInv == \A p \in Tasks : LockOf(p)

(* What one task does to the locks that others hold.                       *)
SameForOthers(p) ==
    \A q \in Tasks \ {p} :
        /\ at'[q] = at[q] /\ victim'[q] = victim[q]
        /\ \A a \in Agents : lock'[a] = q <=> lock[a] = q

LEMMA OthersKeepLocks ==
    ASSUME TypeInv, LockInv, NEW p \in Tasks, SameForOthers(p), LockOf(p)'
    PROVE  LockInv'
  <1> SUFFICES ASSUME NEW q \in Tasks \ {p} PROVE LockOf(q)'
    BY DEF LockInv
  <1>1. LockOf(q) /\ Target(q) \in Agents
    BY TaskFacts DEF LockInv
  <1>2. at[q] \in Unloading => victim[q] \in Agents
    BY DEF TypeInv, ScanTyped, Unloading
  <1>3. /\ at'[q] = at[q] /\ victim'[q] = victim[q]
        /\ \A a \in Agents : lock'[a] = q <=> lock[a] = q
    BY DEF SameForOthers
  <1>4. Target(q)' = Target(q) /\ (Sends(q)' <=> Sends(q)) /\ (IsCall(q)' <=> IsCall(q))
    BY DEF Target, Sends, IsCall, Spawns
  <1> QED BY <1>1, <1>2, <1>3, <1>4 DEF LockOf

(* Locks are taken when they are free, and given back by their holder.     *)
LEMMA LockChanges ==
    ASSUME TypeInv, NEW p \in Tasks,
           \/ UNCHANGED lock
           \/ Release(p)
           \/ \E b \in Agents : lock[b] = NoTask /\ lock' = [lock EXCEPT ![b] = p]
           \/ \E b \in Agents : lock[b] = p /\ Unlock(b)
    PROVE  \A q \in Tasks \ {p}, a \in Agents : lock'[a] = q <=> lock[a] = q
  <1>1. lock \in [Agents -> Tasks \cup {NoTask}] /\ \A q \in Tasks : q # NoTask
    BY TaskFacts DEF TypeInv, AgentsTyped
  <1>2. CASE UNCHANGED lock
    BY <1>2
  <1>3. CASE Release(p)
    BY <1>1, <1>3 DEF Release
  <1>4. ASSUME NEW b \in Agents, lock[b] = NoTask, lock' = [lock EXCEPT ![b] = p]
        PROVE  \A q \in Tasks \ {p}, a \in Agents : lock'[a] = q <=> lock[a] = q
    BY <1>1, <1>4
  <1>5. ASSUME NEW b \in Agents, lock[b] = p, Unlock(b)
        PROVE  \A q \in Tasks \ {p}, a \in Agents : lock'[a] = q <=> lock[a] = q
    BY <1>1, <1>5 DEF Unlock
  <1> QED BY <1>2, <1>3, <1>4, <1>5

LEMMA TaskStepsLocks ==
    ASSUME TypeInv, LockInv, NEW p \in Tasks, TaskStep(p) \/ Cancel(p)
    PROVE  SameForOthers(p)
  <1> USE DEF scan, io
  <1>1. Target(p) \in Agents /\ LockOf(p)
    BY TaskFacts DEF LockInv
  <1>2. at[p] \in Considering => victim[p] \in Agents
    BY DEF TypeInv, ScanTyped, Considering, Unloading
  <1>3. \E place : Goto(p, place)
    BY DEF TaskStep, LockTarget, Ensure, BeginSpawn, Reserve, Pop, Look, Await, Judge, Stop,
           Forget, PutBack, Recheck, Retouch, Load, LoadFails, Commit, Send, SendRefused,
           Schedule, Cancel, Fail
  <1>4. UNCHANGED victim \/ \E v : victim' = [victim EXCEPT ![p] = v]
    BY DEF TaskStep, LockTarget, Ensure, BeginSpawn, Reserve, Pop, Look, Await, Judge, Stop,
           Forget, PutBack, Recheck, Retouch, Load, LoadFails, Commit, Send, SendRefused,
           Schedule, Cancel
  <1>5. \/ UNCHANGED lock
        \/ Release(p)
        \/ \E b \in Agents : lock[b] = NoTask /\ lock' = [lock EXCEPT ![b] = p]
        \/ \E b \in Agents : lock[b] = p /\ Unlock(b)
    <2>1. CASE LockTarget(p) \/ Await(p)
      BY <1>1, <1>2, <2>1 DEF LockTarget, Await, Considering
    <2>2. CASE Judge(p) \/ Forget(p)
      <3>1. at[p] \in Unloading /\ (UNCHANGED lock \/ Unlock(victim[p]))
        BY <2>2 DEF Judge, Forget, Unloading
      <3> QED BY <1>1, <1>2, <3>1 DEF LockOf, Considering
    <2>3. CASE \/ Ensure(p) \/ BeginSpawn(p) \/ Reserve(p) \/ Pop(p) \/ Look(p) \/ Stop(p)
               \/ PutBack(p) \/ Recheck(p) \/ Retouch(p) \/ Load(p) \/ LoadFails(p) \/ Commit(p)
               \/ Send(p) \/ SendRefused(p) \/ Schedule(p) \/ Cancel(p)
      BY <2>3 DEF Ensure, BeginSpawn, Reserve, Pop, Look, Stop, PutBack, Recheck, Retouch, Load,
                  LoadFails, Commit, Send, SendRefused, Schedule, Cancel, Fail
    <2> QED BY <2>1, <2>2, <2>3 DEF TaskStep
  <1>6. \A q \in Tasks \ {p} : at'[q] = at[q]
    BY <1>3 DEF Goto, TypeInv, SlotInv, PlaceInv
  <1>7. \A q \in Tasks \ {p} : victim'[q] = victim[q]
    BY <1>4 DEF TypeInv, ScanTyped
  <1> QED BY <1>5, <1>6, <1>7, LockChanges DEF SameForOthers

LEMMA SessionStepsLocks ==
    ASSUME TypeInv, NEW b \in Agents, SessionStep(b)
    PROVE  /\ UNCHANGED <<lock, victim, expect>>
           /\ \A q \in Tasks : \/ at'[q] = at[q]
                               \/ ~IsCall(q) /\ at'[q] = "schedule"
  <1>1. UNCHANGED at \/ at' = [at EXCEPT ![Unload(turn[b])] = "schedule"]
    BY DEF SessionStep, LoopStep, TurnTakesMail, TurnEnds
  <1>2. \A q \in Tasks : at'[q] = at[q] \/ (q = Unload(turn[b]) /\ at'[q] = "schedule")
    BY <1>1 DEF TypeInv, SlotInv, PlaceInv
  <1>3. ~IsCall(Unload(turn[b]))
    BY DEF IsCall, Unload
  <1> QED BY <1>2, <1>3 DEF SessionStep, LoopStep, TurnTakesMail, TurnEnds, io, scan

(* A step of p that neither takes nor gives back a lock.                   *)
LEMMA LockMoves ==
    ASSUME NEW p \in Tasks, NEW place, TypeInv, LockOf(p), Goto(p, place), UNCHANGED lock,
           place \in Unloading <=> at[p] \in Unloading,
           Sends(p) => (place \in Locking <=> at[p] \in Locking),
           UNCHANGED victim \/ (IsCall(p) /\ place \notin Unloading),
           ~IsCall(p) /\ place \in Considering => at[p] \in Considering
    PROVE  LockOf(p)'
  <1>1. at'[p] = place
    BY DEF Goto, TypeInv, SlotInv, PlaceInv
  <1>2. Target(p)' = Target(p) /\ (Sends(p)' <=> Sends(p)) /\ (IsCall(p)' <=> IsCall(p))
        /\ (Spawns(p)' <=> Spawns(p))
    BY DEF Target, Sends, IsCall, Spawns
  <1> QED BY <1>1, <1>2 DEF LockOf, Sends

LEMMA StepKeepsLocks == TypeInv /\ LockInv /\ [Next]_vars => LockInv'
  <1> SUFFICES ASSUME TypeInv, LockInv, [Next]_vars PROVE LockInv'
    OBVIOUS
  <1> USE DEF scan, io
  <1>1. ASSUME NEW p \in Tasks, TaskStep(p) \/ Cancel(p) PROVE LockOf(p)'
    <2>0. /\ LockOf(p) /\ Target(p) \in Agents /\ at[p] \in Allowed(p) /\ p # NoTask
          /\ at[p] \in Considering => victim[p] \in Agents
          /\ lock \in [Agents -> Tasks \cup {NoTask}]
      BY TaskFacts DEF LockInv, TypeInv, SlotInv, PlaceInv, ScanTyped, AgentsTyped, Considering,
                       Unloading
    <2>a. ASSUME NEW place, Goto(p, place) PROVE at'[p] = place
      BY <2>a DEF Goto, TypeInv, SlotInv, PlaceInv
    <2>b. /\ Target(p)' = Target(p) /\ (Sends(p)' <=> Sends(p)) /\ (IsCall(p)' <=> IsCall(p))
          /\ (Spawns(p)' <=> Spawns(p))
      BY DEF Target, Sends, IsCall, Spawns
    <2>1. CASE LockTarget(p)
      <3>1. /\ at[p] = "begin" /\ lock' = [lock EXCEPT ![Target(p)] = p] /\ Goto(p, "ensure")
            /\ IsCall(p) /\ ~Spawns(p) /\ UNCHANGED victim
        BY <2>0, <2>1 DEF LockTarget, Allowed
      <3> QED BY <2>0, <2>a, <2>b, <3>1 DEF LockOf, Sends, Locking, Unloading, Considering
    <2>2. CASE Await(p)
      <3>1. /\ at[p] = "await" /\ lock[victim[p]] = NoTask /\ UNCHANGED victim
            /\ lock' = [lock EXCEPT ![victim[p]] = p] /\ Goto(p, "judge")
        BY <2>2 DEF Await
      <3> QED BY <2>0, <2>a, <2>b, <3>1 DEF LockOf, Sends, Locking, Unloading, Considering
    <2>3. CASE Judge(p) \/ Forget(p)
      <3>1. CASE UNCHANGED lock
        <4>1. at[p] = "judge" /\ Goto(p, "stop") /\ UNCHANGED victim
          <5>1. CASE Forget(p)
            BY <2>0, <3>1, <5>1 DEF Forget, Unlock, LockOf, Unloading, Considering
          <5>2. CASE Judge(p)
            BY <2>0, <3>1, <5>2 DEF Judge, Unlock, LockOf, Unloading, Considering
          <5> QED BY <2>3, <5>1, <5>2
        <4> QED BY <2>0, <3>1, <4>1, LockMoves DEF Locking, Unloading, Considering
      <3>2. CASE Unlock(victim[p])
        <4>1. /\ at[p] \in Unloading /\ UNCHANGED victim
              /\ \E place \in {"touch", "reserve", "done"} :
                    Goto(p, place) /\ (place = "done" => ~IsCall(p))
          <5>1. CASE Forget(p)
            BY <5>1 DEF Forget, Unloading
          <5>2. CASE Judge(p)
            BY <2>0, <3>2, <5>2 DEF Judge, Unlock, LockOf, Unloading, Considering
          <5> QED BY <2>3, <5>1, <5>2
        <4>2. \A a \in Agents : lock'[a] = IF a = victim[p] THEN NoTask ELSE lock[a]
          BY <2>0, <3>2 DEF Unlock
        <4> QED BY <2>0, <2>a, <2>b, <4>1, <4>2
                DEF LockOf, Sends, Locking, Unloading, Considering
      <3> QED BY <2>3, <3>1, <3>2 DEF Judge, Forget
    <2>4. CASE Release(p) /\ UNCHANGED victim /\ (Goto(p, "failed") \/ Goto(p, "done"))
      <3>1. \A a \in Agents : lock'[a] # p
        BY <2>0, <2>4 DEF Release
      <3> QED BY <2>a, <2>b, <2>4, <3>1 DEF LockOf, Locking, Unloading, Considering
    <2>5. CASE Schedule(p)
      <3>1. /\ ~IsCall(p) /\ UNCHANGED lock
            /\ \/ Goto(p, "await") /\ victim' = [victim EXCEPT ![p] = Target(p)]
               \/ Goto(p, "done") /\ UNCHANGED victim
        BY <2>0, <2>5 DEF Schedule, Allowed
      <3>2. victim \in [Tasks -> Agents \cup {None}]
        BY DEF TypeInv, ScanTyped
      <3> QED BY <2>0, <2>a, <2>b, <3>1, <3>2
              DEF LockOf, Sends, Locking, Unloading, Considering
    <2>6. CASE \/ BeginSpawn(p) \/ Reserve(p) \/ Load(p) \/ Commit(p)
               \/ Ensure(p) /\ UNCHANGED lock /\ (Goto(p, "send") \/ Goto(p, "reserve"))
      <3>1. /\ UNCHANGED <<victim, lock>>
            /\ \E place \in {"send", "reserve", "load", "pop", "commit"} : Goto(p, place)
            /\ at[p] \in {"ensure", "reserve", "load", "commit"} \/ (Spawns(p) /\ at[p] = "begin")
        BY <2>6 DEF Ensure, BeginSpawn, Reserve, Load, Commit
      <3> QED BY <2>0, <2>6, <3>1, LockMoves DEF Sends, Locking, Unloading, Considering
    <2>7. CASE Pop(p) /\ UNCHANGED lock /\ Goto(p, "look")
      <3>1. IsCall(p) /\ at[p] = "pop"
        BY <2>0, <2>7 DEF Pop, Allowed
      <3> QED BY <2>0, <2>7, <3>1, LockMoves DEF Locking, Unloading
    <2>8. CASE Look(p) \/ Stop(p)
      <3>1. /\ UNCHANGED <<victim, lock>>
            /\ \/ at[p] = "look" /\ IsCall(p) /\ (Goto(p, "await") \/ Goto(p, "reserve"))
               \/ at[p] = "stop" /\ Goto(p, "wait")
        BY <2>0, <2>8 DEF Look, Stop, Allowed
      <3> QED BY <2>0, <3>1, LockMoves DEF Locking, Unloading, Considering
    <2>9. CASE PutBack(p) \/ Recheck(p) \/ Retouch(p)
      <3>1. /\ UNCHANGED <<victim, lock>>
            /\ \/ at[p] = "touch" /\ IsCall(p) /\ Goto(p, "pop")
               \/ /\ at[p] \in {"touch", "retouch"} /\ ~IsCall(p)
                  /\ Goto(p, "retouch") \/ Goto(p, "done")
        BY <2>0, <2>9 DEF PutBack, Recheck, Retouch, Allowed
      <3> QED BY <2>0, <3>1, LockMoves DEF Sends, Locking, Unloading, Considering
    <2> QED
      <3>1. Ensure(p) => \/ UNCHANGED lock /\ (Goto(p, "send") \/ Goto(p, "reserve"))
                         \/ Release(p) /\ UNCHANGED victim /\ Goto(p, "failed")
        BY DEF Ensure, Fail
      <3>2. Pop(p) => \/ UNCHANGED lock /\ Goto(p, "look")
                      \/ Release(p) /\ UNCHANGED victim /\ Goto(p, "failed")
        BY DEF Pop, Fail
      <3>4. LoadFails(p) \/ Send(p) \/ SendRefused(p) \/ Cancel(p)
               => Release(p) /\ UNCHANGED victim /\ (Goto(p, "failed") \/ Goto(p, "done"))
        BY DEF LoadFails, Send, SendRefused, Cancel, Fail
      <3> QED BY <1>1, <2>1, <2>2, <2>3, <2>4, <2>5, <2>6, <2>7, <2>8, <2>9, <3>1, <3>2, <3>4
              DEF TaskStep
  <1>2. ASSUME NEW p \in Tasks, TaskStep(p) \/ Cancel(p) PROVE LockInv'
    BY <1>1, <1>2, TaskStepsLocks, OthersKeepLocks
  <1>3. ASSUME NEW b \in Agents, SessionStep(b) PROVE LockInv'
    <2> SUFFICES ASSUME NEW p \in Tasks PROVE LockOf(p)'
      BY DEF LockInv
    <2>1. /\ Target(p)' = Target(p) /\ (Sends(p)' <=> Sends(p)) /\ (IsCall(p)' <=> IsCall(p))
          /\ (Spawns(p)' <=> Spawns(p))
      BY DEF Target, Sends, IsCall, Spawns
    <2>2. /\ UNCHANGED <<lock, victim>>
          /\ at'[p] = at[p] \/ (~IsCall(p) /\ at'[p] = "schedule")
      BY <1>3, SessionStepsLocks
    <2> QED BY <2>1, <2>2 DEF LockInv, LockOf, Sends, Locking, Unloading, Considering
  <1>4. CASE Over \/ UNCHANGED vars
    BY <1>4 DEF Over, vars, LockInv, LockOf, Target, Sends, IsCall, Spawns
  <1> QED BY <1>2, <1>3, <1>4 DEF Next

LEMMA InitLocks == Init => LockInv
  BY TaskFacts DEF Init, LockInv, LockOf, Locking, Unloading, Considering

-----------------------------------------------------------------------------
(* The sessions. *)

InChan(a) == {chan[a][i] : i \in DOMAIN chan[a]}

(* Only an agent whose thread is loaded has a loop that runs, and only     *)
(* such a loop has anything in its channel or mailbox.                     *)
SessionsInv ==
    \A a \in Agents : /\ alive[a] => a \in loaded
                      /\ ~alive[a] => chan[a] = <<>> /\ mailbox[a] = {}

LEMMA ChanAppended ==
    ASSUME AgentsTyped, NEW a \in Agents, NEW m \in Calls \cup {Shutdown},
           chan' = [chan EXCEPT ![a] = Append(@, m)]
    PROVE  /\ InChan(a)' = InChan(a) \cup {m}
           /\ \A b \in Agents \ {a} : InChan(b)' = InChan(b)
  <1> DEFINE s == chan[a]
             n == Len(s)
  <1>1. s \in Seq(Calls \cup {Shutdown}) /\ chan'[a] = Append(s, m)
    BY DEF AgentsTyped
  <1>2. \A b \in Agents \ {a} : chan'[b] = chan[b]
    BY DEF AgentsTyped
  <1> HIDE DEF s
  <1>3. /\ n \in Nat /\ DOMAIN s = 1..n /\ DOMAIN Append(s, m) = 1..(n + 1)
        /\ \A i \in 1..n : Append(s, m)[i] = s[i]
        /\ Append(s, m)[n + 1] = m
    BY <1>1, AppendProperties
  <1>4. {Append(s, m)[i] : i \in DOMAIN Append(s, m)} = {s[i] : i \in DOMAIN s} \cup {m}
    BY <1>3
  <1> QED BY <1>1, <1>2, <1>4 DEF InChan, s

LEMMA ChanTaken ==
    ASSUME AgentsTyped, NEW a \in Agents, chan[a] # <<>>,
           chan' = [chan EXCEPT ![a] = Tail(@)]
    PROVE  /\ InChan(a) = InChan(a)' \cup {Head(chan[a])}
           /\ \A b \in Agents \ {a} : InChan(b)' = InChan(b)
  <1> DEFINE s == chan[a]
             n == Len(s)
  <1>1. s \in Seq(Calls \cup {Shutdown}) /\ s # <<>> /\ chan'[a] = Tail(s)
    BY DEF AgentsTyped
  <1>2. \A b \in Agents \ {a} : chan'[b] = chan[b]
    BY DEF AgentsTyped
  <1> HIDE DEF s
  <1>3. /\ n \in Nat \ {0} /\ DOMAIN s = 1..n /\ DOMAIN Tail(s) = 1..(n - 1) /\ Head(s) = s[1]
        /\ \A i \in 1..(n - 1) : Tail(s)[i] = s[i + 1]
    BY <1>1, HeadTailProperties
  <1>4. \A i \in 1..n : i = 1 \/ (i - 1 \in 1..(n - 1) /\ s[i] = Tail(s)[i - 1])
    BY <1>3
  <1>5. {s[i] : i \in DOMAIN s} = {Tail(s)[i] : i \in DOMAIN Tail(s)} \cup {Head(s)}
    <2>1. ASSUME NEW i \in 1..n
          PROVE  s[i] \in {Tail(s)[j] : j \in DOMAIN Tail(s)} \cup {Head(s)}
      BY <1>3, <1>4
    <2>2. \A i \in 1..(n - 1) : i + 1 \in 1..n /\ Tail(s)[i] = s[i + 1]
      BY <1>3
    <2> QED BY <1>3, <2>1, <2>2
  <1> QED BY <1>1, <1>2, <1>5 DEF InChan, s

LEMMA StepKeepsSessions == TypeInv /\ SessionsInv /\ [Next]_vars => SessionsInv'
  <1> SUFFICES ASSUME TypeInv, SessionsInv, [Next]_vars PROVE SessionsInv'
    OBVIOUS
  <1> USE DEF sessions, manager, residency
  <1>0. AgentsTyped /\ ScanTyped
    BY DEF TypeInv
  <1>1. ASSUME UNCHANGED <<chan, mailbox, alive>>, \A a \in Agents : alive[a] => a \in loaded'
        PROVE  SessionsInv'
    BY <1>1 DEF SessionsInv
  <1>2. ASSUME NEW p \in Tasks, TaskStep(p) \/ Cancel(p) PROVE SessionsInv'
    <2>0. Target(p) \in Agents
      BY TaskFacts
    <2>1. CASE Stop(p)
      <3>1. /\ UNCHANGED <<loaded, alive, mailbox>>
            /\ chan' = IF alive[victim[p]] THEN [chan EXCEPT ![victim[p]] = Append(@, Shutdown)]
                       ELSE chan
        BY <2>1 DEF Stop
      <3>2. \A a \in Agents : ~alive[a] => chan'[a] = chan[a]
        BY <1>0, <3>1 DEF AgentsTyped
      <3> QED BY <3>1, <3>2 DEF SessionsInv
    <2>2. CASE Forget(p)
      <3>1. /\ UNCHANGED <<chan, mailbox, alive>> /\ loaded' = loaded \ {victim[p]}
            /\ ~alive[victim[p]]
        BY <2>2 DEF Forget
      <3> QED BY <1>1, <3>1 DEF SessionsInv
    <2>3. CASE Load(p)
      <3>1. /\ loaded' = loaded \cup {Target(p)}
            /\ chan' = [chan EXCEPT ![Target(p)] = <<>>]
            /\ mailbox' = [mailbox EXCEPT ![Target(p)] = {}]
            /\ alive' = [alive EXCEPT ![Target(p)] = TRUE]
        BY <2>3 DEF Load
      <3> QED BY <1>0, <2>0, <3>1 DEF SessionsInv, AgentsTyped
    <2>4. CASE Send(p)
      <3>1. UNCHANGED <<mailbox, alive>>
        BY <2>4 DEF Send
      <3>2. CASE alive[Target(p)] /\ Target(p) \in loaded
        <4>1. UNCHANGED loaded /\ chan' = [chan EXCEPT ![Target(p)] = Append(@, p[2])]
          BY <2>4, <3>2 DEF Send
        <4>2. \A a \in Agents : a # Target(p) => chan'[a] = chan[a]
          BY <1>0, <4>1 DEF AgentsTyped
        <4> QED BY <3>1, <3>2, <4>1, <4>2 DEF SessionsInv
      <3>3. CASE ~(alive[Target(p)] /\ Target(p) \in loaded)
        <4>1. UNCHANGED chan /\ (UNCHANGED loaded \/ loaded' = loaded \ {Target(p)})
          BY <2>4, <3>3 DEF Send
        <4>2. ~alive[Target(p)]
          BY <2>0, <3>3 DEF SessionsInv
        <4> QED BY <1>1, <3>1, <4>1, <4>2 DEF SessionsInv
      <3> QED BY <3>2, <3>3
    <2>5. CASE \/ LockTarget(p) \/ Ensure(p) \/ BeginSpawn(p) \/ Reserve(p) \/ Pop(p) \/ Look(p)
               \/ Await(p) \/ Judge(p) \/ PutBack(p) \/ Recheck(p) \/ Retouch(p) \/ LoadFails(p)
               \/ Commit(p) \/ SendRefused(p) \/ Schedule(p) \/ Cancel(p)
      <3>1. UNCHANGED <<chan, mailbox, alive, loaded>>
        BY <2>5 DEF LockTarget, Ensure, BeginSpawn, Reserve, Pop, Look, Await, Judge, PutBack,
                    Recheck, Retouch, LoadFails, Commit, SendRefused, Schedule, Cancel
      <3> QED BY <1>1, <3>1 DEF SessionsInv
    <2> QED BY <1>2, <2>1, <2>2, <2>3, <2>4, <2>5 DEF TaskStep
  <1>3. ASSUME NEW a \in Agents, SessionStep(a) PROVE SessionsInv'
    <2>1. CASE LoopStep(a)
      <3>1. /\ alive[a] /\ UNCHANGED loaded
            /\ \E c, m : chan' = [chan EXCEPT ![a] = c] /\ mailbox' = [mailbox EXCEPT ![a] = m]
            /\ \/ UNCHANGED alive
               \/ /\ alive' = [alive EXCEPT ![a] = FALSE] /\ chan' = [chan EXCEPT ![a] = <<>>]
                  /\ mailbox' = [mailbox EXCEPT ![a] = {}]
        BY <2>1 DEF LoopStep
      <3> QED BY <1>0, <3>1 DEF SessionsInv, AgentsTyped
    <2>2. CASE TurnTakesMail(a)
      <3>1. UNCHANGED <<alive, chan, loaded>> /\ mailbox' = [mailbox EXCEPT ![a] = {}]
        BY <2>2 DEF TurnTakesMail
      <3> QED BY <1>0, <3>1 DEF SessionsInv, AgentsTyped
    <2>3. CASE TurnEnds(a)
      BY <2>3 DEF TurnEnds, SessionsInv
    <2> QED BY <1>3, <2>1, <2>2, <2>3 DEF SessionStep
  <1>4. CASE Over \/ UNCHANGED vars
    BY <1>4 DEF Over, vars, SessionsInv
  <1> QED BY <1>2, <1>3, <1>4 DEF Next

-----------------------------------------------------------------------------
(* Who loads an agent. *)

(* Until an agent was created nobody knows it; and whoever is about to     *)
(* load one has found it missing, and would notice its return.             *)
Beginning == {"off", "begin", "ensure", "reserve", "pop", "look", "await", "judge", "stop",
              "wait", "touch", "retouch", "load", "schedule"}
Reloading == Locking \ {"ensure", "commit", "send"}

LoadsOf(p) ==
    /\ Created(p) /\ at[p] \in Beginning \cup {"commit"} => Target(p) \notin known
    /\ Created(p) /\ at[p] \in Beginning => Target(p) \notin loaded
    /\ Sends(p) /\ at[p] \in Reloading => Target(p) \notin loaded
    /\ Sends(p) /\ at[p] \in Locking =>
          \A q \in Tasks : Created(q) /\ Target(q) = Target(p)
                              => at[q] \notin Beginning \cup {"commit"}

LoadInv == \A p \in Tasks : LoadsOf(p)

LEMMA CreatedOnce ==
    ASSUME NEW p \in Tasks, NEW q \in Tasks, Created(p), Created(q), Target(p) = Target(q)
    PROVE  p = q
  <1>1. CallOf[p[2]] = CallOf[q[2]]
    <2>1. CallOf[p[2]] \in [op : {"spawn", "message", "followup"}, agent : Agents]
          /\ CallOf[q[2]] \in [op : {"spawn", "message", "followup"}, agent : Agents]
      BY CallAssumption, TaskFacts
    <2> QED BY <2>1 DEF Created, Spawns, Target
  <1>2. p[2] = q[2]
    BY <1>1, CallAssumption, TaskFacts DEF Created, Spawns
  <1> QED BY <1>2, TaskFacts DEF Created, IsCall

(* A step of p that loads nothing and makes nothing known.                 *)
LEMMA LoadsNothing ==
    ASSUME TypeInv, LoadInv, NEW p \in Tasks, NEW place, Goto(p, place),
           loaded' \subseteq loaded, known' \subseteq known,
           at[p] \notin Beginning => place \notin Beginning,
           at[p] \notin Beginning \cup {"commit"} => place \notin Beginning \cup {"commit"},
           Sends(p) /\ place \in Locking => at[p] \in Locking \/ Target(p) \in known,
           Sends(p) /\ place \in Reloading => at[p] \in Reloading \/ Target(p) \notin loaded
    PROVE  LoadInv'
  <1>1. at'[p] = place /\ \A q \in Tasks \ {p} : at'[q] = at[q]
    BY DEF Goto, TypeInv, SlotInv, PlaceInv
  <1>2. \A q : /\ Target(q)' = Target(q) /\ (Sends(q)' <=> Sends(q))
               /\ (Created(q)' <=> Created(q))
    BY DEF Target, Sends, Created, IsCall, Spawns
  <1>3. \A q \in Tasks : at'[q] \in Beginning => at[q] \in Beginning
    BY <1>1
  <1>4. \A q \in Tasks : at'[q] \in Beginning \cup {"commit"} => at[q] \in Beginning \cup {"commit"}
    BY <1>1
  <1>5. \A q \in Tasks : Sends(q) /\ at'[q] \in Locking => at[q] \in Locking \/ Target(q) \in known
    BY <1>1
  <1>6. \A q \in Tasks : Sends(q) /\ at'[q] \in Reloading => at[q] \in Reloading \/ Target(q) \notin loaded
    BY <1>1
  <1> SUFFICES ASSUME NEW r \in Tasks PROVE LoadsOf(r)'
    BY DEF LoadInv
  <1>7. ASSUME Sends(r), at'[r] \in Locking, NEW q \in Tasks, Created(q), Target(q) = Target(r)
        PROVE  at'[q] \notin Beginning \cup {"commit"}
    BY <1>4, <1>5, <1>7 DEF LoadInv, LoadsOf
  <1> QED BY <1>2, <1>3, <1>4, <1>6, <1>7 DEF LoadInv, LoadsOf

LEMMA StepKeepsLoads == TypeInv /\ LockInv /\ LoadInv /\ [Next]_vars => LoadInv'
  <1> SUFFICES ASSUME TypeInv, LockInv, LoadInv, [Next]_vars PROVE LoadInv'
    OBVIOUS
  <1> USE DEF manager, residency
  <1>1. ASSUME NEW p \in Tasks, TaskStep(p) \/ Cancel(p) PROVE LoadInv'
    <2>0. Target(p) \in Agents /\ at[p] \in Allowed(p)
      BY TaskFacts DEF TypeInv, SlotInv, PlaceInv
    <2>a. ASSUME NEW place, Goto(p, place)
          PROVE  at'[p] = place /\ \A q \in Tasks \ {p} : at'[q] = at[q]
      BY <2>a DEF Goto, TypeInv, SlotInv, PlaceInv
    <2>b. \A q : /\ Target(q)' = Target(q) /\ (Sends(q)' <=> Sends(q))
                 /\ (Created(q)' <=> Created(q))
      BY DEF Target, Sends, Created, IsCall, Spawns
    <2>1. CASE LockTarget(p) \/ BeginSpawn(p) \/ Ensure(p)
      <3>1. /\ UNCHANGED <<loaded, known>>
            /\ \/ at[p] = "begin" /\ Target(p) \in known /\ Goto(p, "ensure")
               \/ at[p] = "begin" /\ Spawns(p) /\ Goto(p, "reserve")
               \/ at[p] = "ensure" /\ Target(p) \notin loaded /\ Goto(p, "reserve")
               \/ at[p] = "ensure" /\ (Goto(p, "failed") \/ Goto(p, "send"))
        BY <2>1 DEF LockTarget, BeginSpawn, Ensure, Fail
      <3>2. CASE at[p] = "begin" /\ Target(p) \in known /\ Goto(p, "ensure")
        BY <3>1, <3>2, LoadsNothing DEF Beginning, Locking, Reloading
      <3>3. CASE at[p] = "begin" /\ Spawns(p) /\ Goto(p, "reserve")
        BY <3>1, <3>3, LoadsNothing DEF Beginning, Locking, Reloading, Sends
      <3>4. CASE at[p] = "ensure" /\ Target(p) \notin loaded /\ Goto(p, "reserve")
        BY <3>1, <3>4, LoadsNothing DEF Beginning, Locking, Reloading
      <3>5. CASE at[p] = "ensure" /\ (Goto(p, "failed") \/ Goto(p, "send"))
        BY <3>1, <3>5, LoadsNothing DEF Beginning, Locking, Reloading
      <3> QED BY <3>1, <3>2, <3>3, <3>4, <3>5
    <2>2. CASE \/ Reserve(p) \/ Pop(p) \/ Look(p) \/ Await(p) \/ Judge(p) \/ Stop(p) \/ PutBack(p)
               \/ Forget(p)
      <3>1. /\ loaded' \subseteq loaded /\ UNCHANGED known
            /\ at[p] \in Beginning
            /\ at[p] \in Reloading
            /\ \E place \in Reloading \cup {"done", "failed"} : Goto(p, place)
        BY <2>2 DEF Reserve, Pop, Look, Await, Judge, Stop, PutBack, Forget, Fail, Beginning,
                    Reloading, Locking
      <3> QED BY <3>1, LoadsNothing DEF Beginning, Locking, Reloading
    <2>3. CASE Recheck(p) \/ Retouch(p) \/ Schedule(p)
      <3>1. /\ UNCHANGED <<loaded, known>> /\ at[p] \in {"touch", "retouch", "schedule"}
            /\ ~IsCall(p)
            /\ \E place \in {"retouch", "await", "done"} : Goto(p, place)
        BY <2>0, <2>3 DEF Recheck, Retouch, Schedule, Allowed
      <3>2. ASSUME NEW q \in Tasks, Created(q) \/ Sends(q) PROVE at'[q] = at[q]
        BY <2>a, <3>1, <3>2 DEF Created, Sends
      <3> SUFFICES ASSUME NEW r \in Tasks PROVE LoadsOf(r)'
        BY DEF LoadInv
      <3> QED BY <2>b, <3>1, <3>2 DEF LoadInv, LoadsOf
    <2>4. CASE LoadFails(p) \/ SendRefused(p) \/ Send(p) \/ Cancel(p)
      <3>1. /\ loaded' \subseteq loaded /\ known' \subseteq known
            /\ Goto(p, "failed") \/ Goto(p, "done")
        BY <2>4 DEF LoadFails, SendRefused, Send, Cancel, Fail
      <3> QED BY <3>1, LoadsNothing DEF Beginning, Locking, Reloading
    <2>5. CASE Load(p)
      <3>1. /\ at[p] = "load" /\ IsCall(p) /\ loaded' = loaded \cup {Target(p)} /\ UNCHANGED known
            /\ Goto(p, "commit")
        BY <2>0, <2>5 DEF Load, Allowed
      <3>2. at'[p] = "commit" /\ \A q \in Tasks \ {p} : at'[q] = at[q]
        BY <2>a, <3>1
      <3>3. ASSUME NEW q \in Tasks, Created(q), at'[q] \in Beginning PROVE Target(q) # Target(p)
        <4>1. q # p /\ at[q] \in Beginning
          BY <3>2, <3>3 DEF Beginning
        <4>2. CASE Created(p)
          BY <3>3, <4>1, <4>2, CreatedOnce
        <4>3. CASE Sends(p)
          BY <3>1, <3>3, <4>1, <4>3 DEF LoadInv, LoadsOf, Locking
        <4> QED BY <3>1, <4>2, <4>3 DEF Created, Sends
      <3>4. ASSUME NEW q \in Tasks, Sends(q), at'[q] \in Reloading PROVE Target(q) # Target(p)
        <4>1. q # p /\ at[q] \in Reloading /\ at[q] \in Locking
          BY <3>2, <3>4 DEF Reloading, Locking
        <4>2. CASE Created(p)
          BY <3>1, <3>4, <4>1, <4>2 DEF LoadInv, LoadsOf, Beginning
        <4>3. CASE Sends(p)
          BY <3>1, <3>4, <4>1, <4>3 DEF LockInv, LockOf, Locking
        <4> QED BY <3>1, <4>2, <4>3 DEF Created, Sends
      <3> SUFFICES ASSUME NEW r \in Tasks PROVE LoadsOf(r)'
        BY DEF LoadInv
      <3>5. \A q \in Tasks : at'[q] \in Beginning \cup {"commit"} => at[q] \in Beginning \cup {"commit"}
        BY <3>1, <3>2 DEF Beginning
      <3>6. \A q \in Tasks : /\ at'[q] \in Beginning => at[q] \in Beginning
                             /\ at'[q] \in Reloading => at[q] \in Reloading
                             /\ at'[q] \in Locking => at[q] \in Locking
        BY <3>1, <3>2 DEF Beginning, Locking, Reloading
      <3> QED BY <2>b, <3>1, <3>3, <3>4, <3>5, <3>6 DEF LoadInv, LoadsOf
    <2>6. CASE Commit(p)
      <3>1. /\ at[p] = "commit" /\ IsCall(p) /\ known' = known \cup {Target(p)}
            /\ UNCHANGED loaded /\ Goto(p, "send")
        BY <2>0, <2>6 DEF Commit, Allowed
      <3>2. at'[p] = "send" /\ \A q \in Tasks \ {p} : at'[q] = at[q]
        BY <2>a, <3>1
      <3>3. ASSUME NEW q \in Tasks, Created(q), at'[q] \in Beginning \cup {"commit"}
            PROVE  Target(q) # Target(p)
        <4>1. q # p /\ at[q] \in Beginning \cup {"commit"}
          BY <3>2, <3>3 DEF Beginning
        <4>2. CASE Created(p)
          BY <3>3, <4>1, <4>2, CreatedOnce
        <4>3. CASE Sends(p)
          BY <3>1, <3>3, <4>1, <4>3 DEF LoadInv, LoadsOf, Locking
        <4> QED BY <3>1, <4>2, <4>3 DEF Created, Sends
      <3>4. \A q \in Tasks : /\ at'[q] \in Beginning => at[q] \in Beginning
                             /\ at'[q] \in Beginning \cup {"commit"} =>
                                   at[q] \in Beginning \cup {"commit"}
                             /\ at'[q] \in Reloading => at[q] \in Reloading
                             /\ at'[q] \in Locking => at[q] \in Locking
        BY <3>1, <3>2 DEF Beginning, Locking, Reloading
      <3> SUFFICES ASSUME NEW r \in Tasks PROVE LoadsOf(r)'
        BY DEF LoadInv
      <3> QED BY <2>b, <3>1, <3>3, <3>4 DEF LoadInv, LoadsOf
    <2> QED BY <1>1, <2>1, <2>2, <2>3, <2>4, <2>5, <2>6 DEF TaskStep
  <1>2. ASSUME UNCHANGED <<loaded, known>>, \A q \in Tasks : IsCall(q) => at'[q] = at[q]
        PROVE  LoadInv'
    <2>1. \A q : /\ Target(q)' = Target(q) /\ (Sends(q)' <=> Sends(q))
                 /\ (Created(q)' <=> Created(q))
      BY DEF Target, Sends, Created, IsCall, Spawns
    <2> QED BY <1>2, <2>1 DEF LoadInv, LoadsOf, Sends, Created
  <1>3. ASSUME NEW b \in Agents, SessionStep(b) PROVE LoadInv'
    BY <1>2, <1>3, SessionStepsLocks DEF SessionStep, LoopStep, TurnTakesMail, TurnEnds
  <1>4. CASE Over \/ UNCHANGED vars
    BY <1>2, <1>4 DEF Over, vars
  <1> QED BY <1>1, <1>3, <1>4 DEF Next
LEMMA InitSessions == Init => SessionsInv /\ LoadInv
  BY DEF Init, SessionsInv, LoadInv, LoadsOf, Locking, Reloading, Sends

-----------------------------------------------------------------------------
(* What a step does to the mail of an agent. *)

Content(a) == mailbox[a] \cup Messages(a)

(* Nothing comes, and what goes has been handled, unless the session ends. *)
Kept(a) ==
    /\ InChan(a)' \subseteq InChan(a)
    /\ Content(a)' \subseteq Content(a)
    /\ Content(a) \subseteq Content(a)' \cup handled' \/ Shutdown \in InChan(a)

Arrived(a, m) == InChan(a)' = InChan(a) \cup {m} /\ mailbox'[a] = mailbox[a]

LEMMA SameKept ==
    ASSUME NEW a \in Agents, chan'[a] = chan[a], mailbox'[a] = mailbox[a]
    PROVE  Kept(a)
  BY DEF Kept, InChan, Messages, Content

LEMMA TaskMail ==
    ASSUME TypeInv, SessionsInv, LoadInv, NEW p \in Tasks, TaskStep(p) \/ Cancel(p),
           NEW a \in Agents
    PROVE  \/ Kept(a)
           \/ Stop(p) /\ a = victim[p] /\ Arrived(a, Shutdown)
           \/ Send(p) /\ a = Target(p) /\ Arrived(a, p[2])
  <1> USE DEF sessions
  <1>0. /\ Target(p) \in Agents /\ p[2] \in Calls /\ at[p] \in Allowed(p) /\ AgentsTyped
        /\ chan \in [Agents -> Seq(Calls \cup {Shutdown})]
        /\ mailbox \in [Agents -> SUBSET Calls]
    BY TaskFacts DEF TypeInv, SlotInv, PlaceInv, AgentsTyped
  <1>1. CASE Stop(p)
    <2>1. /\ UNCHANGED mailbox
          /\ \/ UNCHANGED chan
             \/ chan' = [chan EXCEPT ![victim[p]] = Append(@, Shutdown)]
      BY <1>1 DEF Stop
    <2>2. CASE a = victim[p] /\ chan' = [chan EXCEPT ![victim[p]] = Append(@, Shutdown)]
      BY <1>0, <1>1, <2>1, <2>2, ChanAppended DEF Arrived
    <2>3. CASE ~(a = victim[p] /\ chan' = [chan EXCEPT ![victim[p]] = Append(@, Shutdown)])
      BY <1>0, <2>1, <2>3, SameKept
    <2> QED BY <2>2, <2>3
  <1>2. CASE Send(p)
    <2>1. /\ UNCHANGED mailbox
          /\ \/ UNCHANGED chan
             \/ chan' = [chan EXCEPT ![Target(p)] = Append(@, p[2])]
      BY <1>2 DEF Send
    <2>2. CASE a = Target(p) /\ chan' = [chan EXCEPT ![Target(p)] = Append(@, p[2])]
      BY <1>0, <1>2, <2>1, <2>2, ChanAppended DEF Arrived
    <2>3. CASE ~(a = Target(p) /\ chan' = [chan EXCEPT ![Target(p)] = Append(@, p[2])])
      BY <1>0, <2>1, <2>3, SameKept
    <2> QED BY <2>2, <2>3
  <1>3. CASE Load(p)
    <2>1. /\ at[p] = "load" /\ IsCall(p)
          /\ chan' = [chan EXCEPT ![Target(p)] = <<>>]
          /\ mailbox' = [mailbox EXCEPT ![Target(p)] = {}]
      BY <1>0, <1>3 DEF Load, Allowed
    <2>2. Target(p) \notin loaded
      BY <2>1 DEF LoadInv, LoadsOf, Created, Sends, Beginning, Reloading, Locking
    <2>3. chan[Target(p)] = <<>> /\ mailbox[Target(p)] = {}
      BY <1>0, <2>2 DEF SessionsInv
    <2> QED BY <1>0, <2>1, <2>3, SameKept
  <1>4. CASE UNCHANGED <<chan, mailbox>>
    BY <1>4, SameKept
  <1> QED BY <1>1, <1>2, <1>3, <1>4
          DEF TaskStep, LockTarget, Ensure, BeginSpawn, Reserve, Pop, Look, Await, Judge, Forget,
              PutBack, Recheck, Retouch, LoadFails, Commit, SendRefused, Schedule, Cancel

LEMMA SessionMail ==
    ASSUME TypeInv, NEW b \in Agents, SessionStep(b), NEW a \in Agents
    PROVE  Kept(a)
  <1>0. /\ AgentsTyped /\ chan \in [Agents -> Seq(Calls \cup {Shutdown})]
        /\ mailbox \in [Agents -> SUBSET Calls]
    BY DEF TypeInv, AgentsTyped
  <1>1. CASE LoopStep(b) /\ Head(chan[b]) = Shutdown
    <2>1. /\ chan[b] # <<>>
          /\ chan' = [chan EXCEPT ![b] = <<>>] /\ mailbox' = [mailbox EXCEPT ![b] = {}]
      BY <1>1 DEF LoopStep
    <2>2. CASE a = b
      <3>1. Shutdown \in InChan(b)
        BY <1>0, <1>1, <2>1, HeadTailProperties DEF InChan
      <3>2. chan'[b] = <<>> /\ mailbox'[b] = {}
        BY <1>0, <2>1
      <3> QED BY <2>2, <3>1, <3>2 DEF Kept, InChan, Content, Messages
    <2>3. CASE a # b
      BY <1>0, <2>1, <2>3, SameKept
    <2> QED BY <2>2, <2>3
  <1>2. CASE LoopStep(b) /\ Head(chan[b]) # Shutdown
    <2>1. /\ chan[b] # <<>>
          /\ chan' = [chan EXCEPT ![b] = Tail(@)]
          /\ mailbox' = [mailbox EXCEPT ![b] = @ \cup {Head(chan[b])}]
      BY <1>2 DEF LoopStep
    <2>2. CASE a = b
      <3>1. InChan(b) = InChan(b)' \cup {Head(chan[b])}
        BY <1>0, <2>1, ChanTaken
      <3>2. mailbox'[b] = mailbox[b] \cup {Head(chan[b])}
        BY <1>0, <2>1
      <3>3. Messages(b) = InChan(b) \ {Shutdown} /\ Messages(b)' = InChan(b)' \ {Shutdown}
        BY DEF Messages, InChan
      <3>4. Content(b) = mailbox[b] \cup Messages(b) /\ Content(b)' = mailbox'[b] \cup Messages(b)'
        BY DEF Content
      <3>5. Content(b)' = Content(b)
        BY <1>2, <3>1, <3>2, <3>3, <3>4
      <3> QED BY <2>2, <3>1, <3>5 DEF Kept
    <2>3. CASE a # b
      BY <1>0, <2>1, <2>3, SameKept
    <2> QED BY <2>2, <2>3
  <1>3. CASE TurnTakesMail(b)
    <2>1. /\ UNCHANGED chan /\ mailbox' = [mailbox EXCEPT ![b] = {}]
          /\ handled' = handled \cup mailbox[b]
      BY <1>3 DEF TurnTakesMail
    <2>2. CASE a = b
      BY <1>0, <2>1, <2>2 DEF Kept, InChan, Content, Messages
    <2>3. CASE a # b
      BY <1>0, <2>1, <2>3, SameKept
    <2> QED BY <2>2, <2>3
  <1>4. CASE TurnEnds(b)
    BY <1>4, SameKept DEF TurnEnds
  <1> QED BY <1>1, <1>2, <1>3, <1>4 DEF SessionStep

(* The history and the generations only grow.                              *)
LEMMA HistoryGrows ==
    ASSUME TypeInv, [Next]_vars
    PROVE  /\ handled \subseteq handled' /\ unread \subseteq unread'
           /\ abandoned \subseteq abandoned'
           /\ \A a \in Agents : gen[a] <= gen'[a]
  <1> USE DEF history, io
  <1>0. gen \in [Agents -> Nat]
    BY DEF TypeInv, AgentsTyped
  <1>1. ASSUME NEW p \in Tasks, TaskStep(p) \/ Cancel(p)
        PROVE  /\ handled \subseteq handled' /\ unread \subseteq unread'
               /\ abandoned \subseteq abandoned'
               /\ \A a \in Agents : gen[a] <= gen'[a]
    <2>1. CASE Send(p) \/ SendRefused(p)
      <3>1. /\ UNCHANGED <<handled, unread, abandoned>>
            /\ UNCHANGED gen \/ gen' = [gen EXCEPT ![Target(p)] = @ + 1]
        BY <2>1 DEF Send, SendRefused
      <3> QED BY <1>0, <3>1
    <2>2. CASE Look(p) \/ Schedule(p)
      <3>1. UNCHANGED <<handled, gen, abandoned>> /\ unread \subseteq unread'
        BY <2>2 DEF Look, Schedule, ReadGeneration
      <3> QED BY <1>0, <3>1
    <2>3. CASE Cancel(p)
      <3>1. UNCHANGED <<handled, unread, gen>> /\ abandoned \subseteq abandoned'
        BY <2>3 DEF Cancel
      <3> QED BY <1>0, <3>1
    <2>4. CASE UNCHANGED <<gen, history>>
      BY <1>0, <2>4
    <2> QED BY <1>1, <2>1, <2>2, <2>3, <2>4
            DEF TaskStep, LockTarget, Ensure, BeginSpawn, Reserve, Pop, Await, Judge, Stop, Forget,
                PutBack, Recheck, Retouch, Load, LoadFails, Commit
  <1>2. ASSUME NEW b \in Agents, SessionStep(b)
        PROVE  UNCHANGED <<unread, abandoned, gen>> /\ handled \subseteq handled'
    BY <1>2 DEF SessionStep, LoopStep, TurnTakesMail, TurnEnds
  <1>3. CASE Over \/ UNCHANGED vars
    BY <1>0, <1>3 DEF Over, vars
  <1> QED BY <1>0, <1>1, <1>2, <1>3 DEF Next

(* A message is noticed, except the first input of a new agent.            *)
LEMMA SendIsNoticed ==
    ASSUME TypeInv, NEW p \in Tasks, Send(p), ~Spawns(p)
    PROVE  gen'[Target(p)] = gen[Target(p)] + 1
  <1>1. gen' = [gen EXCEPT ![Target(p)] = @ + 1]
    BY DEF Send
  <1> QED BY <1>1, TaskFacts DEF TypeInv, AgentsTyped

LEMMA SentArrived ==
    ASSUME TypeInv, [Next]_vars
    PROVE  \/ UNCHANGED sent
           \/ \E p \in Tasks : /\ sent' = sent \cup {p[2]}
                             /\ Arrived(Target(p), p[2])
  <1> USE DEF history
  <1>1. ASSUME NEW p \in Tasks, Send(p), ~UNCHANGED sent
        PROVE  sent' = sent \cup {p[2]} /\ Arrived(Target(p), p[2])
    <2>1. /\ chan' = [chan EXCEPT ![Target(p)] = Append(@, p[2])]
          /\ sent' = sent \cup {p[2]} /\ UNCHANGED mailbox
      BY <1>1 DEF Send
    <2> QED BY <2>1, ChanAppended, TaskFacts DEF Arrived, TypeInv
  <1>2. ASSUME NEW p \in Tasks, TaskStep(p) \/ Cancel(p), ~Send(p) PROVE UNCHANGED sent
    BY <1>2 DEF TaskStep, LockTarget, Ensure, BeginSpawn, Reserve, Pop, Look, Await, Judge, Stop,
                Forget, PutBack, Recheck, Retouch, Load, LoadFails, Commit, SendRefused, Schedule,
                Cancel
  <1>3. ASSUME NEW b \in Agents, SessionStep(b) PROVE UNCHANGED sent
    BY <1>3 DEF SessionStep, LoopStep, TurnTakesMail, TurnEnds
  <1>4. CASE Over \/ UNCHANGED vars
    BY <1>4 DEF Over, vars
  <1> QED BY <1>1, <1>2, <1>3, <1>4 DEF Next
LEMMA AgentMail ==
    ASSUME TypeInv, SessionsInv, LoadInv, [Next]_vars, NEW a \in Agents
    PROVE  \/ Kept(a)
           \/ \E p \in Tasks : Stop(p) /\ a = victim[p] /\ Arrived(a, Shutdown)
           \/ \E p \in Tasks : Send(p) /\ a = Target(p) /\ Arrived(a, p[2])
  <1>1. ASSUME NEW p \in Tasks, TaskStep(p) \/ Cancel(p)
        PROVE  \/ Kept(a)
               \/ Stop(p) /\ a = victim[p] /\ Arrived(a, Shutdown)
               \/ Send(p) /\ a = Target(p) /\ Arrived(a, p[2])
    BY <1>1, TaskMail
  <1>2. ASSUME NEW b \in Agents, SessionStep(b) PROVE Kept(a)
    BY <1>2, SessionMail
  <1>3. CASE Over \/ UNCHANGED vars
    BY <1>3, SameKept DEF Over, vars, sessions
  <1> QED BY <1>1, <1>2, <1>3 DEF Next

LEMMA ContentIs ==
    ASSUME NEW a
    PROVE  /\ Messages(a) = InChan(a) \ {Shutdown} /\ Messages(a)' = InChan(a)' \ {Shutdown}
           /\ Content(a) = mailbox[a] \cup Messages(a)
           /\ Content(a)' = mailbox'[a] \cup Messages(a)'
  BY DEF Messages, InChan, Content

-----------------------------------------------------------------------------
(* The invariant. *)

(* What MailKept does not promise to keep with the agent.                  *)
SpawnCalls == {c \in Calls : CallOf[c].op = "spawn"}
Safe == handled \cup unread \cup SpawnCalls

(* While the generation is still the one that was read, nothing came.      *)
JudgedInv ==
    \A p \in Tasks : at[p] \in {"await", "judge"} =>
        /\ expect[p] <= gen[victim[p]]
        /\ expect[p] = gen[victim[p]] => Messages(victim[p]) \subseteq unread \cup SpawnCalls

(* An agent is told to shut down when it holds nothing to be kept,         *)
StopInv == \A p \in Tasks : at[p] = "stop" => Content(victim[p]) \subseteq Safe

(* and while it shuts down whoever told it to still holds its lock.        *)
Stopping(p, a) ==
    /\ lock[a] = p
    /\ IF IsCall(p) THEN at[p] = "wait" /\ victim[p] = a ELSE at[p] \notin {"judge", "stop"}
ShutInv ==
    \A a \in Agents : Shutdown \in InChan(a) =>
        a \in abandoned \/ (Content(a) \subseteq Safe /\ \E p \in Tasks : Stopping(p, a))

HoldsInv == TypeInv /\ LockInv /\ SessionsInv /\ LoadInv
MailInv == JudgedInv /\ StopInv /\ ShutInv /\ MailKept

LEMMA SafeGrows == ASSUME TypeInv, [Next]_vars PROVE Safe \subseteq Safe'
  BY HistoryGrows DEF Safe, SpawnCalls

(* What arrives without the generation changing, or while another holds    *)
(* the agent's lock, is the first input of a new agent.                    *)
LEMMA UnnoticedIsSpawn ==
    ASSUME HoldsInv, [Next]_vars, NEW a \in Agents, gen'[a] = gen[a]
    PROVE  Messages(a)' \subseteq Messages(a) \cup SpawnCalls
  <1>1. ASSUME NEW p \in Tasks, Send(p), a = Target(p) PROVE p[2] \in SpawnCalls
    <2>1. gen[a] \in Nat
      BY DEF HoldsInv, TypeInv, AgentsTyped
    <2>2. Spawns(p)
      BY <1>1, <2>1, SendIsNoticed DEF HoldsInv
    <2> QED BY <2>2, TaskFacts DEF SpawnCalls, Spawns
  <1> QED BY <1>1, AgentMail, ContentIs DEF HoldsInv, Kept, Arrived

LEMMA LockedIsSpawn ==
    ASSUME HoldsInv, [Next]_vars, NEW a \in Agents, NEW p \in Tasks, lock[a] = p, at[p] # "send"
    PROVE  Content(a)' \subseteq Content(a) \cup SpawnCalls
  <1>1. ASSUME NEW q \in Tasks, Send(q), a = Target(q) PROVE q[2] \in SpawnCalls
    <2>1. at[q] = "send" /\ IsCall(q)
      BY <1>1 DEF Send, HoldsInv, TypeInv, SlotInv, PlaceInv, Allowed
    <2>2. Spawns(q)
      BY <1>1, <2>1 DEF HoldsInv, LockInv, LockOf, Sends, Locking
    <2> QED BY <2>2, TaskFacts DEF SpawnCalls, Spawns
  <1> QED BY <1>1, AgentMail, ContentIs DEF HoldsInv, Kept, Arrived

(* How a task comes to await, judge and stop.                              *)
LEMMA Arrivals ==
    ASSUME TypeInv, [Next]_vars, NEW p \in Tasks, at'[p] \in {"await", "judge", "stop"}
    PROVE  \/ /\ at[p] \in {"await", "judge"} /\ at'[p] # "stop"
              /\ victim'[p] = victim[p] /\ expect'[p] = expect[p]
           \/ /\ at'[p] = "await" /\ victim'[p] \in Agents
              /\ UNCHANGED <<gen, chan>>
              /\ expect'[p] = gen[victim'[p]] /\ Messages(victim'[p]) \subseteq unread'
           \/ /\ at[p] = "stop" /\ at'[p] = "stop" /\ victim'[p] = victim[p]
           \/ /\ at'[p] = "stop" /\ Judge(p) /\ gen[victim[p]] = expect[p]
              /\ mailbox[victim[p]] = {} /\ victim'[p] = victim[p]
  <1> DEFINE Again == /\ at'[p] = at[p] /\ victim'[p] = victim[p] /\ expect'[p] = expect[p]
  <1> USE DEF scan, io, sessions
  <1>0. /\ at \in [Tasks -> Place] /\ victim \in [Tasks -> Agents \cup {None}]
        /\ expect \in [Tasks -> Nat] /\ Target(p) \in Agents /\ None \notin Agents
        /\ \A q \in Tasks : Target(q) \in Agents
        /\ at[p] = "look" => victim[p] \in Agents
    BY TaskFacts, CallAssumption DEF TypeInv, SlotInv, PlaceInv, ScanTyped
  <1>a. ASSUME NEW q \in Tasks, TaskStep(q) \/ Cancel(q), q # p PROVE Again
    <2>1. \E place : Goto(q, place)
      BY <1>a DEF TaskStep, LockTarget, Ensure, BeginSpawn, Reserve, Pop, Look, Await, Judge, Stop,
             Forget, PutBack, Recheck, Retouch, Load, LoadFails, Commit, Send, SendRefused,
             Schedule, Cancel, Fail
    <2>2. UNCHANGED victim \/ \E v : victim' = [victim EXCEPT ![q] = v]
      BY <1>a DEF TaskStep, LockTarget, Ensure, BeginSpawn, Reserve, Pop, Look, Await, Judge, Stop,
             Forget, PutBack, Recheck, Retouch, Load, LoadFails, Commit, Send, SendRefused,
             Schedule, Cancel
    <2>3. UNCHANGED expect \/ \E v : expect' = [expect EXCEPT ![q] = v]
      BY <1>a DEF TaskStep, LockTarget, Ensure, BeginSpawn, Reserve, Pop, Look, Await, Judge, Stop,
             Forget, PutBack, Recheck, Retouch, Load, LoadFails, Commit, Send, SendRefused,
             Schedule, Cancel, ReadGeneration
    <2> QED BY <1>0, <1>a, <2>1, <2>2, <2>3 DEF Goto
  <1>b. ASSUME NEW place, Goto(p, place) PROVE at'[p] = place
    BY <1>0, <1>b DEF Goto
  <1>1. CASE Look(p)
    <2>1. /\ Goto(p, "await") \/ Goto(p, "reserve")
          /\ at[p] = "look"
      BY <1>1 DEF Look
    <2>2. CASE victim[p] \in loaded
      <3>1. /\ Goto(p, "await") /\ UNCHANGED <<victim, gen, chan>>
            /\ expect' = [expect EXCEPT ![p] = gen[victim[p]]]
            /\ unread' = unread \cup Messages(victim[p])
        BY <1>1, <2>2 DEF Look, ReadGeneration
      <3> QED BY <1>0, <1>b, <2>1, <3>1
    <2>3. CASE victim[p] \notin loaded
      <3>1. Goto(p, "reserve")
        BY <1>1, <2>3 DEF Look
      <3> QED BY <1>b, <3>1
    <2> QED BY <2>2, <2>3
  <1>2. CASE Schedule(p)
    <2>1. CASE ended[Target(p)]
      <3>1. /\ Goto(p, "await") /\ UNCHANGED <<gen, chan>>
            /\ victim' = [victim EXCEPT ![p] = Target(p)]
            /\ expect' = [expect EXCEPT ![p] = gen[Target(p)]]
            /\ unread' = unread \cup Messages(Target(p))
        BY <1>2, <2>1 DEF Schedule, ReadGeneration
      <3> QED BY <1>0, <1>b, <3>1
    <2>2. CASE ~ended[Target(p)]
      <3>1. Goto(p, "done")
        BY <1>2, <2>2 DEF Schedule
      <3> QED BY <1>b, <3>1
    <2> QED BY <2>1, <2>2
  <1>3. CASE Await(p)
    <2>1. at[p] = "await" /\ Goto(p, "judge") /\ UNCHANGED <<victim, expect>>
      BY <1>3 DEF Await
    <2> QED BY <1>b, <2>1
  <1>4. CASE Judge(p)
    <2>1. UNCHANGED victim
      BY <1>4 DEF Judge
    <2>2. \/ Goto(p, "touch")
          \/ Goto(p, "stop") /\ gen[victim[p]] = expect[p] /\ mailbox[victim[p]] = {}
      BY <1>4 DEF Judge, IsUnloadable
    <2> QED BY <1>4, <1>b, <2>1, <2>2
  <1>5. CASE \/ LockTarget(p) \/ Ensure(p) \/ BeginSpawn(p) \/ Reserve(p) \/ Pop(p) \/ Stop(p)
             \/ Forget(p) \/ PutBack(p) \/ Recheck(p) \/ Retouch(p) \/ Load(p) \/ LoadFails(p)
             \/ Commit(p) \/ Send(p) \/ SendRefused(p) \/ Cancel(p)
    <2>1. \E place \in Place \ {"await", "judge", "stop"} : Goto(p, place)
      BY <1>5 DEF LockTarget, Ensure, BeginSpawn, Reserve, Pop, Stop, Forget, PutBack, Recheck,
                  Retouch, Load, LoadFails, Commit, Send, SendRefused, Cancel, Fail, Place
    <2> QED BY <1>b, <2>1
  <1>6. ASSUME NEW b \in Agents, SessionStep(b) PROVE Again
    BY <1>6, SessionStepsLocks
  <1>7. CASE Over \/ UNCHANGED vars
    BY <1>7 DEF Over, vars
  <1>8. Again => at[p] \in {"await", "judge", "stop"}
    OBVIOUS
  <1> QED BY <1>a, <1>1, <1>2, <1>3, <1>4, <1>5, <1>6, <1>7, <1>8 DEF Next, TaskStep

LEMMA StepKeepsJudged ==
    ASSUME HoldsInv, JudgedInv, [Next]_vars
    PROVE  JudgedInv'
  <1> SUFFICES ASSUME NEW p \in Tasks, at'[p] \in {"await", "judge"}, NEW v, v = victim'[p]
               PROVE  /\ expect'[p] <= gen'[v]
                      /\ expect'[p] = gen'[v] => Messages(v)' \subseteq unread' \cup SpawnCalls
    BY DEF JudgedInv, SpawnCalls, Messages
  <1>1. CASE at[p] \in {"await", "judge"} /\ v = victim[p] /\ expect'[p] = expect[p]
    <2>1. /\ expect[p] <= gen[v]
          /\ expect[p] = gen[v] => Messages(v) \subseteq unread \cup SpawnCalls
      BY <1>1 DEF JudgedInv
    <2>2. v \in Agents /\ gen[v] <= gen'[v] /\ unread \subseteq unread'
      BY <1>1, HistoryGrows DEF HoldsInv, TypeInv, ScanTyped
    <2>3. TypeInv'
      BY StepTyped DEF HoldsInv
    <2>4. gen[v] \in Nat /\ gen'[v] \in Nat /\ expect[p] \in Nat
      BY <2>2, <2>3 DEF HoldsInv, TypeInv, AgentsTyped, ScanTyped
    <2>5. expect[p] <= gen'[v] /\ (expect[p] = gen'[v] => gen'[v] = gen[v] /\ expect[p] = gen[v])
      BY <2>1, <2>2, <2>4
    <2>6. ASSUME expect[p] = gen'[v] PROVE Messages(v)' \subseteq unread' \cup SpawnCalls
      <3>1. Messages(v) \subseteq unread \cup SpawnCalls
        BY <2>1, <2>5, <2>6
      <3>2. Messages(v)' \subseteq Messages(v) \cup SpawnCalls
        BY <2>2, <2>5, <2>6, UnnoticedIsSpawn
      <3> QED BY <2>2, <3>1, <3>2
    <2> QED BY <1>1, <2>5, <2>6
  <1>2. CASE /\ v \in Agents /\ UNCHANGED <<gen, chan>>
             /\ expect'[p] = gen[v] /\ Messages(v) \subseteq unread'
    <2>1. Messages(v)' = Messages(v)
      BY <1>2 DEF Messages
    <2>2. gen[v] \in Nat
      BY <1>2 DEF HoldsInv, TypeInv, AgentsTyped
    <2> QED BY <1>2, <2>1, <2>2
  <1> QED BY <1>1, <1>2, Arrivals DEF HoldsInv

LEMMA StepKeepsStop ==
    ASSUME HoldsInv, JudgedInv, StopInv, [Next]_vars
    PROVE  StopInv'
  <1> SUFFICES ASSUME NEW p \in Tasks, at'[p] = "stop", NEW v, v = victim'[p]
               PROVE  Content(v)' \subseteq Safe'
    BY DEF StopInv, Content, Messages
  <1>0. /\ at[p] = "stop" => victim[p] \in Agents /\ lock[victim[p]] = p
        /\ Safe \subseteq Safe'
    BY SafeGrows DEF HoldsInv, TypeInv, ScanTyped, LockInv, LockOf, Unloading
  <1>1. CASE at[p] = "stop" /\ v = victim[p]
    <2>1. Content(v) \subseteq Safe /\ Content(v)' \subseteq Content(v) \cup SpawnCalls
      BY <1>0, <1>1, LockedIsSpawn DEF StopInv
    <2> QED BY <1>0, <2>1 DEF Safe
  <1>2. CASE Judge(p) /\ gen[v] = expect[p] /\ mailbox[v] = {} /\ v = victim[p]
    <2>1. at[p] = "judge" /\ UNCHANGED <<chan, mailbox>>
      BY <1>2 DEF Judge, sessions
    <2>2. Messages(v) \subseteq unread \cup SpawnCalls
      BY <1>2, <2>1 DEF JudgedInv
    <2>3. Content(v)' = Messages(v)
      BY <1>2, <2>1 DEF Content, Messages
    <2> QED BY <1>0, <2>2, <2>3 DEF Safe
  <1> QED BY <1>1, <1>2, Arrivals DEF HoldsInv

(* The lock is held until the session has ended, or the call is cancelled. *)
LEMMA StoppingKept ==
    ASSUME HoldsInv, [Next]_vars, NEW a \in Agents, NEW p \in Tasks, Stopping(p, a)
    PROVE  Stopping(p, a)' \/ a \in abandoned' \/ ~alive[a]
  <1> USE DEF scan, io
  <1>0. /\ at[p] \in Allowed(p) /\ lock[a] = p /\ p # NoTask
        /\ at \in [Tasks -> Place] /\ (IsCall(p)' <=> IsCall(p)) /\ Target(p) \in Agents
    BY TaskFacts DEF HoldsInv, TypeInv, SlotInv, PlaceInv, Stopping, IsCall
  <1>1. CASE \E q \in Tasks \ {p} : TaskStep(q) \/ Cancel(q)
    <2>1. at'[p] = at[p] /\ victim'[p] = victim[p] /\ lock'[a] = p
      BY <1>0, <1>1, TaskStepsLocks DEF HoldsInv, SameForOthers
    <2> QED BY <1>0, <2>1 DEF Stopping
  <1>2. CASE \E b \in Agents : SessionStep(b)
    <2>1. /\ lock'[a] = p /\ victim'[p] = victim[p]
          /\ at'[p] = at[p] \/ (~IsCall(p) /\ at'[p] = "schedule")
      BY <1>0, <1>2, SessionStepsLocks DEF HoldsInv
    <2> QED BY <1>0, <2>1 DEF Stopping
  <1>3. CASE (TaskStep(p) \/ Cancel(p)) /\ IsCall(p)
    <2>1. at[p] = "wait" /\ victim[p] = a
      BY <1>3 DEF Stopping
    <2>2. Forget(p) \/ Cancel(p)
      BY <1>3, <2>1 DEF TaskStep, LockTarget, Ensure, BeginSpawn, Reserve, Pop, Look, Await, Judge,
                        Stop, PutBack, Recheck, Retouch, Load, LoadFails, Commit, Send,
                        SendRefused, Schedule
    <2>3. Forget(p) => ~alive[a]
      BY <2>1 DEF Forget
    <2>4. Cancel(p) => a \in abandoned'
      BY <2>1 DEF Cancel
    <2> QED BY <2>2, <2>3, <2>4
  <1>4. CASE (TaskStep(p) \/ Cancel(p)) /\ ~IsCall(p)
    <2>1. at[p] \notin {"judge", "stop"} /\ a = Target(p)
      BY <1>0, <1>4 DEF Stopping, HoldsInv, LockInv, LockOf
    <2>2. at[p] \in Considering => victim[p] = a
      BY <1>4, <2>1 DEF HoldsInv, LockInv, LockOf
    <2>3. Schedule(p) \/ Await(p) \/ Forget(p) \/ Recheck(p) \/ Retouch(p)
      BY <1>0, <1>4, <2>1
         DEF TaskStep, LockTarget, Ensure, BeginSpawn, Reserve, Pop, Look, Judge, Stop, PutBack,
             Load, LoadFails, Commit, Send, SendRefused, Cancel, Allowed
    <2>4. Forget(p) => ~alive[a]
      BY <2>2 DEF Forget, Considering, Unloading
    <2>5. ~Await(p)
      BY <1>0, <2>2 DEF Await, Considering
    <2>6. CASE Schedule(p) \/ Recheck(p) \/ Retouch(p)
      <3>1. UNCHANGED lock /\ \E place \in {"await", "retouch", "done"} : Goto(p, place)
        BY <2>6 DEF Schedule, Recheck, Retouch
      <3>2. lock'[a] = p /\ at'[p] \in {"await", "retouch", "done"}
        BY <1>0, <3>1 DEF Goto
      <3> QED BY <1>0, <1>4, <3>2 DEF Stopping
    <2> QED BY <2>3, <2>4, <2>5, <2>6
  <1>5. CASE Over \/ UNCHANGED vars
    BY <1>0, <1>5 DEF Over, vars, Stopping
  <1> QED BY <1>1, <1>2, <1>3, <1>4, <1>5 DEF Next

LEMMA StepKeepsShut ==
    ASSUME HoldsInv, StopInv, ShutInv, [Next]_vars
    PROVE  ShutInv'
  <1> SUFFICES ASSUME NEW a \in Agents, Shutdown \in InChan(a)', a \notin abandoned'
               PROVE  Content(a)' \subseteq Safe' /\ \E p \in Tasks : Stopping(p, a)'
    BY DEF ShutInv
  <1>0. Safe \subseteq Safe' /\ abandoned \subseteq abandoned'
    BY SafeGrows, HistoryGrows DEF HoldsInv
  <1>1. CASE Shutdown \in InChan(a)
    <2>1. Content(a) \subseteq Safe /\ \E p \in Tasks : Stopping(p, a)
      BY <1>0, <1>1 DEF ShutInv
    <2>2. PICK p \in Tasks : Stopping(p, a)
      BY <2>1
    <2>3. lock[a] = p /\ at[p] # "send"
      BY <2>2 DEF Stopping, HoldsInv, TypeInv, SlotInv, PlaceInv, Allowed
    <2>4. Content(a)' \subseteq Content(a) \cup SpawnCalls
      BY <2>3, LockedIsSpawn
    <2>5. alive[a]
      BY <1>1 DEF HoldsInv, SessionsInv, InChan
    <2>6. Stopping(p, a)'
      BY <2>2, <2>5, StoppingKept
    <2> QED BY <1>0, <2>1, <2>4, <2>6 DEF Safe
  <1>2. CASE Shutdown \notin InChan(a)
    <2>1. \A q \in Tasks : q[2] # Shutdown
      BY CallAssumption, TaskFacts
    <2>2. PICK p \in Tasks : Stop(p) /\ a = victim[p] /\ Arrived(a, Shutdown)
      BY <1>2, <2>1, AgentMail DEF HoldsInv, Kept, Arrived
    <2>3. /\ at[p] = "stop" /\ Goto(p, "wait") /\ UNCHANGED <<lock, victim>>
      BY <2>2 DEF Stop, io, scan
    <2>4. Content(a) \subseteq Safe /\ Content(a)' = Content(a)
      <3>1. Content(a) \subseteq Safe
        BY <2>2, <2>3 DEF StopInv
      <3>2. InChan(a)' = InChan(a) \cup {Shutdown} /\ mailbox'[a] = mailbox[a]
        BY <2>2 DEF Arrived
      <3>3. Content(a)' = Content(a)
        BY <3>2, ContentIs
      <3> QED BY <3>1, <3>3
    <2>5. lock[a] = p /\ at'[p] = "wait"
      BY <2>2, <2>3 DEF HoldsInv, LockInv, LockOf, Unloading, Goto, TypeInv, SlotInv, PlaceInv
    <2>6. Stopping(p, a)'
      BY <2>2, <2>3, <2>5 DEF Stopping
    <2> QED BY <1>0, <2>4, <2>6
  <1> QED BY <1>1, <1>2

LEMMA StepKeepsMail ==
    ASSUME HoldsInv, ShutInv, MailKept, [Next]_vars
    PROVE  MailKept'
  <1>0. Safe \subseteq Safe' /\ abandoned \subseteq abandoned'
    BY SafeGrows, HistoryGrows DEF HoldsInv
  <1>1. ASSUME NEW c \in sent'
        PROVE  \/ CallOf[c].agent \in abandoned' \/ c \in Safe'
               \/ c \in Content(CallOf[c].agent)'
    <2> DEFINE a == CallOf[c].agent
    <2>1. CASE c \in sent
      <3>0. c \in Calls /\ a \in Agents
        BY <2>1, CallFacts DEF HoldsInv, TypeInv, HistoryTyped
      <3>1. a \in abandoned \/ c \in Safe \/ c \in Content(a)
        BY <2>1, <3>0 DEF MailKept, Safe, SpawnCalls, Content
      <3>2. CASE a \in abandoned \/ c \in Safe
        BY <1>0, <3>2
      <3>3. CASE c \in Content(a) /\ Kept(a)
        <4>1. CASE Shutdown \in InChan(a)
          BY <1>0, <3>0, <3>3, <4>1 DEF ShutInv
        <4>2. CASE Content(a) \subseteq Content(a)' \cup handled'
          BY <3>3, <4>2 DEF Safe
        <4> QED BY <3>3, <4>1, <4>2 DEF Kept
      <3>4. CASE c \in Content(a) /\ \E m : Arrived(a, m)
        BY <3>4, ContentIs DEF Arrived
      <3> QED BY <3>0, <3>1, <3>2, <3>3, <3>4, AgentMail DEF HoldsInv
    <2>2. CASE c \notin sent
      <3>1. PICK p \in Tasks : c = p[2] /\ Arrived(Target(p), p[2])
        BY <2>2, SentArrived DEF HoldsInv
      <3>2. c # Shutdown /\ a = Target(p)
        BY <3>1, TaskFacts, CallAssumption DEF Target
      <3>3. c \in Content(a)'
        BY <3>1, <3>2, ContentIs DEF Arrived
      <3> QED BY <3>3
    <2> QED BY <2>1, <2>2
  <1> QED BY <1>1 DEF MailKept, Safe, SpawnCalls, Content

-----------------------------------------------------------------------------
LEMMA InitMail == Init => MailInv
  BY DEF Init, MailInv, JudgedInv, StopInv, ShutInv, InChan, MailKept

(* An accepted message is with its agent until a turn has taken it, for    *)
(* any agents, calls, capacity and interleaving of unloads                 *)
(* (try_unload_v2_agent compares the generation under the agent's lock):   *)
(* except for an agent a cancelled call was dealing with, messages already *)
(* in the channel when the generation was read, and first inputs.          *)
THEOREM AcceptedMailIsKept == Spec => []MailKept
  <1>1. Init => HoldsInv /\ MailInv
    BY InitTyped, InitLocks, InitSessions, InitMail DEF HoldsInv
  <1>2. HoldsInv /\ MailInv /\ [Next]_vars => HoldsInv' /\ MailInv'
    <2> SUFFICES ASSUME HoldsInv, MailInv, [Next]_vars PROVE HoldsInv' /\ MailInv'
      OBVIOUS
    <2>1. HoldsInv'
      BY StepTyped, StepKeepsLocks, StepKeepsSessions, StepKeepsLoads DEF HoldsInv
    <2>2. JudgedInv' /\ StopInv'
      BY StepKeepsJudged, StepKeepsStop DEF MailInv
    <2>3. ShutInv' /\ MailKept'
      BY StepKeepsShut, StepKeepsMail DEF MailInv
    <2> QED BY <2>1, <2>2, <2>3 DEF MailInv
  <1>3. MailInv => MailKept
    BY DEF MailInv
  <1> QED BY <1>1, <1>2, <1>3, PTL DEF Spec
=============================================================================
