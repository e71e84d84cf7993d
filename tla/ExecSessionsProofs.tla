-------------------------- MODULE ExecSessionsProofs --------------------------
(***************************************************************************)
(* Proofs about ExecSessions, for any loads, number of connections and     *)
(* order of what happens: every variable keeps its type; an attached       *)
(* session is held and keeps its process; a start that failed leaves no    *)
(* process behind; where the server remembers as many writes as are made,  *)
(* none is made twice; what the client publishes under a number is the     *)
(* server's event of that number, unless the server had lost it; and where *)
(* the server retains all output, the events are published in order.       *)
(***************************************************************************)
EXTENDS ExecSessions, SequenceTheorems, FiniteSetTheorems, NaturalsInduction,
        WellFoundedInduction, TLAPS

-----------------------------------------------------------------------------
(* Types of what the server keeps, and of the calls under way. *)

CallRecord == [conn : Nat, stage : {"none", "sent", "spawning", "replied", "lost"},
               answer : {"none", "ok", "unknown", "attached"}, events : Nat]

Typed ==
    /\ load \in Loads
    /\ proc \in {"absent", "starting", "running", "gone"} /\ killed \in BOOLEAN
    /\ log \in Seq(Kinds)
    /\ stdin \in Seq(Writes) /\ writeIds \in Seq(Writes)
    /\ opened \in Nat /\ current \in Nat /\ candidate \in Nat
    /\ call \in [Callers -> CallRecord]

LEMMA CallersDistinct ==
    /\ "start" \in Callers /\ "cleanup" \in Callers /\ "recover" \in Callers
    /\ Writes \subseteq Callers
    /\ "start" \notin Writes /\ "cleanup" \notin Writes /\ "recover" \notin Writes
  BY LoadAssumption DEF Callers

LEMMA InitTyped == Init => Typed
  <1> SUFFICES ASSUME Init PROVE Typed
    OBVIOUS
  <1> USE DEF Init
  <1>1. call \in [Callers -> CallRecord]
    BY DEF NoCall, CallRecord, None
  <1>2. log \in Seq(Kinds) /\ stdin \in Seq(Writes) /\ writeIds \in Seq(Writes)
    OBVIOUS
  <1> QED BY <1>1, <1>2 DEF Typed, None

(* Calls are sent, answered, lost and forgotten, and stay records of calls. *)
LEMMA SendTyped ==
    ASSUME Typed, NEW k \in Callers, NEW c \in Nat, Send(k, c)
    PROVE  call' \in [Callers -> CallRecord]
  BY DEF Typed, Send, NoCall, CallRecord

LEMMA DoneTyped ==
    ASSUME Typed, NEW k \in Callers, Done(k)
    PROVE  call' \in [Callers -> CallRecord]
  BY DEF Typed, Done, NoCall, CallRecord, None

LEMMA ReplyTyped ==
    ASSUME Typed, NEW k \in Callers, NEW a \in {"ok", "unknown", "attached"}, Reply(k, a)
    PROVE  call' \in [Callers -> CallRecord]
  BY DEF Typed, Reply, CallRecord

(* What leaves the server and the calls alone keeps their types.           *)
LEMMA QuietTyped ==
    ASSUME Typed, UNCHANGED <<load, proc, killed, log, input, call>>,
           opened' \in Nat, current' \in Nat, candidate' \in Nat
    PROVE  Typed'
  BY DEF Typed, input

LEMMA EnvironmentTyped == Typed /\ Environment => Typed'
  <1> SUFFICES ASSUME Typed, Environment PROVE Typed'
    OBVIOUS
  <1> USE DEF Typed, transport, client, input
  <1>1. ASSUME NEW t \in Streams, Output(t) PROVE Typed'
    BY <1>1 DEF Output, Emit, Kinds
  <1>2. ASSUME NEW t \in Streams, EndOfStream(t) PROVE Typed'
    BY <1>2 DEF EndOfStream
  <1>3. ASSUME Exit PROVE Typed'
    BY <1>3 DEF Exit, Emit, Kinds
  <1>4. ASSUME NEW c \in Conns, Break(c) PROVE Typed'
    BY <1>4 DEF Break, process
  <1> QED BY <1>1, <1>2, <1>3, <1>4 DEF Environment

LEMMA ServerTyped == Typed /\ Server => Typed'
  <1> SUFFICES ASSUME Typed, Server PROVE Typed'
    OBVIOUS
  <1> USE DEF Typed, transport, client
  <1>1. ASSUME NEW t \in Emitters, Notify(t) PROVE Typed'
    BY <1>1 DEF Notify, input
  <1>2. ASSUME NEW t \in Emitters, MaybeEmitClosed(t) PROVE Typed'
    <2>1. log' = log \/ log' = Append(log, "closed")
      BY <1>2 DEF MaybeEmitClosed, Emit
    <2>2. log' \in Seq(Kinds)
      BY <2>1 DEF Kinds
    <2> QED BY <1>2, <2>2 DEF MaybeEmitClosed, input
  <1>3. ASSUME Forget PROVE Typed'
    BY <1>3 DEF Forget, input
  <1>4. ASSUME NEW c \in Conns, Detach(c) PROVE Typed'
    <2>1. call' \in [Callers -> CallRecord]
      BY <1>4 DEF Detach, CallRecord
    <2> QED BY <1>4, <2>1 DEF Detach, process, input
  <1>5. ASSUME NEW c \in Conns, Expire(c) PROVE Typed'
    BY <1>5 DEF Expire, ShutDownProcess, input
  <1>6. ASSUME DeadlinePasses PROVE Typed'
    BY <1>6 DEF DeadlinePasses, process, input
  <1>7. ASSUME ServeResume PROVE Typed'
    <2>1. call' \in [Callers -> CallRecord]
      BY <1>7, ReplyTyped, CallersDistinct DEF ServeResume
    <2> QED BY <1>7, <2>1 DEF ServeResume, ShutDownProcess, input
  <1>8. ASSUME ServeStart PROVE Typed'
    <2>1. call' \in [Callers -> CallRecord]
      <3>1. call' = [call EXCEPT !["start"].stage = "spawning"] \/ Reply("start", "unknown")
        BY <1>8 DEF ServeStart
      <3>2. ASSUME call' = [call EXCEPT !["start"].stage = "spawning"]
            PROVE  call' \in [Callers -> CallRecord]
        BY <3>2, CallersDistinct DEF CallRecord
      <3> QED BY <3>1, <3>2, ReplyTyped, CallersDistinct
    <2> QED BY <1>8, <2>1 DEF ServeStart, input
  <1>9. ASSUME Spawned PROVE Typed'
    <2>1. call' \in [Callers -> CallRecord]
      BY <1>9, ReplyTyped, CallersDistinct DEF Spawned
    <2> QED BY <1>9, <2>1 DEF Spawned, input
  <1>10. ASSUME ServeRead PROVE Typed'
    <2>1. Len(log) \in Nat
      OBVIOUS
    <2>2. call' \in [Callers -> CallRecord]
      BY <1>10, <2>1, CallersDistinct DEF ServeRead, CallRecord
    <2> QED BY <1>10, <2>2 DEF ServeRead, process, input
  <1>11. ASSUME NEW w \in Writes, ServeWrite(w) PROVE Typed'
    <2>1. call' \in [Callers -> CallRecord]
      BY <1>11, ReplyTyped, CallersDistinct DEF ServeWrite
    <2>2. stdin' \in Seq(Writes) /\ writeIds' \in Seq(Writes)
      <3>1. Append(stdin, w) \in Seq(Writes) /\ Append(writeIds, w) \in Seq(Writes)
        OBVIOUS
      <3>2. Tail(Append(writeIds, w)) \in Seq(Writes)
        BY <3>1, AppendProperties, HeadTailProperties
      <3>3. stdin' \in {stdin, Append(stdin, w)}
            /\ writeIds' \in {writeIds, Append(writeIds, w), Tail(Append(writeIds, w))}
        BY <1>11 DEF ServeWrite, Remember, input
      <3> QED BY <3>1, <3>2, <3>3
    <2> QED BY <1>11, <2>1, <2>2 DEF ServeWrite, process
  <1>12. ASSUME NEW k \in {"cleanup", "recover"}, ServeTerminate(k) PROVE Typed'
    <2>1. call' \in [Callers -> CallRecord]
      BY <1>12, ReplyTyped, CallersDistinct DEF ServeTerminate
    <2> QED BY <1>12, <2>1 DEF ServeTerminate, input
  <1> QED
    BY <1>1, <1>2, <1>3, <1>4, <1>5, <1>6, <1>7, <1>8, <1>9, <1>10, <1>11, <1>12 DEF Server

LEMMA ClientTyped == Typed /\ Client => Typed'
  <1> SUFFICES ASSUME Typed, Client PROVE Typed'
    OBVIOUS
  <1>a. UNCHANGED <<load, proc, killed, log, input>>
    BY DEF Client, process, Receive, ReaderEnds, StartsAreDone, Dial, Resumed, Reconcile,
           Terminated, Install, RecoveryBreaks, TimeOut, Started, StartBreaks, CleanUp,
           CleanedUp, CleanUpBreaks, Write, Written, WriteBreaks
  <1>b. opened' \in Nat /\ current' \in Nat /\ candidate' \in Nat
    BY DEF Typed, Client, transport, client, Receive, ReaderEnds, StartsAreDone, Dial, Resumed,
           Reconcile, Terminated, Install, RecoveryBreaks, TimeOut, Started, StartBreaks,
           CleanUp, CleanedUp, CleanUpBreaks, Write, Written, WriteBreaks, GiveUp, None
  <1>c. \/ UNCHANGED call
        \/ \E k \in Callers : Done(k)
        \/ \E k \in Callers, c \in Nat : Send(k, c)
    <2>1. ASSUME NEW c \in Conns, Receive(c) \/ ReaderEnds(c) PROVE UNCHANGED call
      BY <2>1 DEF Receive, ReaderEnds
    <2>2. ASSUME StartsAreDone \/ Install PROVE UNCHANGED call
      BY <2>2 DEF StartsAreDone, Install
    <2>3. ASSUME Dial PROVE \E k \in Callers, c \in Nat : Send(k, c)
      BY <2>3, CallersDistinct DEF Dial, Typed
    <2>4. ASSUME Resumed \/ Reconcile
          PROVE \/ \E k \in Callers : Done(k)
                \/ \E k \in Callers, c \in Nat : Send(k, c)
      BY <2>4, CallersDistinct DEF Resumed, Reconcile, Typed
    <2>5. ASSUME Terminated \/ RecoveryBreaks \/ TimeOut
          PROVE UNCHANGED call \/ \E k \in Callers : Done(k)
      BY <2>5, CallersDistinct DEF Terminated, RecoveryBreaks, TimeOut
    <2>6. ASSUME Started \/ StartBreaks \/ CleanedUp \/ CleanUpBreaks
          PROVE \E k \in Callers : Done(k)
      BY <2>6, CallersDistinct DEF Started, StartBreaks, CleanedUp, CleanUpBreaks
    <2>7. ASSUME CleanUp PROVE \E k \in Callers, c \in Nat : Send(k, c)
      BY <2>7, CallersDistinct DEF CleanUp, Typed
    <2>8. ASSUME NEW w \in Writes, Write(w) \/ Written(w) \/ WriteBreaks(w)
          PROVE \/ \E k \in Callers : Done(k)
                \/ \E k \in Callers, c \in Nat : Send(k, c)
      BY <2>8, CallersDistinct DEF Write, Written, WriteBreaks, Typed
    <2> QED BY <2>1, <2>2, <2>3, <2>4, <2>5, <2>6, <2>7, <2>8 DEF Client
  <1>d. call' \in [Callers -> CallRecord]
    BY <1>c, DoneTyped, SendTyped DEF Typed
  <1> QED BY <1>a, <1>b, <1>d DEF Typed, input

LEMMA StepTyped == Typed /\ [Next]_vars => Typed'
  <1>1. Typed /\ UNCHANGED vars => Typed'
    BY DEF Typed, vars, process, input, transport, client
  <1> QED BY <1>1, EnvironmentTyped, ServerTyped, ClientTyped DEF Next

(* Events are only added to the log: what has exited or closed stays so.   *)
LEMMA LogOnlyGrows ==
    ASSUME [Next]_vars
    PROVE  log' = log \/ \E kind \in Kinds : log' = Append(log, kind)
  <1>1. ASSUME Environment PROVE log' = log \/ \E kind \in Kinds : log' = Append(log, kind)
    BY <1>1 DEF Environment, Output, EndOfStream, Exit, Break, Emit, process, Kinds
  <1>2. ASSUME Server PROVE log' = log \/ \E kind \in Kinds : log' = Append(log, kind)
    BY <1>2 DEF Server, Notify, MaybeEmitClosed, Forget, Detach, Expire, DeadlinePasses,
                ServeResume, ServeStart, Spawned, ServeRead, ServeWrite, ServeTerminate,
                Emit, process, Kinds
  <1>3. ASSUME Client PROVE log' = log
    BY <1>3 DEF Client, process, Receive, ReaderEnds, StartsAreDone, Dial, Resumed,
                Reconcile, Terminated, Install, RecoveryBreaks, TimeOut, Started,
                StartBreaks, CleanUp, CleanedUp, CleanUpBreaks, Write, Written, WriteBreaks
  <1>4. ASSUME UNCHANGED vars PROVE log' = log
    BY <1>4 DEF vars, process
  <1> QED BY <1>1, <1>2, <1>3, <1>4 DEF Next

LEMMA LogGrows ==
    ASSUME Typed, [Next]_vars
    PROVE  (Closed => Closed') /\ (Exited => Exited')
  <1>1. ASSUME NEW kind \in Kinds, log' = Append(log, kind)
        PROVE  \A i \in DOMAIN log : i \in DOMAIN log' /\ log'[i] = log[i]
    BY <1>1, AppendProperties DEF Typed
  <1> QED BY <1>1, LogOnlyGrows DEF Closed, Exited

-----------------------------------------------------------------------------
(* The session. *)

(* A session is detached, or held; a deadline passes for a detached one.   *)
SessionInv ==
    /\ sender = attached
    /\ attached # None => held /\ detached = None
    /\ expired => detached # None
    /\ proc = "gone" => Closed \/ ~held

LEMMA SessionUntouched ==
    ASSUME SessionInv, UNCHANGED session,
           proc' = "gone" => proc = "gone", Closed => Closed'
    PROVE  SessionInv'
  BY DEF SessionInv, session

LEMMA StepKeepsSession == Typed /\ SessionInv /\ [Next]_vars => SessionInv'
  <1> SUFFICES ASSUME Typed, SessionInv, [Next]_vars PROVE SessionInv'
    OBVIOUS
  <1>0. Closed => Closed'
    BY LogGrows
  <1>1. CASE Environment
    <2>1. UNCHANGED session /\ proc' = proc
      BY <1>1 DEF Environment, Output, EndOfStream, Exit, Break, process
    <2> QED BY <1>0, <2>1, SessionUntouched
  <1>2. CASE Client
    <2>1. UNCHANGED session /\ proc' = proc
      BY <1>2 DEF Client, process, Receive, ReaderEnds, StartsAreDone, Dial, Resumed,
                  Reconcile, Terminated, Install, RecoveryBreaks, TimeOut, Started,
                  StartBreaks, CleanUp, CleanedUp, CleanUpBreaks, Write, Written, WriteBreaks
    <2> QED BY <1>0, <2>1, SessionUntouched
  <1>3. CASE UNCHANGED vars
    <2>1. UNCHANGED session /\ proc' = proc
      BY <1>3 DEF vars, process
    <2> QED BY <1>0, <2>1, SessionUntouched
  <1>4. ASSUME NEW t \in Emitters, Notify(t) \/ MaybeEmitClosed(t) PROVE SessionInv'
    BY <1>0, <1>4, SessionUntouched DEF Notify, MaybeEmitClosed
  <1>5. ASSUME Forget PROVE SessionInv'
    BY <1>0, <1>5 DEF Forget, SessionInv, session
  <1>6. ASSUME NEW c \in Conns, Detach(c) PROVE SessionInv'
    BY <1>0, <1>6 DEF Detach, SessionInv, process, Conns, None
  <1>7. ASSUME NEW c \in Conns, Expire(c) PROVE SessionInv'
    BY <1>0, <1>7 DEF Expire, ShutDownProcess, SessionInv
  <1>8. ASSUME DeadlinePasses PROVE SessionInv'
    BY <1>0, <1>8 DEF DeadlinePasses, SessionInv, process
  <1>9. ASSUME ServeResume PROVE SessionInv'
    BY <1>0, <1>9 DEF ServeResume, ShutDownProcess, SessionInv, session
  <1>10. ASSUME ServeStart \/ Spawned \/ ServeRead PROVE SessionInv'
    BY <1>0, <1>10, SessionUntouched DEF ServeStart, Spawned, ServeRead, process
  <1>11. ASSUME NEW w \in Writes, ServeWrite(w) PROVE SessionInv'
    BY <1>0, <1>11, SessionUntouched DEF ServeWrite, process
  <1>12. ASSUME NEW k \in {"cleanup", "recover"}, ServeTerminate(k) PROVE SessionInv'
    BY <1>0, <1>12, SessionUntouched DEF ServeTerminate
  <1> QED
    BY <1>1, <1>2, <1>3, <1>4, <1>5, <1>6, <1>7, <1>8, <1>9, <1>10, <1>11, <1>12
       DEF Next, Server

LEMMA InitSession == Init => SessionInv
  BY DEF Init, SessionInv, None

THEOREM TypedInvariance == Spec => []Typed
  BY InitTyped, StepTyped, PTL DEF Spec

THEOREM SessionInvariance == Spec => []SessionInv
  BY InitSession, StepKeepsSession, TypedInvariance, PTL DEF Spec

(* However connections break, resume and expire, a session that a          *)
(* connection is attached to is held by the registry, its process is not   *)
(* shut down before it has closed, and its events go to that connection.   *)
THEOREM AttachedSessionsAreHeld == Spec => []SessionHeld
  <1>1. SessionInv => SessionHeld
    BY DEF SessionInv, SessionHeld
  <1> QED BY <1>1, SessionInvariance, PTL

-----------------------------------------------------------------------------
(* Starts that failed. *)

(* No process is left running that the client has not asked to terminate.  *)
NoneLeft == proc \in {"absent", "gone"} \/ killed \/ Exited

(* How far a start came, on both sides; a recovery that was given up is    *)
(* over.                                                                   *)
StartInv ==
    /\ call["start"].stage # "none" => start = "calling"
    /\ call["cleanup"].stage # "none" => start = "cleanup"
    /\ call["start"].stage = "sent" => proc = "absent"
    /\ call["start"].stage = "spawning" => proc \in {"absent", "starting", "gone"}
    /\ call["start"].stage = "replied" /\ call["start"].answer # "ok" =>
           proc \in {"absent", "gone"}
    /\ call["cleanup"].stage = "replied" => NoneLeft
    /\ status = "failed" => recovery = "idle"
    /\ start = "failed" /\ status # "failed" => NoneLeft

LEMMA InitStart == Init => StartInv
  BY CallersDistinct DEF Init, StartInv, NoCall

LEMMA StartUntouched ==
    ASSUME StartInv, UNCHANGED <<start, status, recovery, proc, killed>>, Exited => Exited',
           call'["start"] = call["start"], call'["cleanup"] = call["cleanup"]
    PROVE  StartInv'
  BY DEF StartInv, NoneLeft

LEMMA EnvironmentKeepsStart ==
    ASSUME Typed, StartInv, Environment, Exited => Exited'
    PROVE  StartInv'
  <1>1. UNCHANGED <<start, status, recovery, proc, killed, call>>
    BY DEF Environment, Output, EndOfStream, Exit, Break, process, client, starting
  <1> QED BY <1>1, StartUntouched

LEMMA ServerKeepsStart ==
    ASSUME Typed, StartInv, Server, Exited => Exited'
    PROVE  StartInv'
  <1> USE CallersDistinct DEF StartInv, NoneLeft, client, starting
  <1>1. ASSUME NEW t \in Emitters, Notify(t) \/ MaybeEmitClosed(t) PROVE StartInv'
    BY <1>1 DEF Notify, MaybeEmitClosed
  <1>2. ASSUME Forget PROVE StartInv'
    BY <1>2 DEF Forget
  <1>3. ASSUME NEW c \in Conns, Detach(c) PROVE StartInv'
    <2>1. \A k \in Callers : \/ call'[k] = call[k]
                             \/ /\ call[k].stage \in {"sent", "spawning"}
                                /\ call'[k].stage = "lost"
      BY <1>3 DEF Detach, Typed, CallRecord
    <2>2. UNCHANGED <<start, status, recovery, proc, killed>>
      BY <1>3 DEF Detach, process
    <2> QED BY <2>1, <2>2
  <1>4. ASSUME NEW c \in Conns, Expire(c) PROVE StartInv'
    BY <1>4 DEF Expire, ShutDownProcess
  <1>5. ASSUME DeadlinePasses PROVE StartInv'
    BY <1>5 DEF DeadlinePasses, process
  <1>6. ASSUME ServeResume PROVE StartInv'
    <2>1. call'["start"] = call["start"] /\ call'["cleanup"] = call["cleanup"]
      BY <1>6 DEF ServeResume, Reply, Typed
    <2>2. UNCHANGED <<start, status, recovery>>
      BY <1>6 DEF ServeResume
    <2>3. UNCHANGED <<proc, killed>> \/ ShutDownProcess
      BY <1>6 DEF ServeResume
    <2> QED BY <2>1, <2>2, <2>3 DEF ShutDownProcess
  <1>7. ASSUME ServeStart PROVE StartInv'
    <2>1. call["start"].stage = "sent" /\ proc = "absent" /\ start = "calling"
      BY <1>7 DEF ServeStart, Serving
    <2>2. /\ proc' = "starting" /\ call'["start"].stage = "spawning"
          /\ call'["cleanup"] = call["cleanup"]
          /\ UNCHANGED <<start, status, recovery, killed>>
      BY <1>7, <2>1 DEF ServeStart, Typed, CallRecord
    <2> QED BY <2>1, <2>2
  <1>8. ASSUME Spawned PROVE StartInv'
    <2>1. /\ call["start"].stage = "spawning" /\ start = "calling"
          /\ proc \in {"absent", "starting", "gone"}
          /\ call["cleanup"].stage = "none"
      BY <1>8 DEF Spawned, Typed, CallRecord
    <2>2. UNCHANGED <<start, status, recovery, killed>>
      BY <1>8 DEF Spawned
    <2>3. \/ proc' = "running" /\ Reply("start", "ok")
          \/ proc' \in {"absent", "gone"} /\ Reply("start", "unknown")
      BY <1>8, <2>1 DEF Spawned
    <2>4. /\ call'["cleanup"] = call["cleanup"]
          /\ call'["start"].stage = "replied"
          /\ call'["start"].answer # "ok" => proc' \in {"absent", "gone"}
      <3>1. ASSUME NEW a \in {"ok", "unknown"}, Reply("start", a)
            PROVE  /\ call'["cleanup"] = call["cleanup"]
                   /\ call'["start"].stage = "replied" /\ call'["start"].answer = a
        BY <3>1 DEF Reply, Typed, CallRecord
      <3> QED BY <2>3, <3>1
    <2> QED BY <2>1, <2>2, <2>4
  <1>9. ASSUME ServeRead PROVE StartInv'
    BY <1>9 DEF ServeRead, process, Typed
  <1>10. ASSUME NEW w \in Writes, ServeWrite(w) PROVE StartInv'
    BY <1>10 DEF ServeWrite, Reply, process, Typed
  <1>11. ASSUME ServeTerminate("recover") PROVE StartInv'
    <2>1. call'["start"] = call["start"] /\ call'["cleanup"] = call["cleanup"]
      BY <1>11 DEF ServeTerminate, Reply, Typed
    <2> QED BY <1>11, <2>1 DEF ServeTerminate, Typed
  <1>12. ASSUME ServeTerminate("cleanup") PROVE StartInv'
    <2>1. /\ call["cleanup"].stage = "sent" /\ start = "cleanup"
          /\ call["start"].stage = "none"
      BY <1>12 DEF ServeTerminate, Serving, Typed, CallRecord
    <2>2. /\ call'["start"] = call["start"] /\ call'["cleanup"].stage = "replied"
      BY <1>12 DEF ServeTerminate, Reply, Typed, CallRecord
    <2>3. NoneLeft'
      BY <1>12 DEF ServeTerminate, Typed
    <2> QED BY <1>12, <2>1, <2>2, <2>3 DEF ServeTerminate
  <1> QED
    BY <1>1, <1>2, <1>3, <1>4, <1>5, <1>6, <1>7, <1>8, <1>9, <1>10, <1>11, <1>12 DEF Server

LEMMA ClientKeepsStart ==
    ASSUME Typed, StartInv, Client, Exited => Exited'
    PROVE  StartInv'
  <1>0. UNCHANGED <<proc, killed>>
    BY DEF Client, process, Receive, ReaderEnds, StartsAreDone, Dial, Resumed, Reconcile,
           Terminated, Install, RecoveryBreaks, TimeOut, Started, StartBreaks, CleanUp,
           CleanedUp, CleanUpBreaks, Write, Written, WriteBreaks
  <1> USE CallersDistinct DEF Typed, StartInv, NoneLeft, client, starting, Done, Send, NoCall
  <1>1. ASSUME NEW c \in Conns, Receive(c) PROVE StartInv'
    BY <1>0, <1>1 DEF Receive
  <1>2. ASSUME NEW c \in Conns, ReaderEnds(c) PROVE StartInv'
    BY <1>0, <1>2 DEF ReaderEnds
  <1>3. ASSUME StartsAreDone \/ Install PROVE StartInv'
    BY <1>0, <1>3 DEF StartsAreDone, Install
  <1>4. ASSUME Dial \/ Reconcile \/ Terminated \/ RecoveryBreaks PROVE StartInv'
    <2>1. call'["start"] = call["start"] /\ call'["cleanup"] = call["cleanup"]
      BY <1>4 DEF Dial, Reconcile, Terminated, RecoveryBreaks
    <2>2. UNCHANGED <<start, status>> /\ recovery # "idle"
      BY <1>4 DEF Dial, Reconcile, Terminated, RecoveryBreaks
    <2> QED BY <1>0, <2>1, <2>2
  <1>5. ASSUME Resumed \/ TimeOut PROVE StartInv'
    <2>1. call'["start"] = call["start"] /\ call'["cleanup"] = call["cleanup"]
      BY <1>5 DEF Resumed, TimeOut
    <2>2. UNCHANGED start
      BY <1>5 DEF Resumed, TimeOut
    <2>3. recovery # "idle" /\ (GiveUp \/ UNCHANGED status)
      BY <1>5 DEF Resumed, TimeOut
    <2> QED BY <1>0, <2>1, <2>2, <2>3 DEF GiveUp
  <1>6. ASSUME Started PROVE StartInv'
    BY <1>0, <1>6 DEF Started, Answered, CallRecord
  <1>7. ASSUME StartBreaks PROVE StartInv'
    BY <1>0, <1>7 DEF StartBreaks, CallRecord
  <1>8. ASSUME CleanUp PROVE StartInv'
    BY <1>0, <1>8 DEF CleanUp
  <1>9. ASSUME CleanedUp PROVE StartInv'
    BY <1>0, <1>9 DEF CleanedUp, Answered, CallRecord
  <1>10. ASSUME CleanUpBreaks PROVE StartInv'
    BY <1>0, <1>10 DEF CleanUpBreaks
  <1>11. ASSUME NEW w \in Writes, Write(w) \/ Written(w) \/ WriteBreaks(w) PROVE StartInv'
    BY <1>0, <1>11 DEF Write, Written, WriteBreaks
  <1> QED
    BY <1>1, <1>2, <1>3, <1>4, <1>5, <1>6, <1>7, <1>8, <1>9, <1>10, <1>11 DEF Client

LEMMA StepKeepsStart == Typed /\ StartInv /\ [Next]_vars => StartInv'
  <1> SUFFICES ASSUME Typed, StartInv, [Next]_vars PROVE StartInv'
    OBVIOUS
  <1>1. Exited => Exited'
    BY LogGrows
  <1>2. ASSUME UNCHANGED vars PROVE StartInv'
    BY <1>1, <1>2, StartUntouched DEF vars, process, client, starting
  <1> QED BY <1>1, <1>2, EnvironmentKeepsStart, ServerKeepsStart, ClientKeepsStart DEF Next

(* The client may lose the answer to a start at any moment: when it has    *)
(* given the start up, the process does not run, or was told to end.       *)
THEOREM FailedStartsLeaveNothing == Spec => []NoOrphan
  <1>1. StartInv => NoOrphan
    BY DEF StartInv, NoneLeft, NoOrphan
  <1>2. Spec => []StartInv
    BY InitStart, StepKeepsStart, TypedInvariance, PTL DEF Spec
  <1> QED BY <1>1, <1>2, PTL

-----------------------------------------------------------------------------
(* Writes, where no more are made than the server remembers. *)

AllRemembered == IsFiniteSet(Writes) /\ Cardinality(Writes) <= StdinIds

Distinct(s) == \A i, j \in DOMAIN s : s[i] = s[j] => i = j

LEMMA DistinctIsShort ==
    ASSUME NEW S, IsFiniteSet(S), NEW s \in Seq(S), Distinct(s)
    PROVE  Len(s) <= Cardinality(S)
  <1>1. s \in Injection(1..Len(s), S)
    BY DEF Distinct, Injection, IsInjective
  <1>2. Len(s) \in Nat
    OBVIOUS
  <1>3. Cardinality(1..Len(s)) = IF 1 > Len(s) THEN 0 ELSE Len(s) - 1 + 1
    BY <1>2, FS_Interval
  <1>4. Cardinality(1..Len(s)) = Len(s)
    BY <1>2, <1>3
  <1> QED BY <1>1, <1>4, FS_Injection

(* The server has forgotten no write, and made those that it acknowledged. *)
WriteInv ==
    /\ writeIds = stdin
    /\ Distinct(stdin)
    /\ write \in [Writes -> {"begin", "accepted", "refused"}]
    /\ \A w \in Writes : call[w].answer = "ok" => Contains(stdin, w)
    /\ \A w \in Writes : write[w] = "accepted" => Contains(stdin, w)

LEMMA InitWrites == Init => WriteInv
  <1> SUFFICES ASSUME Init PROVE WriteInv
    OBVIOUS
  <1>1. \A w \in Writes : call[w] = NoCall
    BY CallersDistinct DEF Init
  <1> QED BY <1>1 DEF Init, WriteInv, Distinct, NoCall

(* What neither writes nor acknowledges a write.                           *)
LEMMA WritesUntouched ==
    ASSUME WriteInv, UNCHANGED <<stdin, writeIds, write>>,
           \A w \in Writes : call'[w].answer \in {"none", call[w].answer}
    PROVE  WriteInv'
  BY DEF WriteInv, Distinct

LEMMA WriteServed ==
    ASSUME AllRemembered, Typed, WriteInv, NEW w \in Writes, ServeWrite(w)
    PROVE  WriteInv'
  <1> USE DEF WriteInv
  <1>1. /\ \A v \in Writes \ {w} : call'[v] = call[v]
        /\ call'[w].answer = "ok" => proc = "running"
    BY CallersDistinct DEF ServeWrite, Reply, Typed, CallRecord
  <1>2. UNCHANGED write
    BY DEF ServeWrite
  <1>3. CASE proc = "running" /\ ~Contains(stdin, w)
    <2> DEFINE more == Append(stdin, w)
    <2>1. /\ more \in Seq(Writes) /\ Len(more) = Len(stdin) + 1
          /\ \A i \in 1..Len(stdin) : more[i] = stdin[i]
          /\ more[Len(stdin) + 1] = w
      BY AppendProperties DEF Typed
    <2>2. Distinct(more)
      BY <1>3, <2>1 DEF Distinct, Contains, Typed
    <2>3. Len(more) <= StdinIds
      <3>1. Len(more) <= Cardinality(Writes)
        BY <2>1, <2>2, DistinctIsShort DEF AllRemembered
      <3>2. Cardinality(Writes) \in Nat
        BY FS_CardinalityType DEF AllRemembered
      <3>3. Len(more) \in Nat
        BY <2>1
      <3> QED BY <3>1, <3>2, <3>3, LoadAssumption DEF AllRemembered
    <2>4. stdin' = more /\ writeIds' = more
      <3>1. stdin' = Append(stdin, w) /\ Remember(w)
        BY <1>3 DEF ServeWrite
      <3>2. ~(Len(more) > StdinIds)
        BY <2>1, <2>3, LoadAssumption DEF Typed
      <3> QED BY <3>1, <3>2 DEF Remember
    <2>5. \A v \in Writes : Contains(stdin, v) \/ v = w => Contains(more, v)
      BY <2>1 DEF Contains, Typed
    <2> HIDE DEF more
    <2> QED BY <1>1, <1>2, <2>2, <2>4, <2>5 DEF Distinct
  <1>4. CASE ~(proc = "running" /\ ~Contains(stdin, w))
    BY <1>1, <1>2, <1>4 DEF ServeWrite, Distinct, input
  <1> QED BY <1>3, <1>4

LEMMA StepKeepsWrites ==
    ASSUME AllRemembered
    PROVE  Typed /\ WriteInv /\ [Next]_vars => WriteInv'
  <1> SUFFICES ASSUME Typed, WriteInv, [Next]_vars PROVE WriteInv'
    OBVIOUS
  <1> DEFINE Quiet == \A w \in Writes : call'[w].answer \in {"none", call[w].answer}
  <1>1. CASE Environment
    <2>1. UNCHANGED <<stdin, writeIds, write, call>>
      BY <1>1 DEF Environment, Output, EndOfStream, Exit, Break, input
    <2> QED BY <2>1, WritesUntouched
  <1>2. CASE UNCHANGED vars
    BY <1>2, WritesUntouched DEF vars, input
  <1>3. ASSUME NEW w \in Writes, ServeWrite(w) PROVE WriteInv'
    BY <1>3, WriteServed
  <1>4. ASSUME Server, ~\E w \in Writes : ServeWrite(w) PROVE WriteInv'
    <2>1. UNCHANGED <<stdin, writeIds, write>>
      BY <1>4 DEF Server, Notify, MaybeEmitClosed, Forget, Detach, Expire, DeadlinePasses,
                  ServeResume, ServeStart, Spawned, ServeRead, ServeTerminate, input
    <2>2. Quiet
      <3>1. ASSUME NEW c \in Conns, Detach(c)
            PROVE  \A w \in Writes : call'[w].answer = call[w].answer
        BY <3>1, CallersDistinct DEF Detach, Typed, CallRecord
      <3>2. ASSUME ~\E c \in Conns : Detach(c)
            PROVE  \A w \in Writes : call'[w] = call[w]
        BY <1>4, <3>2, CallersDistinct
           DEF Server, Notify, MaybeEmitClosed, Forget, Expire, DeadlinePasses, ServeResume,
               ServeStart, Spawned, ServeRead, ServeTerminate, Reply, Typed
      <3> QED BY <3>1, <3>2
    <2> QED BY <2>1, <2>2, WritesUntouched
  <1>5. ASSUME Client, ~\E w \in Writes : Written(w) PROVE WriteInv'
    <2>1. UNCHANGED <<stdin, writeIds>>
      BY <1>5 DEF Client, Receive, ReaderEnds, StartsAreDone, Dial, Resumed, Reconcile,
                  Terminated, Install, RecoveryBreaks, TimeOut, Started, StartBreaks, CleanUp,
                  CleanedUp, CleanUpBreaks, Write, WriteBreaks, input
    <2>2. Quiet
      <3>1. ASSUME NEW v \in Writes, Write(v) \/ WriteBreaks(v) PROVE Quiet
        <4>1. \A w \in Writes \ {v} : call'[w] = call[w]
          BY <3>1, CallersDistinct DEF Write, WriteBreaks, Send, Done, Typed
        <4>2. call'[v].answer = "none"
          <5>1. Send(v, current) \/ Done(v)
            BY <3>1 DEF Write, WriteBreaks
          <5>2. \/ call'[v] = [NoCall EXCEPT !.conn = current, !.stage = "sent"]
                \/ call'[v] = NoCall
            BY <5>1, CallersDistinct DEF Send, Done, Typed
          <5>3. /\ NoCall.answer = "none"
                /\ [NoCall EXCEPT !.conn = current, !.stage = "sent"].answer = "none"
            BY DEF NoCall
          <5> QED BY <5>2, <5>3
        <4> QED BY <4>1, <4>2
      <3>2. ASSUME ~\E v \in Writes : Write(v) \/ WriteBreaks(v)
            PROVE  \A w \in Writes : call'[w] = call[w]
        BY <1>5, <3>2, CallersDistinct
           DEF Client, Receive, ReaderEnds, StartsAreDone, Dial, Resumed, Reconcile,
               Terminated, Install, RecoveryBreaks, TimeOut, Started, StartBreaks, CleanUp,
               CleanedUp, CleanUpBreaks, Send, Done, Typed
      <3> QED BY <3>1, <3>2
    <2>3. UNCHANGED write \/ \E w \in Writes : write' = [write EXCEPT ![w] = "refused"]
      BY <1>5 DEF Client, Receive, ReaderEnds, StartsAreDone, Dial, Resumed, Reconcile,
                  Terminated, Install, RecoveryBreaks, TimeOut, Started, StartBreaks, CleanUp,
                  CleanedUp, CleanUpBreaks, Write, WriteBreaks
    <2> QED BY <2>1, <2>2, <2>3 DEF WriteInv, Distinct
  <1>6. ASSUME NEW w \in Writes, Written(w) PROVE WriteInv'
    <2>1. /\ UNCHANGED <<stdin, writeIds>> /\ Quiet
          /\ write' = [write EXCEPT ![w] = IF call[w].answer = "ok" THEN "accepted"
                                          ELSE "refused"]
      BY <1>6, CallersDistinct DEF Written, Done, NoCall, input, Typed
    <2> QED BY <2>1 DEF WriteInv, Distinct
  <1> QED BY <1>1, <1>2, <1>3, <1>4, <1>5, <1>6 DEF Next

(* A write is repeated whenever its connection breaks before the answer;   *)
(* where the server still remembers its id it is made once all the same,   *)
(* and a write that was acknowledged was made.                             *)
THEOREM WritesAreMadeOnce ==
    ASSUME AllRemembered
    PROVE  Spec => []StdinOnce
  <1>1. WriteInv => StdinOnce
    BY DEF WriteInv, Distinct, StdinOnce
  <1>2. Spec => []WriteInv
    BY InitWrites, StepKeepsWrites, TypedInvariance, PTL DEF Spec
  <1> QED BY <1>1, <1>2, PTL

-----------------------------------------------------------------------------
(* Numbers. *)

LEMMA LeastNumber ==
    ASSUME NEW T \in SUBSET Nat, T # {}
    PROVE  \E x \in T : \A y \in T : x <= y
  <1>1. IsWellFoundedOn(OpToRel(<, Nat), Nat)
    BY NatLessThanWellFounded
  <1>2. PICK x \in T : \A y \in T : <<y, x>> \notin OpToRel(<, Nat)
    BY <1>1, WFMin
  <1>3. \A y \in T : ~(y < x)
    BY <1>2 DEF OpToRel
  <1> QED BY <1>3

LEMMA AllNumbers ==
    ASSUME NEW T \in SUBSET Nat, 0 \in T, \A m \in T : m + 1 \in T
    PROVE  T = Nat
  <1> SUFFICES ASSUME Nat \ T # {} PROVE FALSE
    OBVIOUS
  <1>1. PICK x \in Nat \ T : \A y \in Nat \ T : x <= y
    BY LeastNumber
  <1>2. x - 1 \in Nat /\ ~(x <= x - 1)
    BY <1>1
  <1> QED BY <1>1, <1>2

-----------------------------------------------------------------------------
(* Chunks that the server no longer has. *)

Chunks(i, n) == {j \in i..n : log[j] = "out"}

LEMMA ChunksFinite ==
    ASSUME NEW i \in Nat, NEW n \in Nat
    PROVE  IsFiniteSet(Chunks(i, n)) /\ Cardinality(Chunks(i, n)) \in Nat
  <1>1. IsFiniteSet(i..n)
    BY FS_Interval
  <1>2. Chunks(i, n) \subseteq i..n
    BY DEF Chunks
  <1>3. IsFiniteSet(Chunks(i, n))
    BY <1>1, <1>2, FS_Subset
  <1> QED BY <1>3, FS_CardinalityType

(* A chunk that is gone when there are n events is gone for ever.          *)
LEMMA GoneForEver ==
    ASSUME Typed, NEW n \in 0..Len(log), NEW i \in 1..n, log[i] = "out", i \notin Retained(n)
    PROVE  Evicted(i)
  <1>1. Len(log) \in Nat /\ n \in Nat /\ i \in Nat /\ load.keep \in Nat
    BY LoadAssumption DEF Typed
  <1>2. ~(Cardinality(Chunks(i, n)) <= load.keep)
    BY DEF Retained, Chunks
  <1>3. Chunks(i, n) \subseteq Chunks(i, Len(log))
    BY <1>1 DEF Chunks
  <1>4. Cardinality(Chunks(i, n)) <= Cardinality(Chunks(i, Len(log)))
    BY <1>1, <1>3, ChunksFinite, FS_Subset
  <1>5. Cardinality(Chunks(i, n)) \in Nat /\ Cardinality(Chunks(i, Len(log))) \in Nat
    BY <1>1, ChunksFinite
  <1>6. ~(Cardinality(Chunks(i, Len(log))) <= load.keep)
    BY <1>1, <1>2, <1>4, <1>5
  <1> QED BY <1>6 DEF Evicted, Retained, Chunks

-----------------------------------------------------------------------------
(* What the client knows of an event is what the server numbered, or that  *)
(* the process exited where a chunk was that the server no longer has.     *)

Faithful(i, kind) == kind = log[i] \/ (kind = "exit" /\ Evicted(i))

LEMMA FaithfulForEver ==
    ASSUME Typed, load' = load, NEW kind \in Kinds, log' = Append(log, kind),
           NEW i \in 1..Len(log), NEW k, Faithful(i, k)
    PROVE  Faithful(i, k)'
  <1>1. /\ Len(log) \in Nat /\ Len(log') = Len(log) + 1 /\ load.keep \in Nat
        /\ \A j \in 1..Len(log) : log'[j] = log[j]
    BY AppendProperties, LoadAssumption DEF Typed
  <1>2. CASE k = log[i]
    BY <1>1, <1>2 DEF Faithful
  <1>3. CASE k = "exit" /\ Evicted(i)
    <2> DEFINE more == {j \in i..Len(log') : log'[j] = "out"}
    <2>1. Chunks(i, Len(log)) \subseteq more
      BY <1>1 DEF Chunks
    <2>2. IsFiniteSet(more)
      <3>1. IsFiniteSet(i..Len(log'))
        BY <1>1, FS_Interval
      <3> QED BY <3>1, FS_Subset
    <2>3. /\ Cardinality(Chunks(i, Len(log))) <= Cardinality(more)
          /\ Cardinality(more) \in Nat
      BY <2>1, <2>2, FS_Subset, FS_CardinalityType
    <2>4. ~(Cardinality(Chunks(i, Len(log))) <= load.keep) /\ log[i] = "out"
      BY <1>1, <1>3 DEF Evicted, Retained, Chunks
    <2> HIDE DEF more
    <2>a. Cardinality(Chunks(i, Len(log))) \in Nat
      <3>1. i \in Nat /\ Len(log) \in Nat
        BY <1>1
      <3> QED BY ONLY <3>1, ChunksFinite
    <2>5. ~(Cardinality(more) <= load.keep)
      BY <1>1, <2>3, <2>4, <2>a
    <2>6. Evicted(i)'
      BY <1>1, <2>4, <2>5 DEF Evicted, Retained, more
    <2> QED BY <1>3, <2>6 DEF Faithful
  <1> QED BY <1>2, <1>3 DEF Faithful

-----------------------------------------------------------------------------
(* The client's session. *)

(* A session that knows events up to the number n, published or kept.      *)
Fine(s, n) ==
    /\ s = [published |-> s.published, pending |-> s.pending, error |-> s.error]
    /\ s.error \in BOOLEAN
    /\ s.published \in Seq(Kinds) /\ Len(s.published) \in 0..n
    /\ s.pending = [i \in DOMAIN s.pending |-> s.pending[i]]
    /\ DOMAIN s.pending \subseteq (Len(s.published) + 1)..n
    /\ \A i \in 1..Len(s.published) : Faithful(i, s.published[i])
    /\ \A i \in DOMAIN s.pending : Faithful(i, s.pending[i]) /\ s.pending[i] \in Kinds

Has(s, i) == i <= Len(s.published) \/ i \in DOMAIN s.pending

LEMMA ReadyNumbers ==
    ASSUME NEW n \in Nat, NEW p \in Nat, NEW D \in SUBSET ((p + 1)..n),
           NEW ready, ready = {m \in D : (p + 1)..m \subseteq D}
    PROVE  \E k \in Nat : /\ ready = (p + 1)..(p + k) /\ Cardinality(ready) = k
                          /\ p + 1 + k \notin D /\ (k > 0 => p + k <= n)
  <1> DEFINE T == {x \in Nat : p + 1 + x \notin D}
  <1>1. T \in SUBSET Nat /\ n \in T
    OBVIOUS
  <1>2. PICK k \in T : \A y \in T : k <= y
    BY <1>1, LeastNumber
  <1>3. k \in Nat /\ p + 1 + k \notin D
    OBVIOUS
  <1>4. ASSUME NEW m \in ready PROVE m \in (p + 1)..(p + k)
    <2>1. m \in Int /\ p + 1 <= m /\ (p + 1)..m \subseteq D
      OBVIOUS
    <2>2. p + 1 + k \notin (p + 1)..m
      BY <1>3, <2>1
    <2> QED BY <1>3, <2>1, <2>2
  <1>5. ASSUME NEW m \in (p + 1)..(p + k) PROVE m \in ready
    <2>1. ASSUME NEW y \in (p + 1)..m PROVE y \in D
      <3>1. y - (p + 1) \in Nat /\ ~(k <= y - (p + 1)) /\ p + 1 + (y - (p + 1)) = y
        BY <1>3
      <3>2. y - (p + 1) \notin T
        BY <1>2, <3>1
      <3> QED BY <3>1, <3>2
    <2>2. m \in (p + 1)..m
      BY <1>3
    <2> QED BY <2>1, <2>2
  <1>6. ready = (p + 1)..(p + k)
    BY <1>4, <1>5
  <1>7. Cardinality((p + 1)..(p + k)) = k
    <2>1. p + 1 \in Int /\ p + k \in Int
      BY <1>3
    <2>2. Cardinality((p + 1)..(p + k)) =
             IF p + 1 > p + k THEN 0 ELSE (p + k) - (p + 1) + 1
      BY <2>1, FS_Interval
    <2> QED BY <1>3, <2>2
  <1>8. k > 0 => p + k <= n
    <2>1. ASSUME k > 0 PROVE p + k \in ready
      BY <1>3, <1>6, <2>1
    <2> QED BY <2>1
  <1> HIDE DEF T
  <1> QED BY <1>3, <1>6, <1>7, <1>8

LEMMA PublishReadyFine ==
    ASSUME NEW n \in Nat, NEW s, Fine(s, n)
    PROVE  /\ Fine(PublishReady(s), n) /\ PublishReady(s).error = s.error
           /\ \A i \in 1..n : Has(s, i) <=> Has(PublishReady(s), i)
           /\ Len(s.published) <= Len(PublishReady(s).published)
           /\ \A i \in 1..Len(s.published) : PublishReady(s).published[i] = s.published[i]
  <1> DEFINE old == s.published
             p == Len(old)
             D == DOMAIN s.pending
             r == PublishReady(s)
             ready == {m \in D : (p + 1)..m \subseteq D}
  <1>1. CASE s.error
    <2>1. r = s
      BY <1>1 DEF PublishReady
    <2>2. p \in Nat
      BY DEF Fine
    <2> QED BY <2>1, <2>2 DEF Fine
  <1>2. CASE ~s.error
    <2>1. /\ old \in Seq(Kinds) /\ p \in Nat /\ p <= n /\ D \in SUBSET ((p + 1)..n)
      BY DEF Fine
    <2>2. PICK k \in Nat : /\ ready = (p + 1)..(p + k) /\ Cardinality(ready) = k
                           /\ p + 1 + k \notin D /\ (k > 0 => p + k <= n)
      BY <2>1, ReadyNumbers
    <2> DEFINE new == [i \in 1..k |-> s.pending[p + i]]
               rest == D \ ready
               later == [i \in rest |-> s.pending[i]]
    <2>3. /\ r = [published |-> old \o new, pending |-> later, error |-> s.error]
      <3>1. s = [published |-> old, pending |-> s.pending, error |-> s.error]
        BY DEF Fine
      <3>2. NextSeq(s) = p + 1
        BY DEF NextSeq
      <3>3. r = [s EXCEPT !.published = old \o [i \in 1..k |-> s.pending[(p + 1) - 1 + i]],
                          !.pending = later]
        BY <1>2, <2>2, <3>2 DEF PublishReady
      <3>4. \A i \in 1..k : (p + 1) - 1 + i = p + i
        BY <2>1, <2>2
      <3>5. [i \in 1..k |-> s.pending[(p + 1) - 1 + i]] = new
        BY <3>4
      <3> HIDE DEF new, later, old, r
      <3>6. r = [s EXCEPT !.published = old \o new, !.pending = later]
        BY <3>3, <3>5
      <3> QED BY <3>1, <3>6
    <2>4. \A i \in 1..k : p + i \in D /\ s.pending[p + i] \in Kinds
                          /\ Faithful(p + i, s.pending[p + i])
      <3>1. \A i \in 1..k : p + i \in ready
        BY <2>1, <2>2
      <3> QED BY <3>1 DEF Fine
    <2>5. new \in Seq(Kinds) /\ Len(new) = k
      BY <2>2, <2>4
    <2>6. /\ old \o new \in Seq(Kinds) /\ Len(old \o new) = p + k
          /\ \A i \in 1..p : (old \o new)[i] = old[i]
          /\ \A i \in (p + 1)..(p + k) : (old \o new)[i] = s.pending[i]
      <3>1. /\ old \o new \in Seq(Kinds) /\ Len(old \o new) = p + k
            /\ \A i \in 1..(p + k) : (old \o new)[i] = IF i <= p THEN old[i] ELSE new[i - p]
        BY <2>1, <2>2, <2>5, ConcatProperties
      <3>2. ASSUME NEW i \in (p + 1)..(p + k) PROVE (old \o new)[i] = s.pending[i]
        <4>1. i - p \in 1..k /\ p + (i - p) = i /\ i \in 1..(p + k) /\ ~(i <= p)
          BY <2>1, <2>2
        <4> QED BY <3>1, <4>1
      <3>3. \A i \in 1..p : i \in 1..(p + k) /\ i <= p
        BY <2>1, <2>2
      <3> QED BY <3>1, <3>2, <3>3
    <2> HIDE DEF new, old, r
    <2>7. p + k \in 0..n
      BY <2>1, <2>2
    <2>8. rest \subseteq (p + k + 1)..n
      BY <2>1, <2>2
    <2>9. \A i \in 1..(p + k) : Faithful(i, (old \o new)[i])
      <3>1. \A i \in 1..p : Faithful(i, old[i])
        BY DEF Fine, old
      <3>2. ASSUME NEW i \in (p + 1)..(p + k) PROVE Faithful(i, s.pending[i])
        BY <2>2 DEF Fine
      <3>3. \A i \in 1..(p + k) : i \in 1..p \/ i \in (p + 1)..(p + k)
        BY <2>1, <2>2
      <3> QED BY <2>6, <3>1, <3>2, <3>3
    <2>10. \A i \in rest : Faithful(i, later[i]) /\ later[i] \in Kinds
      BY DEF Fine
    <2> HIDE DEF rest, later
    <2>11. /\ r.published = old \o new /\ r.pending = later /\ r.error = s.error
           /\ DOMAIN later = rest /\ s.error \in BOOLEAN
      BY <2>3 DEF later, Fine
    <2>12. later = [i \in rest |-> later[i]]
      BY DEF later
    <2>13. Fine(r, n)
      BY <2>3, <2>6, <2>7, <2>8, <2>9, <2>10, <2>11, <2>12 DEF Fine
    <2>14. \A i \in 1..n : Has(s, i) <=> Has(r, i)
      <3> SUFFICES ASSUME NEW i \in 1..n PROVE Has(s, i) <=> Has(r, i)
        OBVIOUS
      <3>1. i \in D <=> i \in (p + 1)..(p + k) \/ i \in rest
        BY <2>2 DEF rest
      <3>2. Has(s, i) <=> i <= p \/ i \in D
        BY DEF Has, old
      <3>3. Has(r, i) <=> i <= p + k \/ i \in rest
        BY <2>6, <2>11 DEF Has
      <3>4. i <= p + k <=> i <= p \/ i \in (p + 1)..(p + k)
        BY <2>1, <2>2
      <3> QED BY <3>1, <3>2, <3>3, <3>4
    <2>15. p <= Len(r.published) /\ \A i \in 1..p : r.published[i] = old[i]
      BY <2>1, <2>2, <2>6, <2>11
    <2> QED BY <2>11, <2>13, <2>14, <2>15 DEF r, old
  <1>3. s.error \in BOOLEAN
    BY DEF Fine
  <1> QED BY <1>1, <1>2, <1>3

LEMMA InsertFine ==
    ASSUME NEW n \in Nat, NEW s, Fine(s, n), NEW kind \in Kinds,
           NEW m \in (Len(s.published) + 1)..n, m \in DOMAIN s.pending \/ Faithful(m, kind)
    PROVE  /\ Fine(Insert(s, m, kind), n)
           /\ Insert(s, m, kind).published = s.published
           /\ s.error => Insert(s, m, kind) = s
           /\ ~Insert(s, m, kind).error =>
                 \A i \in 1..n : Has(Insert(s, m, kind), i) <=> Has(s, i) \/ i = m
  <1> DEFINE r == Insert(s, m, kind)
             D == DOMAIN s.pending
  <1>1. /\ s = [published |-> s.published, pending |-> s.pending, error |-> s.error]
        /\ s.error \in BOOLEAN
    BY DEF Fine
  <1>2. CASE s.error \/ m \in D
    <2>1. r = s
      BY <1>2 DEF Insert
    <2> QED BY <1>1, <1>2, <2>1 DEF Has
  <1>3. CASE ~s.error /\ m \notin D
    <2> DEFINE more == [i \in D \cup {m} |-> IF i = m THEN kind ELSE s.pending[i]]
    <2>1. \/ r = [s EXCEPT !.error = TRUE]
          \/ r = [s EXCEPT !.pending = more]
      BY <1>3 DEF Insert
    <2>2. CASE r = [s EXCEPT !.error = TRUE]
      <3>1. r = [published |-> s.published, pending |-> s.pending, error |-> TRUE]
        BY <1>1, <2>2
      <3> HIDE DEF r
      <3>2. /\ r.published = s.published /\ r.pending = s.pending /\ r.error = TRUE
        BY <3>1
      <3>3. Fine(r, n)
        BY <3>1, <3>2 DEF Fine
      <3> QED BY <1>3, <3>2, <3>3 DEF r
    <2>3. CASE r = [s EXCEPT !.pending = more]
      <3>1. r = [published |-> s.published, pending |-> more, error |-> s.error]
        BY <1>1, <2>3
      <3>2. /\ D \cup {m} \subseteq (Len(s.published) + 1)..n
            /\ \A i \in D \cup {m} : Faithful(i, more[i]) /\ more[i] \in Kinds
        BY <1>3 DEF Fine
      <3>3. DOMAIN more = D \cup {m} /\ more = [i \in D \cup {m} |-> more[i]]
        OBVIOUS
      <3> HIDE DEF r, more
      <3>4. /\ r.published = s.published /\ r.pending = more /\ r.error = s.error
        BY <3>1
      <3>5. Fine(r, n)
        BY <3>1, <3>2, <3>3, <3>4 DEF Fine
      <3>6. \A i \in 1..n : Has(r, i) <=> Has(s, i) \/ i = m
        BY <3>3, <3>4 DEF Has
      <3> QED BY <1>3, <3>4, <3>5, <3>6 DEF r
    <2> QED BY <2>1, <2>2, <2>3
  <1> QED BY <1>1, <1>2, <1>3

-----------------------------------------------------------------------------
(* What a recovery reads. *)

ClosedLast == \A i \in DOMAIN log : log[i] = "closed" => i = Len(log)

(* An event that the session does not have, and that is neither the close  *)
(* nor a chunk that was read, is the exit, unless the server lost it.      *)
LEMMA MissingIsExit ==
    ASSUME Typed, ClosedLast, NEW target \in 0..Len(log), NEW m \in 1..target,
           log[m] # "closed", m \notin Retained(target)
    PROVE  Faithful(m, "exit")
  <1>1. Len(log) \in Nat /\ m \in DOMAIN log /\ log[m] \in Kinds
    BY DEF Typed
  <1>2. CASE log[m] = "exit"
    BY <1>2 DEF Faithful
  <1>3. CASE log[m] = "out"
    BY <1>3, GoneForEver DEF Faithful
  <1> QED BY <1>1, <1>2, <1>3 DEF Kinds

LEMMA TakeChunkFine ==
    ASSUME Typed, ClosedLast, NEW target \in 0..Len(log), NEW s, Fine(s, Len(log)),
           NEW chunk \in Retained(target), NEW exited,
           ~s.error => \A i \in Retained(target) : i < chunk => Has(s, i)
    PROVE  LET r == TakeChunk(s, chunk, exited, target) IN
           /\ Fine(r, Len(log))
           /\ ~r.error => \A i \in Retained(target) : i <= chunk => Has(r, i)
  <1> DEFINE n == Len(log)
             p == Len(s.published)
             r == TakeChunk(s, chunk, exited, target)
             exits == exited /\ ~ExitKnown(s, target) /\ chunk > p + 1
             before == IF exits THEN PublishReady(Insert(s, p + 1, "exit")) ELSE s
             next == Len(before.published) + 1
  <1>1. /\ n \in Nat /\ target \in Nat /\ target <= n /\ p \in Nat /\ p <= n
        /\ chunk \in 1..target /\ log[chunk] = "out" /\ s.error \in BOOLEAN
        /\ \A i \in Retained(target) : i \in 1..target
    BY DEF Typed, Fine, Retained
  <1>2. r = IF chunk >= next THEN PublishReady(Insert(before, chunk, "out")) ELSE before
    BY DEF TakeChunk, NextSeq
  <1>3. CASE s.error
    <2>1. /\ Insert(s, p + 1, "exit") = s /\ Insert(s, chunk, "out") = s
          /\ PublishReady(s) = s
      BY <1>3 DEF Insert, PublishReady
    <2>2. r = s
      BY <1>2, <2>1
    <2> QED BY <1>3, <2>2
  <1>4. CASE ~s.error
    <2>1. /\ Fine(before, n)
          /\ ~before.error => \A i \in 1..n : Has(s, i) => Has(before, i)
      <3>1. CASE ~exits
        BY <3>1
      <3>2. CASE exits
        <4>1. p + 1 \in (p + 1)..n /\ p + 1 \in 1..target /\ p + 1 < chunk
          BY <1>1, <3>2
        <4>2. log[p + 1] # "closed"
          <5>1. p + 1 # n /\ p + 1 \in DOMAIN log
            BY <1>1, <4>1 DEF Typed
          <5> QED BY <5>1 DEF ClosedLast
        <4>3. p + 1 \in DOMAIN s.pending \/ Faithful(p + 1, "exit")
          <5>1. CASE p + 1 \in Retained(target)
            <6>1. Has(s, p + 1)
              BY <1>4, <4>1, <5>1
            <6> QED BY <1>1, <6>1 DEF Has
          <5>2. CASE p + 1 \notin Retained(target)
            BY <4>1, <4>2, <5>2, MissingIsExit
          <5> QED BY <5>1, <5>2
        <4> DEFINE q == Insert(s, p + 1, "exit")
        <4>4. "exit" \in Kinds
          BY DEF Kinds
        <4>5. /\ Fine(q, n)
              /\ ~q.error => \A i \in 1..n : Has(q, i) <=> Has(s, i) \/ i = p + 1
          BY <1>1, <4>1, <4>3, <4>4, InsertFine
        <4> HIDE DEF q
        <4>6. /\ Fine(PublishReady(q), n) /\ PublishReady(q).error = q.error
              /\ \A i \in 1..n : Has(q, i) <=> Has(PublishReady(q), i)
          BY <1>1, <4>5, PublishReadyFine
        <4>7. before = PublishReady(q)
          BY <3>2 DEF q
        <4> QED BY <4>5, <4>6, <4>7
      <3> QED BY <3>1, <3>2
    <2> HIDE DEF before
    <2>2. \A i \in Retained(target) : i < chunk /\ ~before.error => Has(before, i)
      BY <1>1, <1>4, <2>1
    <2>3. Len(before.published) \in Nat
      BY <2>1 DEF Fine
    <2>4. CASE chunk >= next
      <3> DEFINE q == Insert(before, chunk, "out")
      <3>1. chunk \in next..n /\ Faithful(chunk, "out") /\ "out" \in Kinds
        BY <1>1, <2>3, <2>4 DEF Faithful, Kinds
      <3>2. /\ Fine(q, n)
            /\ ~q.error => \A i \in 1..n : Has(q, i) <=> Has(before, i) \/ i = chunk
            /\ before.error => q = before
        BY <1>1, <2>1, <3>1, InsertFine
      <3> HIDE DEF q
      <3>3. /\ Fine(PublishReady(q), n) /\ PublishReady(q).error = q.error
            /\ \A i \in 1..n : Has(q, i) <=> Has(PublishReady(q), i)
        BY <1>1, <3>2, PublishReadyFine
      <3>4. r = PublishReady(q)
        BY <1>2, <2>4 DEF q
      <3> HIDE DEF r
      <3>5. ASSUME ~r.error, NEW i \in Retained(target), i <= chunk PROVE Has(r, i)
        <4>1. ~q.error /\ ~before.error /\ i \in 1..n
          BY <1>1, <3>2, <3>3, <3>4, <3>5
        <4>2. i < chunk \/ i = chunk
          BY <1>1, <3>5
        <4> QED BY <2>2, <3>2, <3>3, <3>4, <4>1, <4>2
      <3> QED BY <3>3, <3>4, <3>5 DEF r
    <2>5. CASE ~(chunk >= next)
      <3>1. r = before
        BY <1>2, <2>5
      <3>2. Has(before, chunk)
        BY <1>1, <2>3, <2>5 DEF Has
      <3> HIDE DEF r
      <3>3. \A i \in Retained(target) : i <= chunk => i < chunk \/ i = chunk
        BY <1>1
      <3> QED BY <2>1, <2>2, <3>1, <3>2, <3>3 DEF r
    <2> QED BY <2>4, <2>5
  <1> QED BY <1>1, <1>3, <1>4

TakenIs(f, chunks, exited, target) ==
    f = [n \in 0..target |->
            IF n = 0 THEN State
            ELSE IF n \in chunks THEN TakeChunk(f[n - 1], n, exited, target)
            ELSE f[n - 1]]

LEMMA TakenExists ==
    ASSUME NEW chunks, NEW exited, NEW target \in Nat
    PROVE  \E f : TakenIs(f, chunks, exited, target)
  <1> DEFINE Up(f, m) ==
                 f = [n \in 0..m |->
                        IF n = 0 THEN State
                        ELSE IF n \in chunks THEN TakeChunk(f[n - 1], n, exited, target)
                        ELSE f[n - 1]]
             T == {m \in Nat : \E f : Up(f, m)}
  <1>1. 0 \in T
    <2>1. Up([n \in 0..0 |-> State], 0)
      OBVIOUS
    <2> QED BY <2>1
  <1>2. ASSUME NEW m \in T PROVE m + 1 \in T
    <2>1. PICK f : Up(f, m)
      OBVIOUS
    <2> DEFINE last == IF m + 1 \in chunks THEN TakeChunk(f[m], m + 1, exited, target)
                       ELSE f[m]
               g == [n \in 0..(m + 1) |-> IF n = m + 1 THEN last ELSE f[n]]
    <2>2. \A n \in 0..m : g[n] = f[n]
      OBVIOUS
    <2>3. g[m + 1] = last
      OBVIOUS
    <2>4. DOMAIN g = 0..(m + 1)
      OBVIOUS
    <2>5. g = [n \in 0..(m + 1) |-> g[n]]
      OBVIOUS
    <2> HIDE DEF g
    <2>6. ASSUME NEW n \in 0..(m + 1)
          PROVE  g[n] = IF n = 0 THEN State
                        ELSE IF n \in chunks THEN TakeChunk(g[n - 1], n, exited, target)
                        ELSE g[n - 1]
      <3>1. CASE n = m + 1
        <4>1. n - 1 = m /\ m \in 0..m /\ n # 0
          BY <3>1
        <4> QED BY <2>2, <2>3, <3>1, <4>1
      <3>2. CASE n = 0
        <4>1. f[0] = State
          BY <2>1
        <4> QED BY <2>2, <3>2, <4>1
      <3>3. CASE n # 0 /\ n # m + 1
        <4>1. n \in 0..m /\ n - 1 \in 0..m
          BY <3>3
        <4>2. f[n] = IF n \in chunks THEN TakeChunk(f[n - 1], n, exited, target)
                     ELSE f[n - 1]
          BY <2>1, <3>3, <4>1
        <4> QED BY <2>2, <3>3, <4>1, <4>2
      <3> QED BY <3>1, <3>2, <3>3
    <2>7. Up(g, m + 1)
      BY <2>5, <2>6
    <2> QED BY <2>7
  <1> HIDE DEF T
  <1>3. T = Nat
    <2>1. T \in SUBSET Nat
      BY DEF T
    <2> QED BY <1>1, <1>2, <2>1, AllNumbers
  <1> QED BY <1>3 DEF T, TakenIs

LEMMA TakeChunksIs ==
    ASSUME NEW chunks, NEW exited, NEW target \in Nat
    PROVE  \E f : TakenIs(f, chunks, exited, target)
                  /\ TakeChunks(chunks, exited, target) = f[target]
  <1> DEFINE f == CHOOSE g : TakenIs(g, chunks, exited, target)
  <1>1. TakenIs(f, chunks, exited, target)
    BY TakenExists
  <1>2. TakeChunks(chunks, exited, target) = f[target]
    BY DEF TakeChunks, TakenIs
  <1> QED BY <1>1, <1>2

LEMMA TakeChunksFine ==
    ASSUME Typed, ClosedLast, NEW target \in 0..Len(log), Fine(State, Len(log)), NEW exited
    PROVE  LET r == TakeChunks(Retained(target), exited, target) IN
           /\ Fine(r, Len(log))
           /\ ~r.error => \A i \in Retained(target) : Has(r, i)
  <1>0. target \in Nat /\ Len(log) \in Nat
    BY DEF Typed
  <1>1. PICK f : /\ TakenIs(f, Retained(target), exited, target)
                 /\ TakeChunks(Retained(target), exited, target) = f[target]
    BY <1>0, TakeChunksIs
  <1> DEFINE Good(m) == /\ Fine(f[m], Len(log))
                        /\ ~f[m].error => \A i \in Retained(target) : i <= m => Has(f[m], i)
             T == {m \in Nat : m <= target => Good(m)}
  <1>2. \A i \in Retained(target) : i \in 1..target
    BY DEF Retained
  <1>3. 0 \in T
    <2>1. f[0] = State
      BY <1>0, <1>1 DEF TakenIs
    <2>2. \A i \in Retained(target) : ~(i <= 0)
      BY <1>2
    <2> QED BY <2>1, <2>2
  <1>4. ASSUME NEW m \in T PROVE m + 1 \in T
    <2> SUFFICES ASSUME m + 1 <= target PROVE Good(m + 1)
      OBVIOUS
    <2>1. m \in Nat /\ m + 1 \in 0..target /\ Good(m) /\ (m + 1) - 1 = m /\ m + 1 # 0
      BY <1>0
    <2>2. f[m + 1] = IF m + 1 \in Retained(target)
                     THEN TakeChunk(f[m], m + 1, exited, target) ELSE f[m]
      BY <1>1, <2>1 DEF TakenIs
    <2>3. \A i \in Retained(target) : (i <= m + 1 <=> i <= m \/ i = m + 1)
                                      /\ (i < m + 1 <=> i <= m)
      BY <1>2, <2>1
    <2>4. CASE m + 1 \in Retained(target)
      <3>1. ~f[m].error => \A i \in Retained(target) : i < m + 1 => Has(f[m], i)
        BY <2>1, <2>3
      <3>2. Fine(f[m], Len(log))
        BY <2>1
      <3> QED BY <2>2, <2>4, <3>1, <3>2, TakeChunkFine
    <2>5. CASE m + 1 \notin Retained(target)
      BY <2>1, <2>2, <2>3, <2>5
    <2> QED BY <2>4, <2>5
  <1>5. target \in T
    <2> HIDE DEF T
    <2>1. T \in SUBSET Nat
      BY DEF T
    <2> QED BY <1>0, <1>3, <1>4, <2>1, AllNumbers
  <1>6. Good(target) /\ \A i \in Retained(target) : i <= target
    BY <1>0, <1>2, <1>5
  <1> QED BY <1>1, <1>6

LEMMA ErrorFine ==
    ASSUME NEW n, NEW q, Fine(q, n)
    PROVE  Fine([q EXCEPT !.error = TRUE], n)
  <1> DEFINE new == [q EXCEPT !.error = TRUE]
  <1>1. q = [published |-> q.published, pending |-> q.pending, error |-> q.error]
    BY DEF Fine
  <1>2. ASSUME NEW r, r = [q EXCEPT !.error = TRUE]
        PROVE  r = [published |-> q.published, pending |-> q.pending, error |-> TRUE]
    BY <1>1, <1>2
  <1>3. new = [published |-> q.published, pending |-> q.pending, error |-> TRUE]
    BY <1>2
  <1> HIDE DEF new
  <1>4. /\ new = [published |-> new.published, pending |-> new.pending, error |-> new.error]
        /\ new.published = q.published /\ new.pending = q.pending /\ new.error \in BOOLEAN
    BY <1>3
  <1>5. Fine(new, n)
    BY <1>4 DEF Fine
  <1> QED BY <1>5 DEF new

LEMMA CloseIsTarget ==
    ASSUME Typed, ClosedLast, NEW target \in 0..Len(log),
           NEW i \in 1..target, log[i] = "closed"
    PROVE  target = Len(log) /\ log[target] = "closed" /\ target \in 1..Len(log)
  <1>1. Len(log) \in Nat
    BY DEF Typed
  <1>2. i \in DOMAIN log
    BY <1>1 DEF Typed
  <1>3. i = Len(log)
    BY <1>2 DEF ClosedLast
  <1>4. i = Len(log) => target = i
    BY <1>1
  <1> QED BY <1>3, <1>4

LEMMA RecoveredFine ==
    ASSUME Typed, ClosedLast, NEW target \in 0..Len(log), Fine(State, Len(log))
    PROVE  Fine(Recovered(target), Len(log))
  <1> DEFINE n == Len(log)
             exited == \E i \in 1..target : log[i] = "exit"
             closed == \E i \in 1..target : log[i] = "closed"
             chunks == Retained(target)
             read == TakeChunks(chunks, exited, target)
             s == IF closed /\ ~ClosedIn(read) THEN Insert(read, target, "closed") ELSE read
             known == ExitKnown(s, target)
             gaps == (NextSeq(s)..target) \ DOMAIN s.pending
             missing == Cardinality(gaps)
             bad(q) == [q EXCEPT !.error = TRUE]
             result == Recovered(target)
  <1>1. /\ n \in Nat /\ target \in Nat /\ target <= n
        /\ DOMAIN log = 1..n
    BY DEF Typed
  <1>2. Fine(read, n) /\ (~read.error => \A i \in chunks : Has(read, i))
    BY TakeChunksFine
  <1>3. \/ result = State \/ result = bad(State) \/ result = s \/ result = bad(s)
        \/ /\ missing = 1 /\ ~s.error
           /\ result = PublishReady(Insert(s, FirstMissing(s, target), "exit"))
        \/ result = PublishReady(s)
    BY DEF Recovered
  <1>4. ASSUME NEW q, Fine(q, n) PROVE Fine(bad(q), n)
    BY <1>4, ErrorFine
  <1>5. closed => target = n /\ log[target] = "closed" /\ target \in 1..n
    BY CloseIsTarget
  <1> HIDE DEF exited, closed, read, result
  <1>6. Fine(s, n)
    <2>1. CASE closed /\ ~ClosedIn(read)
      <3> DEFINE p == Len(read.published)
      <3>1. p \in Nat /\ read.published \in Seq(Kinds)
            /\ \A i \in 1..p : Faithful(i, read.published[i])
        BY <1>2 DEF Fine
      <3>2. \A i \in 1..p : read.published[i] # "closed"
        BY <2>1 DEF ClosedIn, Contains
      <3>3. ASSUME target <= p PROVE FALSE
        <4>1. target \in 1..p
          BY <1>5, <2>1, <3>1, <3>3
        <4> QED BY <1>5, <2>1, <3>1, <3>2, <4>1 DEF Faithful, Evicted
      <3>4. target \in (p + 1)..n
        BY <1>1, <3>1, <3>3
      <3>5. Faithful(target, "closed") /\ "closed" \in Kinds
        BY <1>5, <2>1 DEF Faithful, Kinds
      <3> QED BY <1>1, <1>2, <2>1, <3>4, <3>5, InsertFine
    <2>2. CASE ~(closed /\ ~ClosedIn(read))
      BY <1>2, <2>2
    <2> QED BY <2>1, <2>2
  <1>7. ~s.error => /\ \A i \in chunks : Has(s, i)
                    /\ closed => Has(s, target)
    <2> SUFFICES ASSUME ~s.error
                 PROVE  (\A i \in chunks : Has(s, i)) /\ (closed => Has(s, target))
      OBVIOUS
    <2>0. \A i \in chunks : i \in 1..n
      BY <1>1 DEF Retained
    <2>1. CASE closed /\ ~ClosedIn(read)
      <3> DEFINE p == Len(read.published)
      <3>1. p \in Nat /\ read.published \in Seq(Kinds)
            /\ \A i \in 1..p : Faithful(i, read.published[i])
        BY <1>2 DEF Fine
      <3>2. \A i \in 1..p : read.published[i] # "closed"
        BY <2>1 DEF ClosedIn, Contains
      <3>3. ASSUME target <= p PROVE FALSE
        <4>1. target \in 1..p
          BY <1>5, <2>1, <3>1, <3>3
        <4> QED BY <1>5, <2>1, <3>1, <3>2, <4>1 DEF Faithful, Evicted
      <3>4. target \in (p + 1)..n
        BY <1>1, <3>1, <3>3
      <3>5. Faithful(target, "closed") /\ "closed" \in Kinds
        BY <1>5, <2>1 DEF Faithful, Kinds
      <3>6. /\ read.error => s = read
            /\ \A i \in 1..n : Has(s, i) <=> Has(read, i) \/ i = target
        BY <1>1, <1>2, <2>1, <3>4, <3>5, InsertFine
      <3> QED BY <1>2, <1>5, <2>0, <2>1, <3>6
    <2>2. CASE ~(closed /\ ~ClosedIn(read))
      <3>1. s = read
        BY <2>2
      <3>2. ASSUME closed PROVE Has(read, target)
        <4>1. PICK i \in 1..Len(read.published) : read.published[i] = "closed"
          BY <2>2, <3>2 DEF ClosedIn, Contains
        <4>2. Len(read.published) \in 0..n /\ Faithful(i, read.published[i])
          BY <1>2 DEF Fine
        <4>3. i \in DOMAIN log /\ log[i] = "closed"
          BY <1>1, <4>1, <4>2 DEF Faithful
        <4>4. i = target
          BY <1>5, <3>2, <4>3 DEF ClosedLast
        <4> QED BY <4>2, <4>4 DEF Has
      <3> QED BY <1>2, <3>1, <3>2
    <2> QED BY <2>1, <2>2
  <1> HIDE DEF s
  <1>8. ASSUME missing = 1, ~s.error
        PROVE  Fine(PublishReady(Insert(s, FirstMissing(s, target), "exit")), n)
    <2> DEFINE p == Len(s.published)
               M == {i \in (p + 1)..target : i \notin DOMAIN s.pending}
               m == FirstMissing(s, target)
    <2>1. p \in Nat
      BY <1>6 DEF Fine
    <2>2. gaps = M
      BY DEF NextSeq
    <2>3. M # {}
      BY <1>8, <2>2, FS_EmptySet
    <2>4. M \in SUBSET Nat
      BY <1>1, <2>1
    <2>5. \E x \in M : \A y \in M : x <= y
      BY <2>3, <2>4, LeastNumber
    <2>6. m = CHOOSE x \in M : \A y \in M : x <= y
      BY DEF FirstMissing, Min, NextSeq
    <2>7. m \in M
      BY <2>5, <2>6
    <2>8. m \in 1..target /\ m \in (p + 1)..n /\ ~Has(s, m)
      BY <1>1, <2>1, <2>7 DEF Has
    <2>9. m \notin chunks
      BY <1>7, <1>8, <2>8
    <2>10. log[m] # "closed"
      <3> SUFFICES ASSUME log[m] = "closed" PROVE FALSE
        OBVIOUS
      <3>1. closed
        BY <2>8 DEF closed
      <3>2. m = target
        BY <1>1, <1>5, <2>8, <3>1 DEF ClosedLast
      <3> QED BY <1>7, <1>8, <2>8, <3>1, <3>2
    <2>11. Faithful(m, "exit") /\ "exit" \in Kinds
      BY <2>8, <2>9, <2>10, MissingIsExit DEF Kinds
    <2> HIDE DEF m
    <2>12. Fine(Insert(s, m, "exit"), n)
      BY <1>1, <1>6, <2>8, <2>11, InsertFine
    <2>13. Fine(PublishReady(Insert(s, m, "exit")), n)
      BY <1>1, <2>12, PublishReadyFine
    <2> QED BY <2>13 DEF m
  <1>9. Fine(PublishReady(s), n)
    BY <1>1, <1>6, PublishReadyFine
  <1> QED BY <1>3, <1>4, <1>6, <1>8, <1>9 DEF result

-----------------------------------------------------------------------------
(* Variables with a few values. *)

Places == {"none", "run", "notify", "close", "last", "done"}

Small ==
    /\ held \in BOOLEAN /\ expired \in BOOLEAN
    /\ doing \in [Emitters -> Places]
    /\ open \subseteq Streams /\ chunksLeft \in [Emitters -> Nat]
    /\ status \in {"connected", "recovering", "failed"}
    /\ recovery \in {"idle", "starts", "dial", "init", "read", "terminate", "install"}
    /\ registered \in BOOLEAN /\ recoverable \in BOOLEAN /\ failure \in BOOLEAN
    /\ start \in {"calling", "ok", "cleanup", "failed"}
    /\ write \in [Writes -> {"begin", "accepted", "refused"}]

LEMMA InitSmall == Init => Small
  <1> SUFFICES ASSUME Init PROVE Small
    OBVIOUS
  <1> USE DEF Init
  <1>1. load.chunks \in [Streams -> Nat]
    BY LoadAssumption
  <1>2. chunksLeft \in [Emitters -> Nat]
    BY <1>1 DEF Streams
  <1>3. doing \in [Emitters -> Places]
    BY DEF Places
  <1>4. open \subseteq Streams
    OBVIOUS
  <1> QED BY <1>2, <1>3, <1>4 DEF Small

LEMMA EnvironmentSmall == Small /\ Environment => Small'
  <1> SUFFICES ASSUME Small, Environment PROVE Small'
    OBVIOUS
  <1> USE DEF Small, session, client, events, starting
  <1>1. ASSUME NEW t \in Streams, Output(t) PROVE Small'
    <2>1. t \in Emitters
      BY DEF Emitters
    <2>2. doing' \in [Emitters -> Places] /\ chunksLeft' \in [Emitters -> Nat]
      BY <1>1, <2>1 DEF Output, Goto, Places
    <2> QED BY <1>1, <2>2 DEF Output
  <1>2. ASSUME NEW t \in Streams, EndOfStream(t) PROVE Small'
    <2>1. doing' \in [Emitters -> Places] /\ open' \subseteq Streams
      BY <1>2 DEF EndOfStream, Goto, Places
    <2> QED BY <1>2, <2>1 DEF EndOfStream
  <1>3. ASSUME Exit PROVE Small'
    <2>1. doing' \in [Emitters -> Places]
      BY <1>3 DEF Exit, Goto, Places
    <2> QED BY <1>3, <2>1 DEF Exit
  <1>4. ASSUME NEW c \in Conns, Break(c) PROVE Small'
    BY <1>4 DEF Break, process
  <1> QED BY <1>1, <1>2, <1>3, <1>4 DEF Environment

LEMMA ServerSmall == Small /\ Server => Small'
  <1> SUFFICES ASSUME Small, Server PROVE Small'
    OBVIOUS
  <1> USE DEF Small, client, events, starting
  <1>1. ASSUME NEW t \in Emitters, Notify(t) PROVE Small'
    <2>1. doing' \in [Emitters -> Places]
      BY <1>1 DEF Notify, Goto, Places
    <2> QED BY <1>1, <2>1 DEF Notify, session
  <1>2. ASSUME NEW t \in Emitters, MaybeEmitClosed(t) PROVE Small'
    <2>1. doing' \in [Emitters -> Places]
      BY <1>2 DEF MaybeEmitClosed, Goto, Places
    <2> QED BY <1>2, <2>1 DEF MaybeEmitClosed, session
  <1>3. ASSUME Forget PROVE Small'
    BY <1>3 DEF Forget, session
  <1>4. ASSUME NEW c \in Conns, Detach(c) PROVE Small'
    BY <1>4 DEF Detach, process
  <1>5. ASSUME NEW c \in Conns, Expire(c) PROVE Small'
    BY <1>5 DEF Expire
  <1>6. ASSUME DeadlinePasses PROVE Small'
    BY <1>6 DEF DeadlinePasses, process
  <1>7. ASSUME ServeResume PROVE Small'
    BY <1>7 DEF ServeResume, session
  <1>8. ASSUME ServeStart \/ ServeRead PROVE Small'
    BY <1>8 DEF ServeStart, ServeRead, session, process
  <1>9. ASSUME Spawned PROVE Small'
    <2>1. doing' = doing
          \/ doing' = [t \in Emitters |-> IF t \in open \cup {"exit"} THEN "run" ELSE "done"]
      BY <1>9 DEF Spawned
    <2>2. doing' \in [Emitters -> Places]
      BY <2>1 DEF Places
    <2> QED BY <1>9, <2>2 DEF Spawned, session
  <1>10. ASSUME NEW w \in Writes, ServeWrite(w) PROVE Small'
    BY <1>10 DEF ServeWrite, session, process
  <1>11. ASSUME NEW k \in {"cleanup", "recover"}, ServeTerminate(k) PROVE Small'
    BY <1>11 DEF ServeTerminate, session
  <1> QED
    BY <1>1, <1>2, <1>3, <1>4, <1>5, <1>6, <1>7, <1>8, <1>9, <1>10, <1>11 DEF Server

LEMMA ClientSmall == Small /\ Client => Small'
  <1> SUFFICES ASSUME Small, Client PROVE Small'
    OBVIOUS
  <1>0. UNCHANGED <<held, expired, doing, open, chunksLeft>>
    BY DEF Client, session, process, Receive, ReaderEnds, StartsAreDone, Dial, Resumed,
           Reconcile, Terminated, Install, RecoveryBreaks, TimeOut, Started, StartBreaks,
           CleanUp, CleanedUp, CleanUpBreaks, Write, Written, WriteBreaks
  <1> USE <1>0 DEF Small, client, events, starting
  <1>1. ASSUME NEW c \in Conns, Receive(c) PROVE Small'
    BY <1>1 DEF Receive, Fail
  <1>2. ASSUME NEW c \in Conns, ReaderEnds(c) PROVE Small'
    BY <1>2 DEF ReaderEnds
  <1>3. ASSUME StartsAreDone \/ Dial \/ Install \/ RecoveryBreaks PROVE Small'
    BY <1>3 DEF StartsAreDone, Dial, Install, RecoveryBreaks
  <1>4. ASSUME GiveUp, UNCHANGED <<starting, write>> PROVE Small'
    BY <1>4 DEF GiveUp, Fail
  <1>5. ASSUME Resumed PROVE Small'
    BY <1>4, <1>5 DEF Resumed
  <1>6. ASSUME TimeOut PROVE Small'
    BY <1>4, <1>6 DEF TimeOut
  <1>7. ASSUME Reconcile PROVE Small'
    BY <1>7 DEF Reconcile
  <1>8. ASSUME Terminated PROVE Small'
    BY <1>8 DEF Terminated, Fail
  <1>9. ASSUME Started \/ StartBreaks \/ CleanUp \/ CleanedUp \/ CleanUpBreaks PROVE Small'
    <2>1. /\ UNCHANGED <<client, failure, write>>
          /\ registered' \in {registered, FALSE}
          /\ recoverable' \in BOOLEAN
          /\ start' \in {start, "ok", "cleanup", "failed"}
      BY <1>9 DEF Started, StartBreaks, CleanUp, CleanedUp, CleanUpBreaks
    <2> QED BY <2>1
  <1>11. ASSUME NEW w \in Writes, Write(w) PROVE Small'
    BY <1>11 DEF Write
  <1>12. ASSUME NEW w \in Writes, Written(w) \/ WriteBreaks(w) PROVE Small'
    <2>1. write' = write \/ \E a \in {"accepted", "refused"} : write' = [write EXCEPT ![w] = a]
      BY <1>12 DEF Written, WriteBreaks
    <2>2. write' \in [Writes -> {"begin", "accepted", "refused"}]
      BY <2>1
    <2> QED BY <1>12, <2>2 DEF Written, WriteBreaks
  <1> QED
    BY <1>1, <1>2, <1>3, <1>5, <1>6, <1>7, <1>8, <1>9, <1>11, <1>12 DEF Client

LEMMA StepSmall == Small /\ [Next]_vars => Small'
  <1>1. Small /\ UNCHANGED vars => Small'
    BY DEF Small, vars, session, process, client, events, starting
  <1> QED BY <1>1, EnvironmentSmall, ServerSmall, ClientSmall DEF Next

-----------------------------------------------------------------------------
(* Connections. *)

AConn == Conns \cup {None}

Wired ==
    /\ opened \in Conns /\ up \subseteq 1..opened /\ served \subseteq 1..opened
    /\ attached \in AConn /\ detached \in AConn /\ sender \in AConn /\ timers \subseteq Conns
    /\ current \in Conns /\ reading \subseteq Conns /\ candidate \in AConn
    /\ \A k \in Callers : call[k].conn \in AConn

LEMMA InitWired == Init => Wired
  <1> SUFFICES ASSUME Init PROVE Wired
    OBVIOUS
  <1>1. 1 \in Conns
    BY LoadAssumption DEF Conns
  <1>2. \A k \in Callers : call[k].conn \in AConn
    BY <1>1 DEF Init, NoCall, AConn
  <1> QED BY <1>1, <1>2 DEF Init, Wired, AConn

(* What the calls' connections are after a call is sent, or is over.       *)
LEMMA SendWired ==
    ASSUME Typed, Wired, NEW k \in Callers, NEW c \in AConn, Send(k, c)
    PROVE  \A j \in Callers : call'[j].conn \in AConn
  <1>1. [NoCall EXCEPT !.conn = c, !.stage = "sent"].conn = c
    BY DEF NoCall
  <1>2. call'[k].conn = c /\ \A j \in Callers \ {k} : call'[j] = call[j]
    BY <1>1 DEF Send, Typed
  <1> QED BY <1>2 DEF Wired

LEMMA DoneWired ==
    ASSUME Typed, Wired, NEW k \in Callers, Done(k)
    PROVE  \A j \in Callers : call'[j].conn \in AConn
  <1>1. call'[k].conn = None /\ \A j \in Callers \ {k} : call'[j] = call[j]
    BY DEF Done, Typed, NoCall
  <1> QED BY <1>1 DEF Wired, AConn

LEMMA CallsWired ==
    ASSUME Typed, Wired, \A j \in Callers : call'[j].conn = call[j].conn,
           UNCHANGED <<opened, up, served, attached, detached, sender, timers, client>>
    PROVE  Wired'
  BY DEF Wired, client

LEMMA EnvironmentWired == Wired /\ Environment => Wired'
  <1> SUFFICES ASSUME Wired, Environment PROVE Wired'
    OBVIOUS
  <1> USE DEF Wired, session, client, transport
  <1>1. ASSUME NEW t \in Streams, Output(t) \/ EndOfStream(t) PROVE Wired'
    BY <1>1 DEF Output, EndOfStream
  <1>2. ASSUME Exit PROVE Wired'
    BY <1>2 DEF Exit
  <1>3. ASSUME NEW c \in Conns, Break(c) PROVE Wired'
    BY <1>3 DEF Break
  <1> QED BY <1>1, <1>2, <1>3 DEF Environment

LEMMA ServerWired == Typed /\ Wired /\ Server => Wired'
  <1> SUFFICES ASSUME Typed, Wired, Server PROVE Wired'
    OBVIOUS
  <1>1. ASSUME NEW t \in Emitters, Notify(t) \/ MaybeEmitClosed(t) PROVE Wired'
    BY <1>1 DEF Notify, MaybeEmitClosed, Wired, client, session, transport
  <1>2. ASSUME Forget PROVE Wired'
    BY <1>2 DEF Forget, Wired, client, session, transport
  <1>3. ASSUME NEW c \in Conns, Detach(c) PROVE Wired'
    <2>1. \A k \in Callers : call'[k].conn = call[k].conn
      BY <1>3 DEF Detach, Typed, CallRecord
    <2>2. /\ UNCHANGED <<opened, up, client>> /\ served' \subseteq served
          /\ attached' \in {attached, None} /\ sender' \in {sender, None}
          /\ detached' \in {detached, c} /\ timers' \subseteq timers \cup {c}
      BY <1>3 DEF Detach
    <2> QED BY <2>1, <2>2 DEF Wired, AConn, client
  <1>4. ASSUME NEW c \in Conns, Expire(c) PROVE Wired'
    BY <1>4 DEF Expire, Wired, client, transport
  <1>5. ASSUME DeadlinePasses PROVE Wired'
    BY <1>5 DEF DeadlinePasses, Wired, client, transport
  <1> DEFINE Conned == \A j \in Callers : call'[j].conn = call[j].conn
  <1>6. ASSUME NEW k \in Callers, NEW a, Reply(k, a) PROVE Conned
    BY <1>6 DEF Reply, Typed, CallRecord
  <1>7. ASSUME ServeResume PROVE Wired'
    <2>1. Conned
      BY <1>6, <1>7, CallersDistinct DEF ServeResume
    <2>2. /\ UNCHANGED <<opened, up, served, client, timers>>
          /\ attached' \in {attached, candidate} /\ sender' \in {sender, candidate}
          /\ detached' \in {detached, None}
      BY <1>7 DEF ServeResume, session, transport
    <2> QED BY <2>1, <2>2 DEF Wired, AConn, client
  <1>8. ASSUME ServeStart PROVE Wired'
    <2>1. call' = [call EXCEPT !["start"].stage = "spawning"] \/ Reply("start", "unknown")
      BY <1>8 DEF ServeStart
    <2>2. ASSUME call' = [call EXCEPT !["start"].stage = "spawning"] PROVE Conned
      BY <2>2, CallersDistinct DEF Typed, CallRecord
    <2>3. Conned
      BY <1>6, <2>1, <2>2, CallersDistinct
    <2> QED BY <1>8, <2>3, CallsWired DEF ServeStart, session, transport
  <1>9. ASSUME Spawned PROVE Wired'
    <2>1. Conned
      BY <1>6, <1>9, CallersDistinct DEF Spawned
    <2> QED BY <1>9, <2>1, CallsWired DEF Spawned, session, transport
  <1>10. ASSUME ServeRead PROVE Wired'
    <2>1. Conned
      BY <1>10, CallersDistinct DEF ServeRead, Typed, CallRecord
    <2> QED BY <1>10, <2>1, CallsWired DEF ServeRead, session, transport
  <1>11. ASSUME NEW w \in Writes, ServeWrite(w) PROVE Wired'
    <2>1. Conned
      BY <1>6, <1>11, CallersDistinct DEF ServeWrite
    <2> QED BY <1>11, <2>1, CallsWired DEF ServeWrite, session, transport
  <1>12. ASSUME NEW k \in {"cleanup", "recover"}, ServeTerminate(k) PROVE Wired'
    <2>1. Conned
      BY <1>6, <1>12, CallersDistinct DEF ServeTerminate
    <2> QED BY <1>12, <2>1, CallsWired DEF ServeTerminate, session, transport
  <1> QED
    BY <1>1, <1>2, <1>3, <1>4, <1>5, <1>7, <1>8, <1>9, <1>10, <1>11, <1>12 DEF Server

LEMMA ClientWired == Typed /\ Wired /\ Client => Wired'
  <1> SUFFICES ASSUME Typed, Wired, Client PROVE Wired'
    OBVIOUS
  <1>0. UNCHANGED <<attached, detached, sender, timers>>
    BY DEF Client, session, Receive, ReaderEnds, StartsAreDone, Dial, Resumed, Reconcile,
           Terminated, Install, RecoveryBreaks, TimeOut, Started, StartBreaks, CleanUp,
           CleanedUp, CleanUpBreaks, Write, Written, WriteBreaks
  <1> DEFINE Conned == \A j \in Callers : call'[j].conn \in AConn
             Same == UNCHANGED <<opened, served>>
             Less == up' \subseteq up /\ reading' \subseteq reading
  <1>a. candidate \in AConn /\ current \in AConn /\ None \in AConn
    BY DEF Wired, AConn
  <1>b. ASSUME Same, Less, Conned, current' = current \/ (current' = candidate /\ candidate \in up),
               candidate' \in AConn
        PROVE  Wired'
    <2>1. candidate \in up => candidate \in Conns
      <3>1. MaxConn \in Nat /\ opened \in 1..MaxConn /\ up \subseteq 1..opened
        BY LoadAssumption DEF Wired, Conns
      <3> QED BY <3>1 DEF Conns
    <2> QED BY <1>0, <1>b, <2>1 DEF Wired
  <1>c. Conned \/ call' # call
    BY DEF Wired
  <1>1. ASSUME NEW c \in Conns, Receive(c) \/ ReaderEnds(c) PROVE Wired'
    BY <1>a, <1>b, <1>c, <1>1 DEF Receive, ReaderEnds, client, transport
  <1>2. ASSUME StartsAreDone \/ Install PROVE Wired'
    BY <1>a, <1>b, <1>c, <1>2 DEF StartsAreDone, Install, client, transport
  <1>3. ASSUME Dial PROVE Wired'
    <2> DEFINE c == opened + 1
    <2>1. c \in Conns /\ c \in AConn /\ opened \in Nat
      <3>1. load.conns \in Conns /\ opened < load.conns /\ opened \in Conns
        BY <1>3, LoadAssumption DEF Dial, Wired, Typed
      <3>2. MaxConn \in Nat
        BY LoadAssumption
      <3> QED BY <3>1, <3>2 DEF Conns, AConn
    <2>2. /\ opened' = c /\ up' = up \cup {c} /\ served' = served \cup {c}
          /\ reading' = reading \cup {c} /\ candidate' = c /\ current' = current
          /\ Send("recover", c)
      BY <1>3 DEF Dial
    <2>3. Conned
      BY <2>1, <2>2, SendWired, CallersDistinct
    <2>4. 1..c = (1..opened) \cup {c}
      BY <2>1
    <2> HIDE DEF c
    <2> QED BY <1>0, <2>1, <2>2, <2>3, <2>4 DEF Wired
  <1>4. ASSUME Resumed PROVE Wired'
    <2>1. Send("recover", candidate) \/ Done("recover")
      BY <1>4 DEF Resumed
    <2>2. Conned
      BY <1>a, <2>1, SendWired, DoneWired, CallersDistinct
    <2>3. Same /\ Less /\ current' = current /\ candidate' \in {candidate, None}
      BY <1>4 DEF Resumed, Hangup, GiveUp
    <2> QED BY <1>a, <1>b, <2>2, <2>3
  <1>5. ASSUME Reconcile \/ Terminated \/ RecoveryBreaks PROVE Wired'
    <2>1. Send("recover", candidate) \/ Done("recover")
      BY <1>5 DEF Reconcile, Terminated, RecoveryBreaks
    <2>2. Conned
      BY <1>a, <2>1, SendWired, DoneWired, CallersDistinct
    <2>3. Same /\ Less /\ current' = current /\ candidate' \in {candidate, None}
      BY <1>5 DEF Reconcile, Terminated, RecoveryBreaks, transport
    <2> QED BY <1>a, <1>b, <2>2, <2>3
  <1>6. ASSUME TimeOut PROVE Wired'
    <2>1. Done("recover") \/ call' = call
      BY <1>6 DEF TimeOut
    <2>2. Conned
      BY <1>c, <2>1, DoneWired, CallersDistinct
    <2>3. Same /\ Less /\ current' = current /\ candidate' \in {candidate, None}
      BY <1>6 DEF TimeOut, Hangup, GiveUp
    <2> QED BY <1>a, <1>b, <2>2, <2>3
  <1>7. ASSUME Started \/ StartBreaks \/ CleanUp \/ CleanedUp \/ CleanUpBreaks PROVE Wired'
    <2>1. Send("cleanup", current) \/ Done("cleanup") \/ Done("start")
      BY <1>7 DEF Started, StartBreaks, CleanUp, CleanedUp, CleanUpBreaks
    <2>2. Conned
      BY <1>a, <2>1, SendWired, DoneWired, CallersDistinct
    <2>3. UNCHANGED <<transport, client>>
      BY <1>7 DEF Started, StartBreaks, CleanUp, CleanedUp, CleanUpBreaks
    <2> QED BY <1>a, <1>b, <2>2, <2>3 DEF transport, client
  <1>8. ASSUME NEW w \in Writes, Write(w) \/ Written(w) \/ WriteBreaks(w) PROVE Wired'
    <2>1. Send(w, current) \/ Done(w)
      BY <1>8 DEF Write, Written, WriteBreaks
    <2>2. Conned
      BY <1>a, <2>1, SendWired, DoneWired, CallersDistinct
    <2>3. UNCHANGED <<transport, client>>
      BY <1>8 DEF Write, Written, WriteBreaks
    <2> QED BY <1>a, <1>b, <2>2, <2>3 DEF transport, client
  <1> QED BY <1>1, <1>2, <1>3, <1>4, <1>5, <1>6, <1>7, <1>8 DEF Client

LEMMA StepWired == Typed /\ Wired /\ [Next]_vars => Wired'
  <1>1. Wired /\ UNCHANGED vars => Wired'
    BY DEF Wired, vars, session, client, transport
  <1> QED BY <1>1, EnvironmentWired, ServerWired, ClientWired DEF Next

-----------------------------------------------------------------------------
(* The server's tasks: the close is the last event. *)

TasksInv ==
    /\ proc \in {"absent", "starting"} => log = <<>>
    /\ \A t \in Streams : doing[t] \in {"run", "notify"} => t \in open
    /\ doing["exit"] = "run" => ~Exited
    /\ Closed => open = {} /\ Exited
    /\ ClosedLast

LEMMA InitTasks == Init => TasksInv
  <1> SUFFICES ASSUME Init PROVE TasksInv
    OBVIOUS
  <1>1. \A t \in Streams : doing[t] = "none"
    BY DEF Init, Emitters
  <1>2. doing["exit"] = "none"
    BY DEF Init, Emitters
  <1> QED BY <1>1, <1>2 DEF Init, TasksInv, Closed, ClosedLast

LEMMA TasksUntouched ==
    ASSUME TasksInv, UNCHANGED <<log, doing, open>>,
           proc' \in {"absent", "starting"} => proc \in {"absent", "starting"}
    PROVE  TasksInv'
  BY DEF TasksInv, Closed, Exited, ClosedLast

LEMMA TasksQuiet ==
    ASSUME TasksInv, UNCHANGED process
    PROVE  TasksInv'
  BY TasksUntouched DEF process

LEMMA LogAppended ==
    ASSUME Typed, NEW kind \in Kinds, log' = Append(log, kind)
    PROVE  /\ Len(log') = Len(log) + 1 /\ Len(log) \in Nat /\ DOMAIN log = 1..Len(log)
           /\ DOMAIN log' = 1..(Len(log) + 1)
           /\ \A i \in 1..Len(log) : log'[i] = log[i]
           /\ log'[Len(log) + 1] = kind
           /\ Closed' <=> Closed \/ kind = "closed"
           /\ Exited' <=> Exited \/ kind = "exit"
  <1>1. /\ Len(log') = Len(log) + 1 /\ Len(log) \in Nat /\ DOMAIN log = 1..Len(log)
        /\ DOMAIN log' = 1..(Len(log) + 1)
        /\ \A i \in 1..Len(log) : log'[i] = log[i]
        /\ log'[Len(log) + 1] = kind
    BY AppendProperties DEF Typed
  <1>2. \A i : i \in DOMAIN log' <=> i \in DOMAIN log \/ i = Len(log) + 1
    BY <1>1
  <1>3. Closed' <=> Closed \/ kind = "closed"
    BY <1>1, <1>2 DEF Closed
  <1>4. Exited' <=> Exited \/ kind = "exit"
    BY <1>1, <1>2 DEF Exited
  <1> QED BY <1>1, <1>3, <1>4

(* No event follows a close.                                               *)
LEMMA CloseStaysLast ==
    ASSUME Typed, ~Closed, NEW kind \in Kinds, log' = Append(log, kind)
    PROVE  ClosedLast'
  <1>1. \A i \in 1..Len(log) : log'[i] # "closed"
    BY LogAppended DEF Closed
  <1>2. Len(log') = Len(log) + 1 /\ Len(log) \in Nat /\ DOMAIN log' = 1..(Len(log) + 1)
    BY LogAppended
  <1> QED BY <1>1, <1>2 DEF ClosedLast

LEMMA EmitTasks ==
    ASSUME Typed, Small, TasksInv, NEW t \in Emitters, NEW kind \in Kinds, Emit(t, kind),
           proc = "running", proc' = proc, open' = open, NEW place \in Places, Goto(t, place),
           \/ t \in Streams /\ doing[t] = "run" /\ kind = "out" /\ place = "notify"
           \/ t = "exit" /\ doing[t] = "run" /\ kind = "exit" /\ place = "notify"
           \/ ~Closed /\ open = {} /\ Exited /\ place = "last"
    PROVE  TasksInv'
  <1>1. log' = Append(log, kind)
    BY DEF Emit
  <1>2. doing'[t] = place /\ \A u \in Emitters \ {t} : doing'[u] = doing[u]
    BY DEF Goto, Small
  <1>3. Streams \subseteq Emitters /\ "exit" \in Emitters /\ "exit" \notin Streams
    BY DEF Emitters, Streams
  <1>4. ~Closed
    BY DEF TasksInv
  <1>5. ClosedLast'
    BY <1>1, <1>4, CloseStaysLast
  <1>6. (Closed' <=> Closed \/ kind = "closed") /\ (Exited' <=> Exited \/ kind = "exit")
    BY <1>1, LogAppended
  <1>7. \A u \in Streams : doing'[u] \in {"run", "notify"} => u \in open
    <2> SUFFICES ASSUME NEW u \in Streams, doing'[u] \in {"run", "notify"} PROVE u \in open
      OBVIOUS
    <2>1. CASE u = t
      BY <1>2, <1>3, <2>1 DEF TasksInv
    <2>2. CASE u # t
      BY <1>2, <1>3, <2>2 DEF TasksInv
    <2> QED BY <2>1, <2>2
  <1>8. doing'["exit"] = "run" => ~Exited'
    <2>1. CASE t = "exit"
      BY <1>2, <2>1
    <2>2. CASE t # "exit"
      <3>1. doing'["exit"] = doing["exit"]
        BY <1>2, <1>3, <2>2
      <3>2. doing["exit"] = "run" => kind = "out" /\ ~Exited
        BY <2>2 DEF TasksInv
      <3> QED BY <1>6, <3>1, <3>2
    <2> QED BY <2>1, <2>2
  <1>9. Closed' => open' = {} /\ Exited'
    BY <1>4, <1>6
  <1> QED BY <1>5, <1>7, <1>8, <1>9 DEF TasksInv

LEMMA StepTasks == Typed /\ Small /\ TasksInv /\ [Next]_vars => TasksInv'
  <1> SUFFICES ASSUME Typed, Small, TasksInv, [Next]_vars PROVE TasksInv'
    OBVIOUS
  <1>0. /\ Streams \subseteq Emitters /\ "exit" \in Emitters /\ "exit" \notin Streams
        /\ {"out", "exit", "closed"} \subseteq Kinds
        /\ {"notify", "last", "close", "done", "run"} \subseteq Places
    BY DEF Emitters, Streams, Kinds, Places
  <1>1. ASSUME NEW t \in Streams, Output(t) PROVE TasksInv'
    BY <1>0, <1>1, EmitTasks DEF Output
  <1>2. ASSUME NEW t \in Streams, EndOfStream(t) PROVE TasksInv'
    <2>1. /\ UNCHANGED <<log, proc>> /\ open' = open \ {t} /\ doing'[t] = "close"
          /\ \A u \in Emitters \ {t} : doing'[u] = doing[u]
      BY <1>0, <1>2 DEF EndOfStream, Goto, Small
    <2> QED BY <1>0, <2>1 DEF TasksInv, Closed, Exited, ClosedLast
  <1>3. ASSUME Exit PROVE TasksInv'
    BY <1>0, <1>3, EmitTasks DEF Exit
  <1>4. ASSUME NEW t \in Emitters, Notify(t) PROVE TasksInv'
    <2>1. /\ UNCHANGED <<log, proc, open>>
          /\ doing'[t] = CASE doing[t] = "last" -> "done"
                           [] t = "exit" -> "close"
                           [] OTHER -> "run"
          /\ \A u \in Emitters \ {t} : doing'[u] = doing[u]
      BY <1>4 DEF Notify, Goto, Small
    <2>2. doing[t] \in {"notify", "last"}
      BY <1>4 DEF Notify
    <2>3. doing'[t] = "run" => doing[t] = "notify" /\ t # "exit"
      BY <2>1, <2>2
    <2>4. doing'[t] # "notify"
      BY <2>1
    <2>5. \A u \in Streams : doing'[u] \in {"run", "notify"} => u \in open
      <3> SUFFICES ASSUME NEW u \in Streams, doing'[u] \in {"run", "notify"} PROVE u \in open
        OBVIOUS
      <3>1. CASE u = t
        BY <2>3, <2>4, <3>1 DEF TasksInv
      <3>2. CASE u # t
        BY <1>0, <2>1, <3>2 DEF TasksInv
      <3> QED BY <3>1, <3>2
    <2>6. doing'["exit"] = "run" => ~Exited
      <3>1. CASE t = "exit"
        BY <2>3, <3>1
      <3>2. CASE t # "exit"
        BY <1>0, <2>1, <3>2 DEF TasksInv
      <3> QED BY <3>1, <3>2
    <2> QED BY <2>1, <2>5, <2>6 DEF TasksInv, Closed, Exited, ClosedLast
  <1>5. ASSUME NEW t \in Emitters, MaybeEmitClosed(t) PROVE TasksInv'
    <2>1. CASE proc = "running" /\ ~Closed /\ open = {} /\ Exited
      BY <1>0, <1>5, <2>1, EmitTasks DEF MaybeEmitClosed
    <2>2. CASE ~(proc = "running" /\ ~Closed /\ open = {} /\ Exited)
      <3>1. /\ UNCHANGED <<log, proc, open>> /\ doing'[t] = "done"
            /\ \A u \in Emitters \ {t} : doing'[u] = doing[u]
        BY <1>5, <2>2 DEF MaybeEmitClosed, Goto, Small
      <3> QED BY <1>0, <3>1 DEF TasksInv, Closed, Exited, ClosedLast
    <2> QED BY <2>1, <2>2
  <1>6. ASSUME Spawned PROVE TasksInv'
    <2>1. CASE /\ proc = "starting" /\ UNCHANGED <<log, open>> /\ proc' = "running"
               /\ doing' = [t \in Emitters |-> IF t \in open \cup {"exit"} THEN "run" ELSE "done"]
      <3>1. log = <<>>
        BY <2>1 DEF TasksInv
      <3>2. ~Exited /\ ~Closed
        BY <3>1 DEF Exited, Closed
      <3>3. \A u \in Streams : doing'[u] \in {"run", "notify"} => u \in open
        BY <1>0, <2>1
      <3> QED BY <2>1, <3>2, <3>3 DEF TasksInv, Exited, Closed, ClosedLast
    <2>2. CASE UNCHANGED <<log, doing, open>>
               /\ proc' = IF proc = "starting" THEN "absent" ELSE proc
      BY <2>2, TasksUntouched
    <2> QED BY <1>6, <2>1, <2>2 DEF Spawned
  <1>7. ASSUME Forget PROVE TasksInv'
    BY <1>7, TasksUntouched DEF Forget
  <1>8. ASSUME NEW c \in Conns, Expire(c) PROVE TasksInv'
    BY <1>8, TasksUntouched DEF Expire, ShutDownProcess
  <1>9. ASSUME ServeResume PROVE TasksInv'
    BY <1>9, TasksUntouched DEF ServeResume, ShutDownProcess
  <1>10. ASSUME ServeStart PROVE TasksInv'
    BY <1>10, TasksUntouched DEF ServeStart
  <1>11. ASSUME NEW k \in {"cleanup", "recover"}, ServeTerminate(k) PROVE TasksInv'
    BY <1>11, TasksUntouched DEF ServeTerminate
  <1>12. ASSUME \/ \E c \in Conns : Detach(c) \/ Break(c)
                \/ DeadlinePasses \/ ServeRead \/ \E w \in Writes : ServeWrite(w)
         PROVE TasksInv'
    BY <1>12, TasksQuiet DEF Detach, Break, DeadlinePasses, ServeRead, ServeWrite
  <1>13. ASSUME Client PROVE TasksInv'
    BY <1>13, TasksQuiet
       DEF Client, Receive, ReaderEnds, StartsAreDone, Dial, Resumed, Reconcile, Terminated,
           Install, RecoveryBreaks, TimeOut, Started, StartBreaks, CleanUp, CleanedUp,
           CleanUpBreaks, Write, Written, WriteBreaks
  <1>14. ASSUME UNCHANGED vars PROVE TasksInv'
    BY <1>14, TasksQuiet DEF vars
  <1> QED
    BY <1>1, <1>2, <1>3, <1>4, <1>5, <1>6, <1>7, <1>8, <1>9, <1>10, <1>11, <1>12, <1>13, <1>14
       DEF Next, Environment, Server

-----------------------------------------------------------------------------
(* The numbers under way are those of events that happened. *)

Numbers ==
    /\ holding \in [Emitters -> 0..Len(log)]
    /\ \A t \in Emitters : doing[t] \in {"notify", "last"} => holding[t] # 0
    /\ net \in [Conns -> Seq(1..Len(log))]
    /\ \A k \in Callers : call[k].events \in 0..Len(log)

LEMMA InitNumbers == Init => Numbers
  <1> SUFFICES ASSUME Init PROVE Numbers
    OBVIOUS
  <1> USE DEF Init
  <1>1. \A k \in Callers : call[k].events = 0
    BY DEF NoCall
  <1>2. holding \in [Emitters -> 0..Len(log)] /\ net \in [Conns -> Seq(1..Len(log))]
    OBVIOUS
  <1>3. Len(log) = 0
    OBVIOUS
  <1> QED BY <1>1, <1>2, <1>3 DEF Numbers

(* A number stays one when there are more events.                          *)
LEMMA NumbersWiden ==
    ASSUME Typed, Numbers, NEW kind \in Kinds, log' = log \/ log' = Append(log, kind)
    PROVE  /\ Len(log) \in Nat /\ Len(log') \in Nat /\ Len(log) <= Len(log')
           /\ holding \in [Emitters -> 0..Len(log')]
           /\ net \in [Conns -> Seq(1..Len(log'))]
           /\ \A k \in Callers : call[k].events \in 0..Len(log')
  <1>1. Len(log) \in Nat /\ Len(log') \in Nat /\ Len(log) <= Len(log')
    BY AppendProperties DEF Typed
  <1>2. 0..Len(log) \subseteq 0..Len(log') /\ 1..Len(log) \subseteq 1..Len(log')
    BY <1>1
  <1>3. net \in [Conns -> Seq(1..Len(log'))]
    BY <1>2, SeqMonotonic DEF Numbers
  <1> QED BY <1>1, <1>2, <1>3 DEF Numbers

(* What the calls' numbers are after a call is sent, is over, or answered. *)
LEMMA SendNumbers ==
    ASSUME Typed, Numbers, NEW k \in Callers, NEW c, Send(k, c)
    PROVE  \A j \in Callers : call'[j].events \in 0..Len(log)
  <1>1. [NoCall EXCEPT !.conn = c, !.stage = "sent"].events = 0
    BY DEF NoCall
  <1>2. call'[k].events = 0 /\ \A j \in Callers \ {k} : call'[j] = call[j]
    BY <1>1 DEF Send, Typed
  <1>3. Len(log) \in Nat
    BY DEF Typed
  <1> QED BY <1>2, <1>3 DEF Numbers

LEMMA DoneNumbers ==
    ASSUME Typed, Numbers, NEW k \in Callers, Done(k)
    PROVE  \A j \in Callers : call'[j].events \in 0..Len(log)
  <1>1. call'[k].events = 0 /\ \A j \in Callers \ {k} : call'[j] = call[j]
    BY DEF Done, Typed, NoCall
  <1>2. Len(log) \in Nat
    BY DEF Typed
  <1> QED BY <1>1, <1>2 DEF Numbers

LEMMA CallsNumbered ==
    ASSUME Typed, Numbers, UNCHANGED <<log, doing, holding, net>>,
           \A k \in Callers : call'[k].events \in 0..Len(log)
    PROVE  Numbers'
  BY DEF Numbers

LEMMA NumbersUntouched ==
    ASSUME Typed, Numbers, UNCHANGED <<log, doing, holding, net>>,
           \A k \in Callers : call'[k].events = call[k].events
    PROVE  Numbers'
  BY DEF Numbers

(* What is on its way is only lost, or taken by the reader.                *)
LEMMA NetsNumbered ==
    ASSUME Typed, Numbers, UNCHANGED <<log, doing, holding>>,
           \A k \in Callers : call'[k].events \in 0..Len(log),
           NEW c \in Conns, NEW q \in Seq(1..Len(log)), net' = [net EXCEPT ![c] = q]
    PROVE  Numbers'
  BY DEF Numbers

LEMMA EmitNumbers ==
    ASSUME Typed, Numbers, NEW t \in Emitters, NEW kind \in Kinds, Emit(t, kind),
           NEW place \in {"notify", "last"}, Goto(t, place), UNCHANGED <<net, call>>
    PROVE  Numbers'
  <1>1. /\ Len(log) \in Nat /\ Len(log') = Len(log) + 1
        /\ log' = Append(log, kind)
    BY AppendProperties DEF Typed, Emit
  <1>2. /\ holding \in [Emitters -> 0..Len(log')]
        /\ net \in [Conns -> Seq(1..Len(log'))]
        /\ \A k \in Callers : call[k].events \in 0..Len(log')
    BY <1>1, NumbersWiden
  <1>3. Len(log) + 1 \in 0..Len(log') /\ Len(log) + 1 # 0
    BY <1>1
  <1>4. holding' \in [Emitters -> 0..Len(log')]
    BY <1>2, <1>3 DEF Emit
  <1>5. holding'[t] # 0 /\ \A u \in Emitters \ {t} : holding'[u] = holding[u]
    BY <1>2, <1>3 DEF Emit
  <1>6. doing' = [doing EXCEPT ![t] = place]
    BY DEF Goto
  <1>7. \A u \in Emitters \ {t} : doing'[u] \in {"notify", "last"} => holding[u] # 0
    BY <1>6 DEF Numbers
  <1> QED BY <1>2, <1>4, <1>5, <1>7 DEF Numbers

LEMMA EnvironmentNumbers == Typed /\ Numbers /\ Environment => Numbers'
  <1> SUFFICES ASSUME Typed, Numbers, Environment PROVE Numbers'
    OBVIOUS
  <1>0. Streams \subseteq Emitters /\ "exit" \in Emitters /\ {"out", "exit"} \subseteq Kinds
    BY DEF Emitters, Kinds
  <1>1. ASSUME NEW t \in Streams, Output(t) PROVE Numbers'
    BY <1>0, <1>1, EmitNumbers DEF Output, transport
  <1>2. ASSUME NEW t \in Streams, EndOfStream(t) PROVE Numbers'
    <2>1. doing' = [doing EXCEPT ![t] = "close"] /\ UNCHANGED <<log, holding, net, call>>
      BY <1>2 DEF EndOfStream, Goto, transport
    <2> QED BY <2>1 DEF Numbers
  <1>3. ASSUME Exit PROVE Numbers'
    BY <1>0, <1>3, EmitNumbers DEF Exit, transport
  <1>4. ASSUME NEW c \in Conns, Break(c) PROVE Numbers'
    <2>1. PICK n \in {0, Len(net[c])} : net' = [net EXCEPT ![c] = SubSeq(@, 1, n)]
      BY <1>4 DEF Break
    <2>2. net[c] \in Seq(1..Len(log))
      BY DEF Numbers
    <2>3. SubSeq(net[c], 1, n) \in Seq(1..Len(log))
      <3>1. n \in Nat /\ \A i \in 1..n : net[c][i] \in 1..Len(log)
        BY <2>2
      <3> QED BY <3>1, SubSeqProperties
    <2>4. UNCHANGED <<log, doing, holding, call>>
      BY <1>4 DEF Break, process
    <2>5. \A k \in Callers : call'[k].events \in 0..Len(log)
      BY <2>4 DEF Numbers
    <2> QED BY <2>1, <2>3, <2>4, <2>5, NetsNumbered
  <1> QED BY <1>1, <1>2, <1>3, <1>4 DEF Environment

LEMMA ServerNumbers == Typed /\ Small /\ Wired /\ Numbers /\ Server => Numbers'
  <1> SUFFICES ASSUME Typed, Small, Wired, Numbers, Server PROVE Numbers'
    OBVIOUS
  <1>0. "closed" \in Kinds /\ Len(log) \in Nat
    BY DEF Kinds, Typed
  <1>1. ASSUME NEW t \in Emitters, Notify(t) PROVE Numbers'
    <2>1. /\ doing[t] \in {"notify", "last"} /\ holding' = [holding EXCEPT ![t] = 0]
          /\ doing' = [doing EXCEPT ![t] = CASE doing[t] = "last" -> "done"
                                             [] t = "exit" -> "close"
                                             [] OTHER -> "run"]
          /\ net' = IF sender \in up THEN [net EXCEPT ![sender] = Append(@, holding[t])]
                    ELSE net
          /\ UNCHANGED <<log, call>>
      BY <1>1 DEF Notify, Goto
    <2>2. holding[t] \in 1..Len(log)
      BY <1>0, <2>1 DEF Numbers
    <2>3. net' \in [Conns -> Seq(1..Len(log))]
      <3>1. up \subseteq Conns
        <4>1. MaxConn \in Nat /\ opened \in 1..MaxConn
          BY LoadAssumption DEF Wired, Conns
        <4>2. 1..opened \subseteq 1..MaxConn
          BY <4>1
        <4> QED BY <4>2 DEF Wired, Conns
      <3>2. \A c \in Conns : Append(net[c], holding[t]) \in Seq(1..Len(log))
        BY <2>2, AppendProperties DEF Numbers
      <3> QED BY <2>1, <3>1, <3>2 DEF Numbers
    <2>4. holding' \in [Emitters -> 0..Len(log)]
      BY <1>0, <2>1 DEF Numbers
    <2>5. \A u \in Emitters : doing'[u] \in {"notify", "last"} => holding'[u] # 0
      <3> SUFFICES ASSUME NEW u \in Emitters, doing'[u] \in {"notify", "last"}
                   PROVE  holding'[u] # 0
        OBVIOUS
      <3>1. doing'[t] = CASE doing[t] = "last" -> "done"
                          [] t = "exit" -> "close"
                          [] OTHER -> "run"
        BY <2>1 DEF Small
      <3>2. doing'[t] \in {"done", "close", "run"}
        BY <3>1
      <3>3. u # t
        BY <3>2
      <3> QED BY <2>1, <3>3 DEF Numbers
    <2> QED BY <2>1, <2>3, <2>4, <2>5 DEF Numbers
  <1>2. ASSUME NEW t \in Emitters, MaybeEmitClosed(t) PROVE Numbers'
    <2>1. UNCHANGED <<net, call>>
      BY <1>2 DEF MaybeEmitClosed, transport
    <2>2. CASE Emit(t, "closed") /\ Goto(t, "last")
      BY <1>0, <2>1, <2>2, EmitNumbers
    <2>3. CASE Goto(t, "done") /\ UNCHANGED <<log, holding>>
      <3>1. doing' = [doing EXCEPT ![t] = "done"]
        BY <2>3 DEF Goto
      <3> QED BY <2>1, <2>3, <3>1 DEF Numbers
    <2> QED BY <1>2, <2>2, <2>3 DEF MaybeEmitClosed
  <1> DEFINE Same == \A k \in Callers : call'[k].events = call[k].events
  <1>3. ASSUME NEW k \in Callers, NEW a, Reply(k, a) PROVE Same
    BY <1>3 DEF Reply, Typed, CallRecord
  <1>4. ASSUME Forget PROVE Numbers'
    BY <1>4, NumbersUntouched DEF Forget, transport
  <1>5. ASSUME NEW c \in Conns, Detach(c) PROVE Numbers'
    <2>1. Same
      BY <1>5 DEF Detach, Typed, CallRecord
    <2> QED BY <1>5, <2>1, NumbersUntouched DEF Detach, process
  <1>6. ASSUME NEW c \in Conns, Expire(c) PROVE Numbers'
    BY <1>6, NumbersUntouched DEF Expire, transport
  <1>7. ASSUME DeadlinePasses PROVE Numbers'
    BY <1>7, NumbersUntouched DEF DeadlinePasses, process, transport
  <1>8. ASSUME ServeResume PROVE Numbers'
    <2>1. Same
      BY <1>3, <1>8, CallersDistinct DEF ServeResume
    <2> QED BY <1>8, <2>1, NumbersUntouched DEF ServeResume, transport
  <1>9. ASSUME ServeStart PROVE Numbers'
    <2>1. Same
      <3>1. \/ call' = [call EXCEPT !["start"].stage = "spawning"]
            \/ Reply("start", "unknown")
        BY <1>9 DEF ServeStart
      <3>2. call' = [call EXCEPT !["start"].stage = "spawning"] => Same
        BY CallersDistinct DEF Typed, CallRecord
      <3> QED BY <1>3, <3>1, <3>2, CallersDistinct
    <2> QED BY <1>9, <2>1, NumbersUntouched DEF ServeStart, transport
  <1>10. ASSUME Spawned PROVE Numbers'
    <2>1. Same
      BY <1>3, <1>10, CallersDistinct DEF Spawned
    <2>2. /\ UNCHANGED <<log, holding, net>>
          /\ \/ doing' = [t \in Emitters |-> IF t \in open \cup {"exit"} THEN "run" ELSE "done"]
             \/ doing' = doing
      BY <1>10 DEF Spawned, transport
    <2> QED BY <2>1, <2>2 DEF Numbers
  <1>11. ASSUME ServeRead PROVE Numbers'
    <2> DEFINE a == IF proc = "running" THEN "ok" ELSE "unknown"
    <2>1. call' = [call EXCEPT !["recover"] =
                      [@ EXCEPT !.stage = "replied", !.events = Len(log), !.answer = a]]
      BY <1>11 DEF ServeRead
    <2>2. call'["recover"].events = Len(log)
      BY <2>1, CallersDistinct DEF Typed, CallRecord
    <2>3. \A k \in Callers \ {"recover"} : call'[k] = call[k]
      BY <2>1 DEF Typed
    <2>4. \A k \in Callers : call'[k].events \in 0..Len(log)
      BY <1>0, <2>2, <2>3 DEF Numbers
    <2> QED BY <1>11, <2>4, CallsNumbered DEF ServeRead, process, transport
  <1>12. ASSUME NEW w \in Writes, ServeWrite(w) PROVE Numbers'
    <2>1. Same
      BY <1>3, <1>12, CallersDistinct DEF ServeWrite
    <2> QED BY <1>12, <2>1, NumbersUntouched DEF ServeWrite, process, transport
  <1>13. ASSUME NEW k \in {"cleanup", "recover"}, ServeTerminate(k) PROVE Numbers'
    <2>1. Same
      BY <1>3, <1>13, CallersDistinct DEF ServeTerminate
    <2> QED BY <1>13, <2>1, NumbersUntouched DEF ServeTerminate, transport
  <1> HIDE DEF Same
  <1> QED
    BY <1>1, <1>2, <1>4, <1>5, <1>6, <1>7, <1>8, <1>9, <1>10, <1>11, <1>12, <1>13 DEF Server

LEMMA ClientNumbers == Typed /\ Wired /\ Numbers /\ Client => Numbers'
  <1> SUFFICES ASSUME Typed, Wired, Numbers, Client PROVE Numbers'
    OBVIOUS
  <1>0. UNCHANGED <<log, doing, holding>>
    BY DEF Client, process, Receive, ReaderEnds, StartsAreDone, Dial, Resumed, Reconcile,
           Terminated, Install, RecoveryBreaks, TimeOut, Started, StartBreaks, CleanUp,
           CleanedUp, CleanUpBreaks, Write, Written, WriteBreaks
  <1> DEFINE Called == \A j \in Callers : call'[j].events \in 0..Len(log)
  <1>a. ASSUME NEW k \in Callers, Done(k) \/ \E c : Send(k, c) PROVE Called
    BY <1>a, SendNumbers, DoneNumbers
  <1>b. call' = call => Called
    BY DEF Numbers
  <1>c. ASSUME Called, UNCHANGED net PROVE Numbers'
    BY <1>0, <1>c, CallsNumbered
  <1>d. ASSUME Called, NEW c \in AConn, Hangup(c), c # None PROVE Numbers'
    <2>1. net' = [net EXCEPT ![c] = <<>>] /\ c \in Conns
      BY <1>d DEF Hangup, AConn
    <2>2. <<>> \in Seq(1..Len(log))
      OBVIOUS
    <2> QED BY <1>0, <1>d, <2>1, <2>2, NetsNumbered
  <1>e. ASSUME Called, Hangup(None) PROVE Numbers'
    <2>1. net' = [net EXCEPT ![None] = <<>>] /\ None \notin Conns
      BY <1>e, LoadAssumption DEF Hangup, Conns, None
    <2>2. net' = net
      BY <2>1 DEF Numbers
    <2> QED BY <1>c, <1>e, <2>2
  <1> HIDE DEF Called
  <1>f. candidate \in AConn
    BY DEF Wired
  <1>1. ASSUME NEW c \in Conns, Receive(c) PROVE Numbers'
    <2>1. net[c] \in Seq(1..Len(log)) /\ net[c] # <<>> /\ net' = [net EXCEPT ![c] = Tail(@)]
          /\ call' = call
      BY <1>1 DEF Numbers, Receive
    <2>2. Tail(net[c]) \in Seq(1..Len(log))
      BY <2>1, HeadTailProperties
    <2>3. Called
      BY <1>b, <2>1
    <2> QED BY <1>0, <2>1, <2>2, <2>3, NetsNumbered DEF Called
  <1>2. ASSUME (\E c \in Conns : ReaderEnds(c)) \/ StartsAreDone \/ Install PROVE Numbers'
    BY <1>2, <1>b, <1>c DEF ReaderEnds, StartsAreDone, Install, transport
  <1>3. ASSUME Dial PROVE Numbers'
    <2>1. \E c : Send("recover", c)
      BY <1>3 DEF Dial
    <2> QED BY <1>3, <2>1, <1>a, <1>c, CallersDistinct DEF Dial
  <1>4. ASSUME Resumed PROVE Numbers'
    <2>1. Called
      BY <1>4, <1>a, CallersDistinct DEF Resumed
    <2>2. Hangup(candidate) \/ net' = net
      BY <1>4 DEF Resumed
    <2> QED BY <1>c, <1>d, <1>e, <1>f, <2>1, <2>2
  <1>5. ASSUME Reconcile \/ Terminated \/ RecoveryBreaks PROVE Numbers'
    <2>1. Called
      BY <1>5, <1>a, CallersDistinct DEF Reconcile, Terminated, RecoveryBreaks
    <2> QED BY <1>5, <2>1, <1>c DEF Reconcile, Terminated, RecoveryBreaks, transport
  <1>6. ASSUME TimeOut PROVE Numbers'
    <2>1. Called
      BY <1>6, <1>a, <1>b, CallersDistinct DEF TimeOut
    <2>2. Hangup(candidate) \/ net' = net
      BY <1>6 DEF TimeOut
    <2> QED BY <1>c, <1>d, <1>e, <1>f, <2>1, <2>2
  <1>7. ASSUME Started \/ StartBreaks \/ CleanUp \/ CleanedUp \/ CleanUpBreaks PROVE Numbers'
    <2>1. Done("start") \/ Done("cleanup") \/ Send("cleanup", current)
      BY <1>7 DEF Started, StartBreaks, CleanUp, CleanedUp, CleanUpBreaks
    <2>2. Called
      BY <2>1, <1>a, CallersDistinct
    <2>3. UNCHANGED net
      BY <1>7 DEF Started, StartBreaks, CleanUp, CleanedUp, CleanUpBreaks, transport
    <2> QED BY <2>2, <2>3, <1>c
  <1>8. ASSUME NEW w \in Writes, Write(w) \/ Written(w) \/ WriteBreaks(w) PROVE Numbers'
    <2>1. Done(w) \/ Send(w, current)
      BY <1>8 DEF Write, Written, WriteBreaks
    <2>2. Called
      BY <2>1, <1>a, CallersDistinct
    <2>3. UNCHANGED net
      BY <1>8 DEF Write, Written, WriteBreaks, transport
    <2> QED BY <2>2, <2>3, <1>c
  <1> QED BY <1>1, <1>2, <1>3, <1>4, <1>5, <1>6, <1>7, <1>8 DEF Client

LEMMA StepNumbers == Typed /\ Small /\ Wired /\ Numbers /\ [Next]_vars => Numbers'
  <1>1. Numbers /\ UNCHANGED vars => Numbers'
    BY DEF Numbers, vars, process, transport
  <1> QED BY <1>1, EnvironmentNumbers, ServerNumbers, ClientNumbers DEF Next

-----------------------------------------------------------------------------
(* What the client has published and keeps is what the server numbered. *)

Known ==
    /\ published \in Seq(Kinds) /\ Len(published) \in 0..Len(log)
    /\ pending = [i \in DOMAIN pending |-> pending[i]]
    /\ DOMAIN pending \subseteq (Len(published) + 1)..Len(log)
    /\ \A i \in 1..Len(published) :
           published[i] = log[i] \/ (published[i] = "exit" /\ Evicted(i))
    /\ \A i \in DOMAIN pending : /\ pending[i] \in Kinds
                                 /\ pending[i] = log[i] \/ (pending[i] = "exit" /\ Evicted(i))

LEMMA InitKnown == Init => Known
  <1> SUFFICES ASSUME Init PROVE Known
    OBVIOUS
  <1>1. published = <<>> /\ pending = <<>> /\ log = <<>>
    BY DEF Init
  <1>2. Len(published) = 0 /\ Len(log) = 0 /\ DOMAIN pending = {}
    BY <1>1
  <1>3. pending = [i \in DOMAIN pending |-> pending[i]]
    BY <1>1
  <1> QED BY <1>1, <1>2, <1>3 DEF Known

LEMMA KnownIsFine == Known => Fine(State, Len(log))
  <1>1. State = [published |-> published, pending |-> pending, error |-> FALSE]
    BY DEF State
  <1>2. /\ State.published = published /\ State.pending = pending /\ State.error = FALSE
    BY <1>1
  <1> HIDE DEF State
  <1> QED BY <1>1, <1>2 DEF Known, Fine, Faithful

LEMMA EvictedForEver ==
    ASSUME Typed, load' = load, NEW kind \in Kinds, log' = Append(log, kind),
           NEW i \in 1..Len(log), Evicted(i)
    PROVE  Evicted(i)'
  <1>1. log[i] = "out" /\ Faithful(i, "exit")
    BY DEF Evicted, Faithful
  <1>2. Faithful(i, "exit")'
    BY <1>1, FaithfulForEver
  <1>3. log'[i] = "out"
    BY <1>1, AppendProperties DEF Typed
  <1> QED BY <1>2, <1>3 DEF Faithful

(* What is known stays true when there are more events.                    *)
LEMMA KnownGrows ==
    ASSUME Typed, Known, UNCHANGED <<load, published, pending>>,
           NEW kind \in Kinds, log' = Append(log, kind)
    PROVE  Known'
  <1>1. /\ Len(log) \in Nat /\ Len(log') = Len(log) + 1
        /\ \A i \in 1..Len(log) : log'[i] = log[i]
    BY AppendProperties DEF Typed
  <1>2. \A i \in 1..Len(log) : Evicted(i) => Evicted(i)'
    BY EvictedForEver
  <1>3. 1..Len(published) \subseteq 1..Len(log) /\ DOMAIN pending \subseteq 1..Len(log)
    BY <1>1 DEF Known
  <1>4. \A i \in 1..Len(published) :
            published[i] = log'[i] \/ (published[i] = "exit" /\ Evicted(i)')
    BY <1>1, <1>2, <1>3 DEF Known
  <1>5. \A i \in DOMAIN pending :
            pending[i] = log'[i] \/ (pending[i] = "exit" /\ Evicted(i)')
    BY <1>1, <1>2, <1>3 DEF Known
  <1>6. /\ Len(published) \in 0..Len(log')
        /\ DOMAIN pending \subseteq (Len(published) + 1)..Len(log')
    BY <1>1 DEF Known
  <1> QED BY <1>4, <1>5, <1>6 DEF Known

LEMMA KnownFromFine ==
    ASSUME NEW s, Fine(s, Len(log)), UNCHANGED <<log, load>>, published' = s.published,
           pending' = s.pending \/ pending' = <<>>
    PROVE  Known'
  <1>1. ASSUME NEW i PROVE Evicted(i)' <=> Evicted(i)
    BY DEF Evicted, Retained
  <1>2. CASE pending' = s.pending
    BY <1>1, <1>2 DEF Known, Fine, Faithful
  <1>3. CASE pending' = <<>>
    <2>1. DOMAIN pending' = {} /\ pending' = [i \in DOMAIN pending' |-> pending'[i]]
      BY <1>3
    <2> QED BY <1>1, <2>1 DEF Known, Fine, Faithful
  <1> QED BY <1>2, <1>3

LEMMA KnownUntouched ==
    ASSUME Known, UNCHANGED <<log, load, published, pending>>
    PROVE  Known'
  <1>1. ASSUME NEW i PROVE Evicted(i)' <=> Evicted(i)
    BY DEF Evicted, Retained
  <1> QED BY <1>1 DEF Known

(* A session that fails keeps nothing.                                     *)
LEMMA FailKnown ==
    ASSUME Known, UNCHANGED <<log, load>>, NEW s, Fine(s, Len(log)), Fail(s)
    PROVE  Known'
  BY KnownFromFine DEF Fail

(* A number that comes is one of the log, and is not published already.    *)
LEMMA ReceiveKnown ==
    ASSUME Typed, Numbers, Known, NEW c \in Conns, Receive(c)
    PROVE  Known'
  <1> DEFINE n == Head(net[c])
             first == Insert(State, n, log[n])
             s == PublishReady(first)
  <1>1. n \in 1..Len(log) /\ Len(log) \in Nat
    <2>1. net[c] \in Seq(1..Len(log)) /\ net[c] # <<>>
      BY DEF Numbers, Receive
    <2> QED BY <2>1, HeadTailProperties DEF Typed
  <1>2. log[n] \in Kinds
    BY <1>1 DEF Typed
  <1>3. Fine(State, Len(log)) /\ State.published = published
    BY KnownIsFine DEF State
  <1>4. UNCHANGED <<log, load>>
    BY DEF Receive, process
  <1>5. CASE n <= Len(published)
    <2>1. UNCHANGED events
      BY <1>5 DEF Receive
    <2> QED BY <1>4, <2>1, KnownUntouched DEF events
  <1>6. CASE ~(n <= Len(published))
    <2>1. n \in (Len(State.published) + 1)..Len(log)
      <3>1. Len(published) \in Nat
        BY DEF Known
      <3> QED BY <1>1, <1>3, <1>6, <3>1
    <2>2. Faithful(n, log[n])
      BY DEF Faithful
    <2>3. Fine(first, Len(log))
      BY <1>1, <1>2, <1>3, <2>1, <2>2, InsertFine
    <2> HIDE DEF first
    <2>4. Fine(s, Len(log))
      BY <1>1, <2>3, PublishReadyFine
    <2>5. \/ UNCHANGED events
          \/ Fail(s)
          \/ published' = s.published /\ pending' = s.pending
      BY DEF Receive, first
    <2> HIDE DEF s
    <2>6. UNCHANGED events => Known'
      BY <1>4, KnownUntouched DEF events
    <2>7. Fail(s) => Known'
      BY <1>4, <2>4, FailKnown
    <2>8. published' = s.published /\ pending' = s.pending => Known'
      BY <1>4, <2>4, KnownFromFine
    <2> QED BY <2>5, <2>6, <2>7, <2>8
  <1> QED BY <1>5, <1>6

LEMMA ClientKnown == Typed /\ TasksInv /\ Numbers /\ Known /\ Client => Known'
  <1> SUFFICES ASSUME Typed, TasksInv, Numbers, Known, Client PROVE Known'
    OBVIOUS
  <1>0. UNCHANGED <<log, load>>
    BY DEF Client, process, Receive, ReaderEnds, StartsAreDone, Dial, Resumed, Reconcile,
           Terminated, Install, RecoveryBreaks, TimeOut, Started, StartBreaks, CleanUp,
           CleanedUp, CleanUpBreaks, Write, Written, WriteBreaks
  <1>a. Fine(State, Len(log))
    BY KnownIsFine
  <1>b. ASSUME UNCHANGED <<published, pending>> PROVE Known'
    BY <1>0, <1>b, KnownUntouched
  <1>c. ASSUME GiveUp PROVE Known'
    <2>1. Fail(State) \/ UNCHANGED <<published, pending>>
      BY <1>c DEF GiveUp
    <2> QED BY <1>0, <1>a, <1>b, <2>1, FailKnown
  <1>1. ASSUME NEW c \in Conns, Receive(c) PROVE Known'
    BY <1>1, ReceiveKnown
  <1>2. ASSUME Reconcile PROVE Known'
    <2> DEFINE target == call["recover"].events
               s == Recovered(target)
    <2>1. target \in 0..Len(log)
      BY CallersDistinct DEF Numbers
    <2>2. ClosedLast
      BY DEF TasksInv
    <2>3. Fine(s, Len(log))
      BY <1>a, <2>1, <2>2, RecoveredFine
    <2>4. \/ UNCHANGED events
          \/ published' = s.published /\ pending' = s.pending
      BY <1>2 DEF Reconcile
    <2> HIDE DEF s
    <2> QED BY <1>0, <1>b, <2>3, <2>4, KnownFromFine DEF events
  <1>3. ASSUME Terminated PROVE Known'
    BY <1>0, <1>a, <1>3, FailKnown DEF Terminated
  <1>4. ASSUME Resumed PROVE Known'
    BY <1>4, <1>b, <1>c DEF Resumed, events
  <1>5. ASSUME TimeOut PROVE Known'
    BY <1>5, <1>c DEF TimeOut
  <1>6. ASSUME \/ \E c \in Conns : ReaderEnds(c)
               \/ StartsAreDone \/ Dial \/ Install \/ RecoveryBreaks
        PROVE  Known'
    BY <1>6, <1>b DEF ReaderEnds, StartsAreDone, Dial, Install, RecoveryBreaks, events
  <1>7. ASSUME \/ Started \/ StartBreaks \/ CleanUp \/ CleanedUp \/ CleanUpBreaks
               \/ \E w \in Writes : Write(w) \/ Written(w) \/ WriteBreaks(w)
        PROVE  Known'
    BY <1>7, <1>b DEF Started, StartBreaks, CleanUp, CleanedUp, CleanUpBreaks, Write,
                      Written, WriteBreaks, events
  <1> QED BY <1>1, <1>2, <1>3, <1>4, <1>5, <1>6, <1>7 DEF Client

LEMMA StepKnown == Typed /\ TasksInv /\ Numbers /\ Known /\ [Next]_vars => Known'
  <1> SUFFICES ASSUME Typed, TasksInv, Numbers, Known, [Next]_vars PROVE Known'
    OBVIOUS
  <1>1. ASSUME Environment \/ Server PROVE Known'
    <2>1. UNCHANGED <<load, published, pending>>
      <3>1. ASSUME Environment PROVE UNCHANGED <<load, published, pending>>
        BY <3>1 DEF Environment, Output, EndOfStream, Exit, Break, events
      <3>2. ASSUME Server PROVE UNCHANGED <<load, published, pending>>
        BY <3>2 DEF Server, Notify, MaybeEmitClosed, Forget, Detach, Expire, DeadlinePasses,
                    ServeResume, ServeStart, Spawned, ServeRead, ServeWrite, ServeTerminate,
                    events
      <3> QED BY <1>1, <3>1, <3>2
    <2>2. log' = log \/ \E kind \in Kinds : log' = Append(log, kind)
      BY LogOnlyGrows
    <2> QED BY <2>1, <2>2, KnownUntouched, KnownGrows
  <1>2. ASSUME UNCHANGED vars PROVE Known'
    BY <1>2, KnownUntouched DEF vars, process, events
  <1> QED BY <1>1, <1>2, ClientKnown DEF Next

-----------------------------------------------------------------------------
(* Every variable keeps its type, at any instance.                         *)

ClientInv == Typed /\ Small /\ Wired /\ TasksInv /\ Numbers /\ Known

THEOREM ClientInvariance == Spec => []ClientInv
  <1>1. Init => ClientInv
    BY InitTyped, InitSmall, InitWired, InitTasks, InitNumbers, InitKnown DEF ClientInv
  <1>2. ClientInv /\ [Next]_vars => ClientInv'
    BY StepTyped, StepSmall, StepWired, StepTasks, StepNumbers, StepKnown DEF ClientInv
  <1> QED BY <1>1, <1>2, PTL DEF Spec

THEOREM SessionsTyped == Spec => []TypeOK
  <1>1. ClientInv => TypeOK
    <2> SUFFICES ASSUME ClientInv PROVE TypeOK
      OBVIOUS
    <2> USE DEF ClientInv
    <2>1. call \in [Callers -> [conn : Conns \cup {None},
                                stage : {"none", "sent", "spawning", "replied", "lost"},
                                answer : {"none", "ok", "unknown", "attached"},
                                events : 0..Len(log)]]
      BY DEF Typed, Wired, Numbers, CallRecord, AConn
    <2>2. DOMAIN pending \subseteq 1..Len(log)
      <3>1. Len(published) \in Nat /\ Len(log) \in Nat
        BY DEF Known, Typed
      <3> QED BY <3>1 DEF Known
    <2>3. published \in Seq(Kinds)
      BY DEF Known
    <2>4. holding \in [Emitters -> 0..Len(log)] /\ net \in [Conns -> Seq(1..Len(log))]
      BY DEF Numbers
    <2> HIDE DEF ClientInv
    <2>5. Typed /\ Small /\ Wired
      BY DEF ClientInv
    <2> QED BY <2>1, <2>2, <2>3, <2>4, <2>5 DEF TypeOK, Typed, Small, Wired, Places, AConn
  <1> QED BY <1>1, ClientInvariance, PTL

(* What the client publishes under a number is the event that the server   *)
(* numbered so, whatever was lost, repeated, read again or came out of     *)
(* order, unless that was a chunk that the server no longer had.           *)
THEOREM EventsAreFaithful == Spec => []EventsFaithful
  <1>1. ClientInv => EventsFaithful
    <2> SUFFICES ASSUME ClientInv PROVE EventsFaithful
      OBVIOUS
    <2>1. Len(published) \in 0..Len(log) /\ published \in Seq(Kinds) /\ Len(log) \in Nat
      BY DEF ClientInv, Known, Typed
    <2>2. Len(published) <= Len(log) /\ DOMAIN published = 1..Len(published)
      BY <2>1
    <2>3. \A i \in 1..Len(published) : published[i] = log[i] \/ Evicted(i)
      BY DEF ClientInv, Known
    <2> QED BY <2>2, <2>3 DEF EventsFaithful
  <1> QED BY <1>1, ClientInvariance, PTL

-----------------------------------------------------------------------------
(* Output that the server retains whole. *)

OutputIsRetained == \A l \in Loads : l.chunks["stdout"] + l.chunks["stderr"] <= l.keep

(* The chunks numbered so far and those yet to come are those of the load. *)
OutputInv ==
    Cardinality(Chunks(1, Len(log))) + chunksLeft["stdout"] + chunksLeft["stderr"] =
        load.chunks["stdout"] + load.chunks["stderr"]

LEMMA InitOutput == Init => OutputInv
  <1> SUFFICES ASSUME Init PROVE OutputInv
    OBVIOUS
  <1>1. Len(log) = 0
    BY DEF Init
  <1>2. Chunks(1, Len(log)) = {}
    BY <1>1 DEF Chunks
  <1>3. Cardinality(Chunks(1, Len(log))) = 0
    BY <1>2, FS_EmptySet
  <1>4. /\ chunksLeft["stdout"] = load.chunks["stdout"]
        /\ chunksLeft["stderr"] = load.chunks["stderr"]
    BY DEF Init, Emitters, Streams
  <1>5. load.chunks["stdout"] \in Nat /\ load.chunks["stderr"] \in Nat
    BY LoadAssumption DEF Init, Streams
  <1> QED BY <1>3, <1>4, <1>5 DEF OutputInv

LEMMA OutputNumbers ==
    ASSUME Typed, Small
    PROVE  /\ load.chunks["stdout"] \in Nat /\ load.chunks["stderr"] \in Nat
           /\ chunksLeft["stdout"] \in Nat /\ chunksLeft["stderr"] \in Nat
           /\ load.keep \in Nat /\ Len(log) \in Nat
           /\ Cardinality(Chunks(1, Len(log))) \in Nat
  <1>1. "stdout" \in Streams /\ "stderr" \in Streams /\ Streams \subseteq Emitters
    BY DEF Streams, Emitters
  <1>2. load.chunks \in [Streams -> Nat] /\ load.keep \in Nat
    BY LoadAssumption DEF Typed
  <1>3. Len(log) \in Nat
    BY DEF Typed
  <1>4. Cardinality(Chunks(1, Len(log))) \in Nat
    BY <1>3, ChunksFinite
  <1> QED BY <1>1, <1>2, <1>3, <1>4 DEF Small

(* One more event is one more chunk, or none.                              *)
LEMMA ChunksGrow ==
    ASSUME Typed, NEW kind \in Kinds, log' = Append(log, kind)
    PROVE  Cardinality(Chunks(1, Len(log)))' =
               Cardinality(Chunks(1, Len(log))) + (IF kind = "out" THEN 1 ELSE 0)
  <1> DEFINE n == Len(log)
             old == Chunks(1, n)
             new == {j \in 1..Len(log') : log'[j] = "out"}
  <1>1. /\ n \in Nat /\ Len(log') = n + 1 /\ log'[n + 1] = kind
        /\ \A i \in 1..n : log'[i] = log[i]
    BY AppendProperties DEF Typed
  <1>2. IsFiniteSet(old) /\ Cardinality(old) \in Nat /\ n + 1 \notin old
    BY <1>1, ChunksFinite DEF Chunks
  <1>3. new = IF kind = "out" THEN old \cup {n + 1} ELSE old
    BY <1>1 DEF Chunks
  <1> HIDE DEF old, new
  <1>4. Cardinality(old \cup {n + 1}) = Cardinality(old) + 1
    BY <1>2, FS_AddElement
  <1>5. Cardinality(new) = Cardinality(old) + (IF kind = "out" THEN 1 ELSE 0)
    BY <1>2, <1>3, <1>4
  <1> QED BY <1>5 DEF old, new, Chunks

LEMMA OutputUntouched ==
    ASSUME OutputInv, UNCHANGED <<load, log, chunksLeft>>
    PROVE  OutputInv'
  BY DEF OutputInv, Chunks

LEMMA StepOutput == Typed /\ Small /\ OutputInv /\ [Next]_vars => OutputInv'
  <1> SUFFICES ASSUME Typed, Small, OutputInv, [Next]_vars PROVE OutputInv'
    OBVIOUS
  <1>a. {"out", "exit", "closed"} \subseteq Kinds /\ "exit" # "out" /\ "closed" # "out"
    BY DEF Kinds
  <1>1. ASSUME NEW t \in Streams, Output(t) PROVE OutputInv'
    <2>1. /\ log' = Append(log, "out") /\ load' = load
          /\ chunksLeft' = [chunksLeft EXCEPT ![t] = @ - 1]
      BY <1>1 DEF Output, Emit
    <2>2. Cardinality(Chunks(1, Len(log)))' = Cardinality(Chunks(1, Len(log))) + 1
      BY <1>a, <2>1, ChunksGrow
    <2>3. /\ t = "stdout" => /\ chunksLeft'["stdout"] = chunksLeft["stdout"] - 1
                             /\ chunksLeft'["stderr"] = chunksLeft["stderr"]
          /\ t = "stderr" => /\ chunksLeft'["stderr"] = chunksLeft["stderr"] - 1
                             /\ chunksLeft'["stdout"] = chunksLeft["stdout"]
      BY <2>1 DEF Small, Emitters, Streams
    <2>4. t = "stdout" \/ t = "stderr"
      BY DEF Streams
    <2>5. chunksLeft'["stdout"] + chunksLeft'["stderr"] =
              chunksLeft["stdout"] + chunksLeft["stderr"] - 1
      BY OutputNumbers, <2>3, <2>4
    <2>6. /\ chunksLeft'["stdout"] \in Int /\ chunksLeft'["stderr"] \in Int
      BY OutputNumbers, <2>3, <2>4
    <2> DEFINE n == Cardinality(Chunks(1, Len(log)))
               a == chunksLeft["stdout"]
               b == chunksLeft["stderr"]
               all == load.chunks["stdout"] + load.chunks["stderr"]
    <2>7. n \in Nat /\ a \in Nat /\ b \in Nat /\ all \in Nat /\ n + a + b = all
      BY OutputNumbers DEF OutputInv
    <2>8. n' = n + 1 /\ a' \in Int /\ b' \in Int /\ a' + b' = a + b - 1 /\ all' = all
      BY <2>1, <2>2, <2>5, <2>6
    <2>9. (n + a + b = all)'
      <3> HIDE DEF n, a, b, all
      <3>1. n' + (a' + b') = (n + 1) + (a + b - 1)
        BY <2>8
      <3>2. (n + 1) + (a + b - 1) = n + a + b
        BY <2>7
      <3>3. n' \in Int
        BY <2>7, <2>8
      <3>4. n' + a' + b' = n' + (a' + b')
        BY <2>8, <3>3
      <3> QED BY <2>7, <2>8, <3>1, <3>2, <3>4
    <2> QED BY <2>9 DEF OutputInv
  <1>2. ASSUME NEW kind \in {"exit", "closed"}, log' = Append(log, kind),
               UNCHANGED <<load, chunksLeft>>
        PROVE  OutputInv'
    <2>1. Cardinality(Chunks(1, Len(log)))' = Cardinality(Chunks(1, Len(log)))
      BY OutputNumbers, <1>2, <1>a, ChunksGrow
    <2> QED BY <1>2, <2>1 DEF OutputInv
  <1>3. ASSUME Exit PROVE OutputInv'
    BY <1>2, <1>3 DEF Exit, Emit
  <1>4. ASSUME NEW t \in Emitters, MaybeEmitClosed(t) PROVE OutputInv'
    BY <1>2, <1>4, OutputUntouched DEF MaybeEmitClosed, Emit
  <1>5. ASSUME \/ \E t \in Streams : EndOfStream(t)
               \/ \E c \in Conns : Break(c) \/ Detach(c) \/ Expire(c)
               \/ \E t \in Emitters : Notify(t)
               \/ Forget \/ DeadlinePasses \/ ServeResume \/ ServeStart \/ Spawned \/ ServeRead
               \/ \E w \in Writes : ServeWrite(w)
               \/ \E k \in {"cleanup", "recover"} : ServeTerminate(k)
        PROVE  OutputInv'
    BY <1>5, OutputUntouched
       DEF EndOfStream, Break, Detach, Expire, Notify, Forget, DeadlinePasses, ServeResume,
           ServeStart, Spawned, ServeRead, ServeWrite, ServeTerminate, process
  <1>6. ASSUME Client PROVE OutputInv'
    BY <1>6, OutputUntouched
       DEF Client, process, Receive, ReaderEnds, StartsAreDone, Dial, Resumed, Reconcile,
           Terminated, Install, RecoveryBreaks, TimeOut, Started, StartBreaks, CleanUp,
           CleanedUp, CleanUpBreaks, Write, Written, WriteBreaks
  <1>7. ASSUME UNCHANGED vars PROVE OutputInv'
    BY <1>7, OutputUntouched DEF vars, process
  <1> QED BY <1>1, <1>3, <1>4, <1>5, <1>6, <1>7 DEF Next, Environment, Server

(* Where the server retains all that a process puts out, the client        *)
(* publishes its events in the order they happened in, without a gap.      *)
THEOREM RetainedOutputIsInOrder ==
    ASSUME OutputIsRetained
    PROVE  Spec => []PublishedInOrder
  <1>1. ClientInv /\ OutputInv => PublishedInOrder
    <2> SUFFICES ASSUME ClientInv, OutputInv PROVE PublishedInOrder
      OBVIOUS
    <2>1. Typed /\ Small /\ Known
      BY DEF ClientInv
    <2>2. load.chunks["stdout"] + load.chunks["stderr"] <= load.keep
      BY <2>1 DEF OutputIsRetained, Typed
    <2>3. Cardinality(Chunks(1, Len(log))) <= load.keep
      BY <2>1, <2>2, OutputNumbers DEF OutputInv
    <2>a. Len(log) \in Nat /\ load.keep \in Nat
      BY <2>1, OutputNumbers
    <2>4. ASSUME NEW i \in 1..Len(log) PROVE ~Evicted(i)
      <3>1. Chunks(i, Len(log)) \subseteq Chunks(1, Len(log))
        BY <2>a DEF Chunks
      <3>2. Cardinality(Chunks(i, Len(log))) <= Cardinality(Chunks(1, Len(log)))
        BY <2>a, <3>1, ChunksFinite, FS_Subset
      <3>3. Cardinality(Chunks(i, Len(log))) \in Nat
        BY <2>a, ChunksFinite
      <3>4. Cardinality(Chunks(i, Len(log))) <= load.keep
        BY <2>a, <2>1, OutputNumbers, <2>3, <3>2, <3>3
      <3> QED BY <3>4 DEF Evicted, Retained, Chunks
    <2>5. /\ published \in Seq(Kinds) /\ Len(published) \in 0..Len(log)
          /\ \A i \in 1..Len(published) : published[i] = log[i]
      <3>1. 1..Len(published) \subseteq 1..Len(log)
        BY <2>1, <2>a DEF Known
      <3> QED BY <2>1, <2>4, <3>1 DEF Known
    <2> QED BY <2>a, <2>5 DEF PublishedInOrder, IsPrefix
  <1>2. Spec => []OutputInv
    <2>1. ClientInv => Typed /\ Small
      BY DEF ClientInv
    <2> QED BY <2>1, InitOutput, StepOutput, ClientInvariance, PTL DEF Spec
  <1> QED BY <1>1, <1>2, ClientInvariance, PTL
=============================================================================
