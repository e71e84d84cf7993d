----------------------------- MODULE ExecSessions -----------------------------
(***************************************************************************)
(* A process that runs on an exec-server, and its session in the client,   *)
(* across connections that break.  The server numbers the output chunks,   *)
(* the exit and the close of the process; three of its tasks send them to  *)
(* whichever connection is attached.  When a connection breaks the client  *)
(* resumes the session on another one and reads what it missed, before the *)
(* server's timer gives the detached session up.                           *)
(*                                                                         *)
(* exec-server/src: local_process.rs, server/session_registry.rs,          *)
(* server/processor.rs, client.rs, client_recovery.rs.                     *)
(***************************************************************************)
EXTENDS Integers, Sequences, SequencesExt, FiniteSets, FiniteSetsExt

CONSTANTS
    Writes,      \* writes to the process's stdin, by id
    Loads,       \* what happens: chunks by stream, writes, chunks that the
                 \* server retains, events that the client keeps for later
                 \* (MAX_PENDING_PROCESS_EVENTS), connections that can be
                 \* made, and whether timers go off
    MaxConn,     \* the most connections
    StdinIds     \* RETAINED_STDIN_WRITE_IDS_PER_PROCESS

Conns == 1..MaxConn
None == 0
Streams == {"stdout", "stderr"}
Emitters == Streams \cup {"exit"}
Callers == {"start", "cleanup", "recover"} \cup Writes

ASSUME LoadAssumption ==
    /\ Writes \cap {"start", "cleanup", "recover"} = {}
    /\ \A l \in Loads : /\ l.chunks \in [Streams -> Nat] /\ l.keep \in Nat /\ l.room \in Nat
                        /\ l.conns \in Conns /\ l.late \in BOOLEAN
                        /\ l.writes \subseteq Writes
    /\ MaxConn \in Nat \ {0} /\ StdinIds \in Nat

VARIABLES
    load,
    \* the server's session: whether the registry holds it, the connection
    \* attached, the one that detached last, the deadline, expiry tasks, and
    \* where notifications go
    held, attached, detached, expired, timers, sender,
    \* the server's process: its entry, events by number, what its tasks do,
    \* streams still open, chunks each one has yet to send
    proc, killed, log, doing, holding, open, chunksLeft,
    stdin, writeIds,
    \* the transport: connections opened, those alive, those the server still
    \* serves, and event numbers on their way
    opened, up, served, net,
    \* the calls that the client's tasks wait for
    call,
    \* the client: its connection, its readers, its recovery and the
    \* connection that it tries
    status, current, reading, recovery, candidate,
    \* its session of the process
    registered, recoverable, published, pending, failure, start, write

session   == <<held, attached, detached, expired, timers, sender>>
process   == <<proc, killed, log, doing, holding, open, chunksLeft>>
input     == <<stdin, writeIds>>
transport == <<opened, up, served, net>>
client    == <<status, current, reading, recovery, candidate>>
events    == <<registered, published, pending, failure>>
starting  == <<start, recoverable>>
vars == <<load, session, process, input, transport, call, client, events, starting, write>>

-----------------------------------------------------------------------------
(* The server's process: stream_output, watch_exit, maybe_emit_closed. *)

Closed == \E i \in DOMAIN log : log[i] = "closed"
Exited == \E i \in DOMAIN log : log[i] = "exit"

Goto(t, place) == doing' = [doing EXCEPT ![t] = place]

(* Faulty variant: the number is read again when it has been advanced.     *)
EmitReread(t, kind) ==
    /\ log' = Append(log, kind)
    /\ holding' = [holding EXCEPT ![t] = Len(log) + 2]

(* The number is taken under the lock; the notification is sent later.     *)
Emit(t, kind) ==
    /\ log' = Append(log, kind)
    /\ holding' = [holding EXCEPT ![t] = Len(log) + 1]

Output(t) ==
    /\ proc = "running" /\ doing[t] = "run" /\ chunksLeft[t] > 0
    /\ Emit(t, "out")
    /\ chunksLeft' = [chunksLeft EXCEPT ![t] = @ - 1]
    /\ Goto(t, "notify")
    /\ UNCHANGED <<load, session, proc, killed, open, input, transport, call, client, events,
                   starting, write>>

EndOfStream(t) ==
    /\ proc = "running" /\ doing[t] = "run" /\ t \in Streams
    /\ open' = open \ {t}
    /\ Goto(t, "close")
    /\ UNCHANGED <<load, session, proc, killed, log, holding, chunksLeft, input, transport,
                   call, client, events, starting, write>>

Exit ==
    /\ proc = "running" /\ doing["exit"] = "run"
    /\ Emit("exit", "exit")
    /\ Goto("exit", "notify")
    /\ UNCHANGED <<load, session, proc, killed, open, chunksLeft, input, transport, call,
                   client, events, starting, write>>

(* A notification goes to the connection that is attached when it is sent. *)
Notify(t) ==
    /\ doing[t] \in {"notify", "last"}
    /\ net' = IF sender \in up THEN [net EXCEPT ![sender] = Append(@, holding[t])] ELSE net
    /\ holding' = [holding EXCEPT ![t] = 0]
    /\ Goto(t, CASE doing[t] = "last" -> "done"
                 [] t = "exit" -> "close"
                 [] OTHER -> "run")
    /\ UNCHANGED <<load, session, proc, killed, log, open, chunksLeft, input, opened, up, served,
                   call, client, events, starting, write>>

MaybeEmitClosed(t) ==
    /\ doing[t] = "close"
    /\ IF proc = "running" /\ ~Closed /\ open = {} /\ Exited
       THEN Emit(t, "closed") /\ Goto(t, "last")
       ELSE Goto(t, "done") /\ UNCHANGED <<log, holding>>
    /\ UNCHANGED <<load, session, proc, killed, open, chunksLeft, input, transport, call,
                   client, events, starting, write>>

(* EXITED_PROCESS_RETENTION after the close.                               *)
Forget ==
    /\ load.late
    /\ proc = "running" /\ Closed
    /\ proc' = "gone"
    /\ UNCHANGED <<load, session, killed, log, doing, holding, open, chunksLeft, input,
                   transport, call, client, events, starting, write>>

-----------------------------------------------------------------------------
(* The server's session registry. *)

(* The connection's loop has ended, with whatever request it was handling. *)
Detach(c) ==
    /\ c \in served \ up
    /\ served' = served \ {c}
    /\ call' = [k \in Callers |-> IF call[k].conn = c /\ call[k].stage \in {"sent", "spawning"}
                                  THEN [call[k] EXCEPT !.stage = "lost"] ELSE call[k]]
    /\ IF attached = c
       THEN /\ attached' = None /\ sender' = None
            /\ detached' = c /\ expired' = FALSE
            /\ timers' = timers \cup {c}
       ELSE UNCHANGED <<attached, sender, detached, expired, timers>>
    /\ UNCHANGED <<load, held, process, input, opened, up, net,
                   client, events, starting, write>>

(* Time passes: the deadline of a detached session has come.               *)
DeadlinePasses ==
    /\ load.late
    /\ detached # None /\ ~expired
    /\ expired' = TRUE
    /\ UNCHANGED <<load, held, attached, detached, timers, sender, process, input, transport,
                   call, client, events, starting, write>>

(* LocalProcess::shutdown.                                                 *)
ShutDownProcess ==
    /\ proc' = IF proc = "absent" THEN proc ELSE "gone"
    /\ killed' = (killed \/ proc = "running")

(* Faulty variant: the timer does not ask who is attached now.             *)
ExpireAnyway(c) ==
    /\ load.late
    /\ c \in timers
    /\ timers' = timers \ {c}
    /\ IF held THEN held' = FALSE /\ ShutDownProcess
       ELSE UNCHANGED <<held, proc, killed>>
    /\ UNCHANGED <<load, attached, detached, expired, sender, log, doing, holding, open,
                   chunksLeft, input, transport, call, client, events, starting, write>>

(* expire_if_detached, when its sleep is over.                             *)
Expire(c) ==
    /\ load.late
    /\ c \in timers
    /\ attached = None /\ detached = c => expired
    /\ timers' = timers \ {c}
    /\ IF held /\ attached = None /\ detached = c
       THEN held' = FALSE /\ ShutDownProcess
       ELSE UNCHANGED <<held, proc, killed>>
    /\ UNCHANGED <<load, attached, detached, expired, sender, log, doing, holding, open,
                   chunksLeft, input, transport, call, client, events, starting, write>>

-----------------------------------------------------------------------------
(* The server's handlers.  One connection's requests are handled one after *)
(* the other, and only while its loop runs.                                *)

Serving(k) ==
    /\ call[k].stage = "sent" /\ call[k].conn \in served
    /\ ~\E j \in Callers : call[j].stage = "spawning" /\ call[j].conn = call[k].conn

Reply(k, a) == call' = [call EXCEPT ![k] = [@ EXCEPT !.stage = "replied", !.answer = a]]

(* SessionRegistry::attach with the id of a session to resume.             *)
ServeResume ==
    LET c == candidate IN
    /\ recovery = "init" /\ Serving("recover")
    /\ IF ~held
       THEN Reply("recover", "unknown") /\ UNCHANGED <<session, proc, killed>>
       ELSE IF expired
       THEN /\ Reply("recover", "unknown")
            /\ held' = FALSE /\ ShutDownProcess
            /\ UNCHANGED <<attached, detached, expired, timers, sender>>
       ELSE IF attached # None
       THEN Reply("recover", "attached") /\ UNCHANGED <<session, proc, killed>>
       ELSE /\ Reply("recover", "ok")
            /\ sender' = c /\ attached' = c
            /\ detached' = None /\ expired' = FALSE
            /\ UNCHANGED <<held, timers, proc, killed>>
    /\ UNCHANGED <<load, log, doing, holding, open, chunksLeft, input, transport, client, events, starting, write>>

ServeStart ==
    /\ Serving("start")
    /\ IF proc = "absent"
       THEN proc' = "starting" /\ call' = [call EXCEPT !["start"].stage = "spawning"]
       ELSE Reply("start", "unknown") /\ UNCHANGED proc
    /\ UNCHANGED <<load, session, killed, log, doing, holding, open, chunksLeft, input, transport,
                   client, events, starting, write>>

Spawned ==
    /\ call["start"].stage = "spawning"
    /\ \E works \in BOOLEAN :
       IF works /\ proc = "starting"
       THEN /\ proc' = "running" /\ Reply("start", "ok")
            /\ doing' = [t \in Emitters |-> IF t \in open \cup {"exit"} THEN "run" ELSE "done"]
       ELSE /\ proc' = IF proc = "starting" THEN "absent" ELSE proc
            /\ Reply("start", "unknown") /\ UNCHANGED doing
    /\ UNCHANGED <<load, session, killed, log, holding, open, chunksLeft, input, transport,
                   client, events, starting, write>>

(* exec_read answers with all that is retained and the next number: what   *)
(* that is follows from the number of events so far.                       *)
ServeRead ==
    /\ recovery = "read" /\ Serving("recover")
    /\ call' = [call EXCEPT !["recover"] =
                   [@ EXCEPT !.stage = "replied", !.events = Len(log),
                             !.answer = IF proc = "running" THEN "ok" ELSE "unknown"]]
    /\ UNCHANGED <<load, session, process, input, transport, client, events, starting,
                   write>>

(* Faulty variant: the id is not recorded.                                 *)
RememberNothing(w) == writeIds' = writeIds

(* exec_write: a write whose id is remembered was made already.            *)
Remember(w) ==
    writeIds' = LET ids == Append(writeIds, w) IN
                IF Len(ids) > StdinIds THEN Tail(ids) ELSE ids

ServeWrite(w) ==
    /\ Serving(w)
    /\ Reply(w, IF proc = "running" THEN "ok" ELSE "unknown")
    /\ IF proc = "running" /\ ~Contains(writeIds, w)
       THEN stdin' = Append(stdin, w) /\ Remember(w)
       ELSE UNCHANGED <<stdin, writeIds>>
    /\ UNCHANGED <<load, session, process, transport, client, events, starting,
                   write>>

(* terminate_process, for the clean-up of a start and of a failed recovery. *)
ServeTerminate(k) ==
    /\ k = "recover" => recovery = "terminate"
    /\ Serving(k)
    /\ Reply(k, "ok")
    /\ proc' = IF proc = "starting" THEN "absent" ELSE proc
    /\ killed' = (killed \/ (proc = "running" /\ ~Exited))
    /\ UNCHANGED <<load, session, log, doing, holding, open, chunksLeft, input, transport,
                   client, events, starting, write>>

-----------------------------------------------------------------------------
(* Connections. *)

Break(c) ==
    /\ c \in up
    /\ up' = up \ {c}
    /\ \E n \in {0, Len(net[c])} : net' = [net EXCEPT ![c] = SubSeq(@, 1, n)]
    /\ UNCHANGED <<load, session, process, input, opened, served, call, client, events,
                   starting, write>>

(* The client drops a connection: nobody reads what is on its way.         *)
Hangup(c) == up' = up \ {c} /\ net' = [net EXCEPT ![c] = <<>>] /\ reading' = reading \ {c}

NoCall == [conn |-> None, stage |-> "none", answer |-> "none", events |-> 0]
Send(k, c) == call' = [call EXCEPT ![k] = [NoCall EXCEPT !.conn = c, !.stage = "sent"]]

Usable == status = "connected" /\ current \in up
Answered(k) == call[k].stage = "replied" /\ call[k].conn \in up
Broken(k) == call[k].stage # "none" /\ call[k].conn \notin up
Done(k) == call' = [call EXCEPT ![k] = NoCall]

-----------------------------------------------------------------------------
(* The client's session: events are published in the order of their        *)
(* numbers, and those that came too early are kept.                        *)

NextSeq(s) == Len(s.published) + 1
ClosedIn(s) == Contains(s.published, "closed")
ExitedIn(s) == Contains(s.published, "exit")

(* insert_pending.                                                         *)
Insert(s, n, kind) ==
    IF s.error \/ n \in DOMAIN s.pending THEN s
    ELSE IF n # NextSeq(s) /\ Cardinality(DOMAIN s.pending) >= load.room
    THEN [s EXCEPT !.error = TRUE]
    ELSE [s EXCEPT !.pending = [i \in DOMAIN @ \cup {n} |-> IF i = n THEN kind ELSE s.pending[i]]]

(* Faulty variant: all that is kept is published, whatever is missing.     *)
PublishAll(s) ==
    IF s.error THEN s
    ELSE [s EXCEPT
          !.published = @ \o LET kept == SetToSortSeq(DOMAIN s.pending, <)
                             IN [i \in DOMAIN kept |-> s.pending[kept[i]]],
          !.pending = <<>>]

(* publish_ready.                                                          *)
PublishReady(s) ==
    LET ready == {m \in DOMAIN s.pending : NextSeq(s)..m \subseteq DOMAIN s.pending}
        rest == DOMAIN s.pending \ ready
    IN IF s.error THEN s
       ELSE [s EXCEPT
             !.published = @ \o [i \in 1..Cardinality(ready) |-> s.pending[NextSeq(s) - 1 + i]],
             !.pending = [i \in rest |-> s.pending[i]]]

State == [published |-> published, pending |-> pending, error |-> FALSE]
Over == failure \/ Contains(published, "closed")

(* set_failure, unless the close was published.                            *)
Fail(s) ==
    /\ published' = s.published
    /\ IF failure \/ ClosedIn(s)
       THEN failure' = failure /\ pending' = s.pending
       ELSE failure' = TRUE /\ pending' = <<>>

(* handle_server_notification and finish_process_event.                    *)
Receive(c) ==
    /\ c \in reading /\ net[c] # <<>>
    /\ net' = [net EXCEPT ![c] = Tail(@)]
    /\ LET n == Head(net[c])
           s == PublishReady(Insert(State, n, log[n]))
       IN IF ~registered \/ Over \/ n <= Len(published) THEN UNCHANGED events
          ELSE IF s.error THEN Fail(s) /\ registered' = FALSE
          ELSE /\ published' = s.published /\ pending' = s.pending
               /\ registered' = ~ClosedIn(s)
               /\ UNCHANGED failure
    /\ UNCHANGED <<load, session, process, input, opened, up, served, call, client, starting,
                   write>>

(* What process/read tells when there are n events: the chunks that are    *)
(* still retained, the last ones.                                          *)
Retained(n) ==
    {i \in 1..n : /\ log[i] = "out"
                  /\ Cardinality({j \in i..n : log[j] = "out"}) <= load.keep}

(* recover_events: the response carries no exit and no close event, so the *)
(* close is the last number and the exit the one that is missing.          *)
ExitKnown(s, target) ==
    ExitedIn(s) \/ \E i \in DOMAIN s.pending : i <= target /\ s.pending[i] = "exit"

TakeChunk(s, chunk, exited, target) ==
    LET known == ExitKnown(s, target)
        before == IF exited /\ ~known /\ chunk > NextSeq(s)
                  THEN PublishReady(Insert(s, NextSeq(s), "exit")) ELSE s
    IN IF chunk >= NextSeq(before) THEN PublishReady(Insert(before, chunk, "out")) ELSE before

(* The chunks are taken in the order of their numbers.                     *)
TakeChunks(chunks, exited, target) ==
    LET taken[n \in 0..target] ==
            IF n = 0 THEN State
            ELSE IF n \in chunks THEN TakeChunk(taken[n - 1], n, exited, target)
            ELSE taken[n - 1]
    IN taken[target]

FirstMissing(s, target) == Min({i \in NextSeq(s)..target : i \notin DOMAIN s.pending})

Recovered(target) ==
    LET exited == \E i \in 1..target : log[i] = "exit"
        closed == \E i \in 1..target : log[i] = "closed"
        chunks == Retained(target)
        read == TakeChunks(chunks, exited, target)
        s == IF closed /\ ~ClosedIn(read) THEN Insert(read, target, "closed") ELSE read
        known == ExitKnown(s, target)
        missing == Cardinality((NextSeq(s)..target) \ DOMAIN s.pending)
    IN IF Over \/ target < NextSeq(State) THEN State
       ELSE IF closed /\ (\/ target \in DOMAIN pending /\ pending[target] # "closed"
                          \/ target \in chunks)
       THEN [State EXCEPT !.error = TRUE]
       ELSE IF s.error THEN s
       ELSE IF exited /\ ~known
       THEN IF missing # 1 THEN [s EXCEPT !.error = TRUE]
            ELSE PublishReady(Insert(s, FirstMissing(s, target), "exit"))
       ELSE IF missing # 0 THEN [s EXCEPT !.error = TRUE]
       ELSE PublishReady(s)

-----------------------------------------------------------------------------
(* The client's recovery. *)

(* The reader of a connection that broke has handled what had arrived:     *)
(* request_recovery.                                                       *)
ReaderEnds(c) ==
    /\ c \in reading \ up /\ net[c] = <<>>
    /\ reading' = reading \ {c}
    /\ IF status = "connected" /\ current = c
       THEN status' = "recovering" /\ recovery' = "starts"
       ELSE UNCHANGED <<status, recovery>>
    /\ UNCHANGED <<load, session, process, input, transport, call, current, candidate, events, starting,
                   write>>

(* wait_for_process_starts.                                                *)
StartsAreDone ==
    /\ recovery = "starts" /\ start # "calling"
    /\ recovery' = "dial"
    /\ UNCHANGED <<load, session, process, input, transport, call, status, current, candidate, reading,
                   events, starting, write>>

Dial ==
    /\ recovery = "dial" /\ opened < load.conns
    /\ LET c == opened + 1 IN
       /\ opened' = c /\ up' = up \cup {c} /\ served' = served \cup {c}
       /\ reading' = reading \cup {c}
       /\ candidate' = c
       /\ Send("recover", c)
    /\ recovery' = "init"
    /\ UNCHANGED <<load, session, process, input, net, status, current, events, starting, write>>

(* fail, and fail_all_sessions.                                            *)
GiveUp ==
    /\ status' = "failed" /\ recovery' = "idle" /\ candidate' = None
    /\ registered' = FALSE
    /\ IF registered THEN Fail(State) ELSE UNCHANGED <<published, pending, failure>>

(* The initialize request was answered.                                    *)
Resumed ==
    /\ recovery = "init" /\ Answered("recover")
    /\ CASE call["recover"].answer = "ok" ->
                 /\ IF registered /\ recoverable
                    THEN recovery' = "read" /\ Send("recover", candidate)
                    ELSE recovery' = "install" /\ Done("recover")
                 /\ UNCHANGED <<status, up, net, reading, candidate, events>>
         [] call["recover"].answer = "attached" ->
                 /\ recovery' = "dial" /\ Done("recover") /\ Hangup(candidate)
                 /\ candidate' = None
                 /\ UNCHANGED <<status, events>>
         [] OTHER -> GiveUp /\ Done("recover") /\ Hangup(candidate)
    /\ UNCHANGED <<load, session, process, input, opened, served, current, starting, write>>

(* The read was answered.  A session that cannot be recovered is ended,    *)
(* but first its process.                                                  *)
Reconcile ==
    LET s == Recovered(call["recover"].events) IN
    /\ recovery = "read" /\ Answered("recover")
    /\ IF call["recover"].answer = "unknown"
       THEN /\ recovery' = "terminate" /\ Send("recover", candidate)
            /\ UNCHANGED events
       ELSE /\ published' = s.published /\ pending' = s.pending /\ UNCHANGED failure
            /\ IF s.error
               THEN /\ recovery' = "terminate" /\ Send("recover", candidate)
                    /\ UNCHANGED registered
               ELSE /\ recovery' = "install" /\ Done("recover")
                    /\ registered' = (registered /\ ~ClosedIn(s))
    /\ UNCHANGED <<load, session, process, input, transport, status, current, reading, candidate,
                   starting, write>>

Terminated ==
    /\ recovery = "terminate" /\ Answered("recover")
    /\ registered' = FALSE
    /\ Fail(State)
    /\ recovery' = "install" /\ Done("recover")
    /\ UNCHANGED <<load, session, process, input, transport, status, current, reading, candidate,
                   starting, write>>

(* Faulty variant: the connection is not looked at again.                  *)
InstallUnchecked ==
    /\ recovery = "install"
    /\ status' = "connected" /\ current' = candidate /\ recovery' = "idle"
    /\ candidate' = None
    /\ UNCHANGED <<load, session, process, input, transport, call, reading, events, starting,
                   write>>

(* install_recovered_client refuses a connection that is already broken.   *)
Install ==
    /\ recovery = "install"
    /\ IF candidate \in up
       THEN status' = "connected" /\ current' = candidate /\ recovery' = "idle"
       ELSE recovery' = "dial" /\ UNCHANGED <<status, current>>
    /\ candidate' = None
    /\ UNCHANGED <<load, session, process, input, transport, call, reading, events, starting,
                   write>>

RecoveryBreaks ==
    /\ recovery \in {"init", "read", "terminate"} /\ Broken("recover")
    /\ recovery' = "dial" /\ candidate' = None /\ Done("recover")
    /\ UNCHANGED <<load, session, process, input, transport, status, current, reading, events,
                   starting, write>>

(* SESSION_RECOVERY_TIMEOUT, wherever the recovery waits.                  *)
TimeOut ==
    /\ recovery \in {"starts", "dial", "init", "read", "terminate"}
    /\ load.late \/ opened = load.conns
    /\ GiveUp
    /\ IF candidate # None
       THEN Hangup(candidate) /\ Done("recover")
       ELSE UNCHANGED <<up, net, reading, call>>
    /\ UNCHANGED <<load, session, process, input, opened, served, current, starting, write>>

-----------------------------------------------------------------------------
(* The client's calls. *)

(* start_process: the caller may have gone when the answer comes, and the  *)
(* process is then terminated again, as when the connection broke.         *)
Started ==
    /\ start = "calling" /\ Answered("start")
    /\ \E kept \in BOOLEAN :
       IF call["start"].answer = "ok"
       THEN /\ start' = IF kept THEN "ok" ELSE "cleanup"
            /\ recoverable' = kept /\ UNCHANGED registered
       ELSE /\ start' = "failed" /\ registered' = FALSE /\ UNCHANGED recoverable
    /\ Done("start")
    /\ UNCHANGED <<load, session, process, input, transport, client,
                   published, pending, failure, write>>

(* Faulty variant: the process is not terminated.                          *)
StartForgotten ==
    /\ start = "calling" /\ Broken("start")
    /\ start' = "failed" /\ registered' = FALSE /\ Done("start")
    /\ UNCHANGED <<load, session, process, input, transport, client, published, pending, failure,
                   recoverable, write>>

StartBreaks ==
    /\ start = "calling" /\ Broken("start")
    /\ start' = "cleanup" /\ Done("start")
    /\ UNCHANGED <<load, session, process, input, transport, client,
                   events, recoverable, write>>

(* cleanup_process_start.                                                  *)
CleanUp ==
    /\ start = "cleanup" /\ call["cleanup"] = NoCall /\ Usable
    /\ Send("cleanup", current)
    /\ UNCHANGED <<load, session, process, input, transport, client, events,
                   starting, write>>

CleanedUp ==
    /\ start = "cleanup"
    /\ Answered("cleanup") \/ status = "failed"
    /\ start' = "failed" /\ registered' = FALSE /\ Done("cleanup")
    /\ UNCHANGED <<load, session, process, input, transport, client,
                   published, pending, failure, recoverable, write>>

CleanUpBreaks ==
    /\ Broken("cleanup") /\ status # "failed"
    /\ Done("cleanup")
    /\ UNCHANGED <<load, session, process, input, transport, client,
                   events, starting, write>>

(* Session::write, again with the same id when the connection broke.       *)
Write(w) ==
    /\ start = "ok" /\ w \in load.writes /\ write[w] = "begin" /\ call[w] = NoCall /\ Usable
    /\ Send(w, current)
    /\ UNCHANGED <<load, session, process, input, transport, client, events,
                   starting, write>>

Written(w) ==
    /\ Answered(w)
    /\ write' = [write EXCEPT ![w] = IF call[w].answer = "ok" THEN "accepted" ELSE "refused"]
    /\ Done(w)
    /\ UNCHANGED <<load, session, process, input, transport, client,
                   events, starting>>

WriteBreaks(w) ==
    /\ Broken(w)
    /\ write' = IF status = "failed" THEN [write EXCEPT ![w] = "refused"] ELSE write
    /\ Done(w)
    /\ UNCHANGED <<load, session, process, input, transport, client,
                   events, starting>>

-----------------------------------------------------------------------------
(* The client has connected and called process/start.                      *)
Init ==
    /\ load \in Loads
    /\ held = TRUE /\ attached = 1 /\ detached = None /\ expired = FALSE /\ timers = {}
    /\ sender = 1
    /\ proc = "absent" /\ killed = FALSE /\ log = <<>>
    /\ doing = [t \in Emitters |-> "none"] /\ holding = [t \in Emitters |-> 0]
    /\ open = {t \in Streams : load.chunks[t] > 0}
    /\ chunksLeft = [t \in Emitters |-> IF t \in Streams THEN load.chunks[t] ELSE 0]
    /\ stdin = <<>> /\ writeIds = <<>>
    /\ opened = 1 /\ up = {1} /\ served = {1} /\ net = [c \in Conns |-> <<>>]
    /\ call = [k \in Callers |-> IF k = "start" THEN [NoCall EXCEPT !.conn = 1, !.stage = "sent"]
                                 ELSE NoCall]
    /\ status = "connected" /\ current = 1 /\ reading = {1}
    /\ recovery = "idle" /\ candidate = None
    /\ registered = TRUE /\ recoverable = FALSE
    /\ published = <<>> /\ pending = <<>> /\ failure = FALSE
    /\ start = "calling" /\ write = [w \in Writes |-> "begin"]

(* What the process does, and when a connection breaks.                    *)
Environment ==
    \/ \E t \in Streams : Output(t) \/ EndOfStream(t)
    \/ Exit
    \/ \E c \in Conns : Break(c)

Server ==
    \/ \E t \in Emitters : Notify(t) \/ MaybeEmitClosed(t)
    \/ Forget
    \/ \E c \in Conns : Detach(c) \/ Expire(c)
    \/ DeadlinePasses
    \/ ServeResume \/ ServeStart \/ Spawned \/ ServeRead
    \/ \E w \in Writes : ServeWrite(w)
    \/ \E k \in {"cleanup", "recover"} : ServeTerminate(k)

Client ==
    \/ \E c \in Conns : Receive(c) \/ ReaderEnds(c)
    \/ StartsAreDone \/ Dial \/ Resumed \/ Reconcile \/ Terminated \/ Install
    \/ RecoveryBreaks \/ TimeOut
    \/ Started \/ StartBreaks \/ CleanUp \/ CleanedUp \/ CleanUpBreaks
    \/ \E w \in Writes : Write(w) \/ Written(w) \/ WriteBreaks(w)

Next == Environment \/ Server \/ Client

Spec == Init /\ [][Next]_vars

-----------------------------------------------------------------------------
(* Properties. *)

Kinds == {"out", "exit", "closed"}

TypeOK ==
    /\ load \in Loads
    /\ held \in BOOLEAN /\ attached \in Conns \cup {None} /\ detached \in Conns \cup {None}
    /\ expired \in BOOLEAN /\ timers \subseteq Conns /\ sender \in Conns \cup {None}
    /\ proc \in {"absent", "starting", "running", "gone"} /\ killed \in BOOLEAN
    /\ log \in Seq(Kinds)
    /\ doing \in [Emitters -> {"none", "run", "notify", "close", "last", "done"}]
    /\ holding \in [Emitters -> 0..Len(log)]
    /\ open \subseteq Streams /\ chunksLeft \in [Emitters -> Nat]
    /\ stdin \in Seq(Writes) /\ writeIds \in Seq(Writes)
    /\ opened \in Conns /\ up \subseteq 1..opened /\ served \subseteq 1..opened
    /\ net \in [Conns -> Seq(1..Len(log))]
    /\ call \in [Callers -> [conn : Conns \cup {None},
                             stage : {"none", "sent", "spawning", "replied", "lost"},
                             answer : {"none", "ok", "unknown", "attached"},
                             events : 0..Len(log)]]
    /\ status \in {"connected", "recovering", "failed"} /\ current \in Conns
    /\ reading \subseteq Conns /\ candidate \in Conns \cup {None}
    /\ recovery \in {"idle", "starts", "dial", "init", "read", "terminate", "install"}
    /\ registered \in BOOLEAN /\ recoverable \in BOOLEAN
    /\ published \in Seq(Kinds) /\ DOMAIN pending \subseteq 1..Len(log)
    /\ failure \in BOOLEAN
    /\ start \in {"calling", "ok", "cleanup", "failed"}
    /\ write \in [Writes -> {"begin", "accepted", "refused"}]

Evicted(i) == log[i] = "out" /\ i \notin Retained(Len(log))

(* What is published under a number is the server's event of that number,  *)
(* whatever was lost, repeated or out of order, unless that was a chunk    *)
(* that the server no longer had.                                          *)
EventsFaithful ==
    /\ Len(published) <= Len(log)
    /\ \A i \in DOMAIN published : published[i] = log[i] \/ Evicted(i)

(* "Keep future events here until all lower sequence numbers have been     *)
(* published": the events published are those of the server, in order.     *)
PublishedInOrder == IsPrefix(published, log)

(* A write is made once however often it is asked for, and it was made if  *)
(* it was acknowledged.                                                    *)
StdinOnce ==
    /\ \A i, j \in DOMAIN stdin : stdin[i] = stdin[j] => i = j
    /\ \A w \in Writes : write[w] = "accepted" => Contains(stdin, w)

(* A session that is attached is held, its process is not shut down, and   *)
(* its events go to the connection attached.                               *)
SessionHeld ==
    /\ sender = attached
    /\ attached # None => held
    /\ proc = "gone" => Closed \/ ~held

(* A process whose start failed, as far as the client knows, is not left   *)
(* running.                                                                *)
NoOrphan ==
    start = "failed" /\ held /\ status # "failed" =>
        proc \in {"absent", "gone"} \/ killed \/ Exited

(* Every broken connection is replaced or given up, and a session lasts no *)
(* longer than its process: until that is so, one of the two programs has  *)
(* something to do, even if the process does nothing more.                 *)
Settled ==
    /\ status = "failed" \/ Usable
    /\ registered => start = "ok" /\ proc = "running" /\ ~Closed
NeverStuck == Settled \/ ENABLED (Server \/ Client)
=============================================================================
