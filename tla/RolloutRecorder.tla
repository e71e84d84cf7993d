---------------------------- MODULE RolloutRecorder ----------------------------
(***************************************************************************)
(* The rollout of one thread: the JSONL file its history is appended to,   *)
(* the writer task that owns the file while the thread is live, and the    *)
(* worker that compresses files nobody has written to for a week.  Writes  *)
(* may fail after part of a line, the process may die at any step, and a   *)
(* thread is resumed from what the file then holds: also while the writer  *)
(* task of a recorder that was discarded is not through with its channel.  *)
(*                                                                         *)
(* rollout/src/recorder.rs, ordinal.rs, compression.rs;                    *)
(* thread-store/src/local/live_writer.rs, thread_history.rs,               *)
(* thread_history_materialization.rs.                                      *)
(***************************************************************************)
EXTENDS Integers, Sequences, SequencesExt, FiniteSets

CONSTANTS
    Threads,       \* the kinds of thread: their history mode, and how many
                   \* records a child copies from its parent before its own
    OrdinalMax,    \* u64::MAX
    MaxItem, MaxQueue, MaxInode, MaxFaults, MaxCrashes,  \* bounds of a behaviour
    FileRaces      \* whether a recorder may meet the worker's unlink, or part
                   \* of a line of another writer, at the file it has open

ASSUME SettingAssumption ==
    /\ Threads \subseteq [paginated : BOOLEAN, inherited : Nat]
    /\ \A t \in Threads : t.inherited > 0 => t.paginated
    /\ OrdinalMax \in Nat /\ FileRaces \in BOOLEAN

ASSUME BoundAssumption ==
    /\ MaxItem \in Nat /\ MaxQueue \in Nat /\ MaxInode \in Nat
    /\ MaxFaults \in Nat /\ MaxCrashes \in Nat

(* Items are numbered in the order in which the session records them; the  *)
(* session's metadata is the first record of a file.                       *)
Item == 1..MaxItem
SessionMeta == 0
NoFile == 0
NoOrdinal == -1

(* What an append leaves: a whole line, one without its newline (which     *)
(* parses all the same), or a fragment that does not.                      *)
Line == [item : Item \cup {SessionMeta}, ordinal : Int, whole : BOOLEAN, ended : BOOLEAN]

VARIABLES
    thread,     \* which of Threads this one is
    inode,      \* the contents of every file of this thread ever created
    plain, zst, \* which of them .jsonl and .jsonl.zst name
    up,         \* the thread is live: its recorder is in live_recorders
    fd,         \* RolloutWriterState.writer: the file held open
    deferred,   \* deferred_log_file_info.is_some()
    metaDue,    \* meta.is_some()
    pending,    \* pending_items
    next,       \* ordinal_state
    queue,      \* the channel to the writer task
    step,       \* where the writer task is, and on which attempt
    attempt,
    cmd,        \* the command it handles
    old,        \* the writer of a discarded recorder beside a resumed one
    offset, rows, \* the SQLite projection: lines consumed, items projected
    job,        \* the compression worker: where it is, what it saw
    recorded,   \* history: items accepted so far
    taken,      \* history: items this recorder took off its channel
    acked,      \* history: items a successful barrier covered
    shared,     \* history: two writers appended to the file
    faults,     \* failed writes, and lives cut short: crashes and discards
    crashes

fileVars   == <<inode, plain, zst>>
writerVars == <<fd, deferred, metaDue, pending, next, step, attempt, cmd>>
sqlVars    == <<offset, rows>>
history    == <<recorded, taken, acked>>
handed     == <<old, shared>>
bounds     == <<thread, faults, crashes>>
vars == <<fileVars, up, writerVars, queue, handed, sqlVars, job, history, bounds>>

(* SessionMeta.history_mode says whether records carry ordinals,           *)
(* subagent_history_start_ordinal where a child's own records begin: only  *)
(* a paginated child copies records (core/src/session/session.rs).         *)
Paginated == thread.paginated
Inherited == thread.inherited

-----------------------------------------------------------------------------
(* Files. *)

(* The elements of s at the indexes in J, in their order: SelectSeq by the *)
(* indexes that it keeps, which mostly are all of them.                    *)
Nth(J, i) == CHOOSE j \in J : Cardinality({k \in J : k <= j}) = i
Selected(s, J) ==
    IF J = DOMAIN s THEN s ELSE [i \in 1..Cardinality(J) |-> s[Nth(J, i)]]

Ended(content) == content = <<>> \/ Last(content).ended

(* What a reader makes of a file: lines that do not parse are skipped.     *)
WholeLines(content) == {j \in DOMAIN content : content[j].whole}
Records(content) == Selected(content, WholeLines(content))
ItemsIn(content) == {content[j].item : j \in WholeLines(content)}
Items(lines) == [i \in DOMAIN lines |-> lines[i].item]

(* An append to a line that was not ended runs into it.                    *)
Appended(content, line) ==
    IF Ended(content) THEN Append(content, line)
    ELSE Append(Front(content), [line EXCEPT !.whole = FALSE])

(* Faulty variant: appending starts wherever the file ends.                *)
RepairedNever(content) == content

(* ensure_rollout_is_newline_terminated                                    *)
Repaired(content) ==
    IF Ended(content) THEN content
    ELSE Append(Front(content), [Last(content) EXCEPT !.ended = TRUE])

(* Readers prefer the plain file.                                          *)
Readable ==
    CASE plain # NoFile -> inode[plain]
      [] plain = NoFile /\ zst # NoFile -> inode[zst]
      [] OTHER -> <<>>

(* Faulty variant: the compressed file is not looked at.                   *)
OpenPlainAfresh(keepsCompressed) ==
    IF plain # NoFile
    THEN /\ inode' = [inode EXCEPT ![plain] = Repaired(@)]
         /\ UNCHANGED <<plain, zst>>
    ELSE /\ Len(inode) < MaxInode
         /\ inode' = Append(inode, <<>>)
         /\ plain' = Len(inode) + 1
         /\ zst' = IF keepsCompressed THEN zst ELSE NoFile

(* materialize_rollout_for_append_blocking, create(true) and the newline:  *)
(* which file is plain afterwards, and what it holds.                      *)
OpenPlain(keepsCompressed) ==
    IF plain # NoFile
    THEN /\ inode' = [inode EXCEPT ![plain] = Repaired(@)]
         /\ UNCHANGED <<plain, zst>>
    ELSE /\ Len(inode) < MaxInode
         /\ inode' = Append(inode, Repaired(Readable))
         /\ plain' = Len(inode) + 1
         /\ zst' = IF keepsCompressed THEN zst ELSE NoFile

-----------------------------------------------------------------------------
(* The session's side of the channel. *)

Add(i) == [op |-> "Add", item |-> i]
Barrier(op) == [op |-> op, item |-> SessionMeta]
NoCommand == Barrier("none")

(* append_items records and flushes.  A child is not used before what it   *)
(* inherits is durable; one that is resumed is taken to be complete.       *)
AppendItem ==
    LET i == recorded + 1 IN
    /\ up
    /\ i \in Item
    /\ i > Inherited /\ crashes = 0 => 1..Inherited \subseteq acked
    /\ Len(queue) < MaxQueue
    /\ recorded' = i
    /\ queue' = queue \o <<Add(i), Barrier("Flush")>>
    /\ UNCHANGED <<fileVars, up, writerVars, handed, sqlVars, job, taken, acked, bounds>>

Request(op) ==
    /\ up
    /\ Len(queue) < MaxQueue
    /\ queue' = Append(queue, Barrier(op))
    /\ UNCHANGED <<fileVars, up, writerVars, handed, sqlVars, job, history, bounds>>

-----------------------------------------------------------------------------
(* The writer task. *)

IsDeferred == fd = NoFile /\ deferred

(* Persist, flush and shutdown write what is pending; an added item is     *)
(* flushed at once unless the file does not exist yet.                     *)
Receive ==
    /\ step = "recv" /\ queue # <<>>
    /\ LET c == Head(queue)
           held == IF c.op = "Add" THEN Append(pending, c.item) ELSE pending
           nothingToDo == IsDeferred /\ (c.op = "Add" \/ (held = <<>> /\ c.op # "Persist"))
       IN
       /\ queue' = Tail(queue)
       /\ cmd' = c
       /\ pending' = held
       /\ attempt' = 1
       /\ step' = IF nothingToDo THEN "answer" ELSE "open"
       /\ taken' = IF c.op = "Add" THEN taken \cup {c.item} ELSE taken
    /\ UNCHANGED <<fileVars, up, fd, deferred, metaDue, next, handed, sqlVars, job,
                   recorded, acked, bounds>>

(* Faulty variant: every failed attempt is followed by another one.        *)
RecoverAlways ==
    /\ fd' = NoFile
    /\ attempt' = attempt + 1
    /\ step' = "open"
    /\ UNCHANGED cmd

(* enter_recovery_mode drops the handle; write_pending_with_recovery tries *)
(* once more and then reports the error to who asked.                      *)
Recover ==
    /\ fd' = NoFile
    /\ IF attempt = 1
       THEN attempt' = 2 /\ step' = "open" /\ UNCHANGED cmd
       ELSE attempt' = 1 /\ step' = "recv" /\ cmd' = NoCommand

Fault == faults < MaxFaults /\ faults' = faults + 1

EnsureWriterOpen ==
    /\ step = "open"
    /\ step' = "meta"
    /\ IF fd # NoFile
       THEN UNCHANGED <<fileVars, fd, deferred>>
       ELSE /\ OpenPlain(FALSE)
            /\ fd' = plain'
            /\ deferred' = FALSE
    /\ UNCHANGED <<up, metaDue, pending, next, attempt, cmd, queue, handed, sqlVars, job,
                   history, bounds>>

(* open_log_file fails at once, or after it made the file, maybe leaving   *)
(* the compressed one beside it.                                           *)
OpenFails ==
    /\ step = "open" /\ fd = NoFile
    /\ Fault
    /\ \/ UNCHANGED fileVars
       \/ OpenPlain(TRUE)
    /\ Recover
    /\ UNCHANGED <<up, deferred, metaDue, pending, next, queue, handed, sqlVars,
                   job, history, thread, crashes>>

(* write_rollout_item of the metadata and of each pending item.            *)
Due == IF step = "meta" THEN SessionMeta ELSE Head(pending)
HasDue == (step = "meta" /\ metaDue) \/ (step = "items" /\ pending # <<>>)
Exhausted == Paginated /\ next > OrdinalMax

Record(whole, ended) ==
    [item |-> Due, ordinal |-> next, whole |-> whole, ended |-> ended]

WriteTo(file, line) == inode' = [inode EXCEPT ![file] = Appended(@, line)]

WriteItem ==
    /\ HasDue /\ ~Exhausted
    /\ WriteTo(fd, Record(TRUE, TRUE))
    /\ next' = IF Paginated THEN next + 1 ELSE next
    /\ IF step = "meta"
       THEN metaDue' = FALSE /\ step' = "items" /\ UNCHANGED pending
       ELSE pending' = Tail(pending) /\ UNCHANGED <<metaDue, step>>
    /\ UNCHANGED <<plain, zst, up, fd, deferred, attempt, cmd, queue, handed, sqlVars, job,
                   history, bounds>>

(* Faulty variant: the item whose write failed is not kept.                *)
WriteFailsDropsItem ==
    /\ HasDue
    /\ \/ Exhausted /\ UNCHANGED <<inode, faults>>
       \/ /\ ~Exhausted /\ Fault
          /\ \/ UNCHANGED inode
             \/ \E whole \in BOOLEAN : WriteTo(fd, Record(whole, FALSE))
    /\ Recover
    /\ pending' = IF step = "items" THEN Tail(pending) ELSE pending
    /\ UNCHANGED <<plain, zst, up, deferred, metaDue, next, queue, handed, sqlVars, job,
                   history, thread, crashes>>

(* Faulty variant: a failed write uses up its ordinal.                     *)
WriteFailsSkipsOrdinal ==
    /\ HasDue
    /\ \/ Exhausted /\ UNCHANGED <<inode, faults>>
       \/ /\ ~Exhausted /\ Fault
          /\ \/ UNCHANGED inode
             \/ \E whole \in BOOLEAN : WriteTo(fd, Record(whole, FALSE))
    /\ Recover
    /\ next' = IF Paginated THEN next + 1 ELSE next
    /\ UNCHANGED <<plain, zst, up, deferred, metaDue, pending, queue, handed, sqlVars, job,
                   history, thread, crashes>>

(* A failed write keeps the item, and its ordinal, for the next attempt.   *)
WriteFails ==
    /\ HasDue
    /\ \/ Exhausted /\ UNCHANGED <<inode, faults>>
       \/ /\ ~Exhausted /\ Fault
          /\ \/ UNCHANGED inode
             \/ \E whole \in BOOLEAN : WriteTo(fd, Record(whole, FALSE))
    /\ Recover
    /\ UNCHANGED <<plain, zst, up, deferred, metaDue, pending, next, queue, handed, sqlVars,
                   job, history, thread, crashes>>

WrittenAll ==
    /\ \/ step = "meta" /\ ~metaDue /\ step' = "items"
       \/ step = "items" /\ pending = <<>> /\ step' = "answer"
    /\ UNCHANGED <<fileVars, up, fd, deferred, metaDue, pending, next, attempt, cmd, queue,
                   handed, sqlVars, job, history, bounds>>

Idle == step = "recv" /\ queue = <<>>

(* The task has ended: its memory, and what is in its channel, is dropped. *)
Gone ==
    /\ fd' = NoFile /\ deferred' = FALSE /\ metaDue' = FALSE /\ pending' = <<>>
    /\ next' = NoOrdinal /\ step' = "recv" /\ attempt' = 1 /\ cmd' = NoCommand
    /\ queue' = <<>> /\ taken' = {}

(* The acknowledgement.  After a shutdown the task ends and the store      *)
(* forgets the recorder; the task of a recorder that was forgotten before  *)
(* ends when its channel is empty.                                         *)
Answer ==
    /\ step = "answer"
    /\ acked' = IF cmd.op = "Add" THEN acked ELSE acked \cup taken
    /\ IF cmd.op = "Shutdown" \/ (~up /\ queue = <<>>)
       THEN up' = FALSE /\ Gone
       ELSE /\ step' = "recv" /\ attempt' = 1 /\ cmd' = NoCommand
            /\ UNCHANGED <<up, fd, deferred, metaDue, pending, next, queue, taken>>
    /\ UNCHANGED <<fileVars, handed, sqlVars, job, recorded, bounds>>

WriterStep ==
    \/ Receive \/ EnsureWriterOpen \/ OpenFails \/ WriteItem \/ WriteFails
    \/ WrittenAll \/ Answer

-----------------------------------------------------------------------------
(* The recorder is discarded, or the process dies; and the thread is       *)
(* resumed.                                                                *)

(* The store forgets the recorder of a thread that failed to start, or     *)
(* whose items were not all appended.  Its writer goes on with what is in  *)
(* the channel, and ends at once if there is nothing.                      *)
Discard ==
    /\ up /\ crashes < MaxCrashes
    /\ crashes' = crashes + 1
    /\ up' = FALSE
    /\ IF Idle THEN Gone ELSE UNCHANGED <<writerVars, queue, taken>>
    /\ UNCHANGED <<fileVars, handed, sqlVars, job, recorded, acked, thread, faults>>

(* What the writer of a discarded recorder has yet to write when the       *)
(* thread is resumed: the file it has open or is about to open, the        *)
(* ordinal it has come to, and its records.                                *)
NoWriter == [file |-> NoFile, next |-> NoOrdinal, items |-> <<>>]

AddsIn(q) == Items(Selected(q, {j \in DOMAIN q : q[j].op = "Add"}))
Left ==
    IF Idle THEN <<>>
    ELSE (IF metaDue THEN <<SessionMeta>> ELSE <<>>) \o pending \o AddsIn(queue)

(* It appends beside its successor, from an ordinal that its successor may *)
(* have used, until it is through or its writes fail.                      *)
OldAppends(whole, ended) ==
    /\ old # NoWriter
    /\ Paginated => old.next <= OrdinalMax
    /\ ~FileRaces => Ended(inode[old.file])
    /\ WriteTo(old.file, [item |-> Head(old.items), ordinal |-> old.next,
                          whole |-> whole, ended |-> ended])
    /\ shared' = TRUE

OldWrites ==
    /\ OldAppends(TRUE, TRUE)
    /\ old' = IF Len(old.items) = 1 THEN NoWriter
              ELSE [old EXCEPT !.next = IF Paginated THEN @ + 1 ELSE @, !.items = Tail(@)]
    /\ UNCHANGED <<plain, zst, up, writerVars, queue, sqlVars, job, history, bounds>>

OldStops ==
    /\ old # NoWriter
    /\ \/ UNCHANGED <<inode, shared, faults>>
       \/ FileRaces /\ Fault /\ \E whole \in BOOLEAN : OldAppends(whole, FALSE)
    /\ old' = NoWriter
    /\ UNCHANGED <<plain, zst, up, writerVars, queue, sqlVars, job, history, thread,
                   crashes>>

(* A write under way may leave a part of its line.                         *)
Crash ==
    /\ up \/ ~Idle \/ old # NoWriter
    /\ crashes < MaxCrashes
    /\ crashes' = crashes + 1
    /\ \/ UNCHANGED <<inode, shared>>
       \/ /\ HasDue /\ ~Exhausted
          /\ \E whole \in BOOLEAN : WriteTo(fd, Record(whole, FALSE))
          /\ UNCHANGED shared
       \/ \E whole \in BOOLEAN : OldAppends(whole, FALSE)
    /\ up' = FALSE /\ Gone /\ old' = NoWriter
    /\ UNCHANGED <<plain, zst, sqlVars, job, recorded, acked, thread, faults>>

(* RolloutRecorder::new with Resume needs a history that names its thread, *)
(* and a file that starts with the session's metadata; a child whose       *)
(* inherited records are not all there is refused.                         *)
StartsWithMeta(content) ==
    content # <<>> /\ Head(content).whole /\ Head(content).item = SessionMeta

LastOrdinal(content) == Last(Records(content)).ordinal

(* Faulty variant: how much a child inherited is not looked at.            *)
CanAppendToAny(content) == StartsWithMeta(content)

CanAppendTo(content) ==
    StartsWithMeta(content) /\ (Paginated => LastOrdinal(content) >= Inherited)

(* No look is taken at whether a discarded writer is still at work.  One   *)
(* of them at a time is enough to have two writers.                        *)
Resume ==
    /\ ~up
    /\ Left # <<>> => old = NoWriter
    /\ SessionMeta \in ItemsIn(Readable)
    /\ OpenPlain(FALSE)
    /\ LET content == inode'[plain'] IN
       IF CanAppendTo(content)
       THEN /\ up' = TRUE
            /\ fd' = plain'
            /\ next' = IF Paginated THEN LastOrdinal(content) + 1 ELSE NoOrdinal
            /\ deferred' = FALSE /\ metaDue' = FALSE
            /\ pending' = <<>> /\ taken' = {} /\ queue' = <<>>
            /\ step' = "recv" /\ attempt' = 1 /\ cmd' = NoCommand
            /\ old' = IF Left = <<>> THEN old
                      ELSE [file |-> IF fd # NoFile THEN fd ELSE plain', next |-> next,
                            items |-> Left]
       ELSE UNCHANGED <<up, writerVars, taken, queue, old>>
    /\ UNCHANGED <<shared, sqlVars, job, recorded, acked, bounds>>

-----------------------------------------------------------------------------
(* materialize_to_sqlite, under the store's lock for the thread: the lines *)
(* that are complete and not consumed yet.  Rows and offset are written in *)
(* one transaction, which may fail.                                        *)
OwnLines(content, lines) ==
    {j \in WholeLines(content) \cap lines : content[j].item > Inherited}
Complete(content) == IF Ended(content) THEN Len(content) ELSE Len(content) - 1
Unprojected(content) ==
    Items(Selected(content, OwnLines(content, offset + 1..Complete(content))))

(* Faulty variant: the offset may be lost, the rows having been written.   *)
ProjectInTwo ==
    LET content == inode[plain] IN
    /\ Paginated
    /\ up => Idle
    /\ plain # NoFile
    /\ offset < Complete(content)
    /\ SessionMeta \in ItemsIn(content)
    /\ rows' = rows \o Unprojected(content)
    /\ offset' \in {offset, Complete(content)}
    /\ UNCHANGED <<fileVars, up, writerVars, queue, handed, job, history, bounds>>

Project ==
    LET content == inode[plain] IN
    /\ Paginated
    /\ up => Idle
    /\ plain # NoFile
    /\ offset < Complete(content)
    /\ SessionMeta \in ItemsIn(content)
    /\ rows' = rows \o Unprojected(content)
    /\ offset' = Complete(content)
    /\ UNCHANGED <<fileVars, up, writerVars, queue, handed, job, history, bounds>>

-----------------------------------------------------------------------------
(* The compression worker. *)

NoJob == [at |-> "idle", file |-> NoFile, seen |-> <<>>, copy |-> <<>>]
JobGoto(place) == job' = [job EXCEPT !.at = place]
Unwritten == plain = job.file /\ inode[plain] = job.seen

(* compress_rollout_if_cold_blocking: a week without a write, and no       *)
(* compressed file yet.                                                    *)
JobStat ==
    /\ job.at = "idle"
    /\ plain # NoFile /\ zst = NoFile
    /\ Idle /\ old = NoWriter
    /\ Len(inode) < MaxInode
    /\ job' = [at |-> "encode", file |-> plain, seen |-> inode[plain], copy |-> <<>>]
    /\ UNCHANGED <<fileVars, up, writerVars, queue, handed, sqlVars, history, bounds>>

JobEncode ==
    /\ job.at = "encode"
    /\ plain # NoFile
    /\ job' = [job EXCEPT !.at = "persist", !.copy = inode[plain]]
    /\ UNCHANGED <<fileVars, up, writerVars, queue, handed, sqlVars, history, bounds>>

(* Both the first look at the file and persist_noclobber.                  *)
JobPersist ==
    /\ job.at = "persist"
    /\ IF Unwritten /\ zst = NoFile
       THEN /\ inode' = Append(inode, job.copy)
            /\ zst' = Len(inode) + 1
            /\ JobGoto("check")
       ELSE job' = NoJob /\ UNCHANGED <<inode, zst>>
    /\ UNCHANGED <<plain, up, writerVars, queue, handed, sqlVars, history, bounds>>

JobCheck ==
    /\ job.at = "check"
    /\ IF Unwritten THEN JobGoto("unlink") /\ UNCHANGED zst
                    ELSE job' = NoJob /\ zst' = NoFile
    /\ UNCHANGED <<inode, plain, up, writerVars, queue, handed, sqlVars, history, bounds>>

JobUnlink ==
    /\ job.at = "unlink"
    /\ ~FileRaces => fd # plain /\ old.file # plain /\ Unwritten
    /\ plain' = NoFile
    /\ job' = NoJob
    /\ UNCHANGED <<inode, zst, up, writerVars, queue, handed, sqlVars, history, bounds>>

(* An error, or the end of the worker's process: its temporary file goes,  *)
(* a compressed file that it already put in place stays.                   *)
JobFails ==
    /\ job.at # "idle"
    /\ job' = NoJob
    /\ UNCHANGED <<fileVars, up, writerVars, queue, handed, sqlVars, history, bounds>>

WorkerStep == JobStat \/ JobEncode \/ JobPersist \/ JobCheck \/ JobUnlink \/ JobFails

-----------------------------------------------------------------------------
(* A new thread: its file is made when it is first needed.                 *)
Init ==
    /\ thread \in Threads
    /\ inode = <<>> /\ plain = NoFile /\ zst = NoFile
    /\ up = TRUE
    /\ fd = NoFile /\ deferred = TRUE /\ metaDue = TRUE
    /\ pending = <<>>
    /\ next = IF Paginated THEN 0 ELSE NoOrdinal
    /\ step = "recv" /\ attempt = 1 /\ cmd = NoCommand
    /\ queue = <<>>
    /\ old = NoWriter /\ shared = FALSE
    /\ offset = 0 /\ rows = <<>>
    /\ job = NoJob
    /\ recorded = 0 /\ taken = {} /\ acked = {}
    /\ faults = 0 /\ crashes = 0

Next ==
    \/ AppendItem
    \/ Request("Persist") \/ Request("Flush") \/ Request("Shutdown")
    \/ WriterStep
    \/ Discard \/ OldWrites \/ OldStops
    \/ Crash \/ Resume \/ Project
    \/ WorkerStep

Spec == Init /\ [][Next]_vars

-----------------------------------------------------------------------------
(* Properties. *)

Command == [op : {"Add", "Persist", "Flush", "Shutdown", "none"}, item : Item \cup {SessionMeta}]

TypeOK ==
    /\ thread \in Threads
    /\ inode \in Seq(Seq(Line))
    /\ plain \in 0..Len(inode) /\ zst \in 0..Len(inode) /\ fd \in 0..Len(inode)
    /\ up \in BOOLEAN /\ deferred \in BOOLEAN /\ metaDue \in BOOLEAN
    /\ pending \in Seq(Item) /\ queue \in Seq(Command) /\ cmd \in Command
    /\ next \in Int /\ attempt \in 1..2
    /\ step \in {"recv", "open", "meta", "items", "answer"}
    /\ offset \in Nat /\ rows \in Seq(Item)
    /\ job \in [at : {"idle", "encode", "persist", "check", "unlink"}, file : Nat,
                seen : Seq(Line), copy : Seq(Line)]
    /\ old \in [file : 0..Len(inode), next : Int, items : Seq(Item \cup {SessionMeta})]
    /\ shared \in BOOLEAN
    /\ recorded \in 0..MaxItem /\ taken \subseteq Item /\ acked \subseteq Item
    /\ faults \in 0..MaxFaults /\ crashes \in 0..MaxCrashes

(* What a barrier acknowledged is in the file that a reader opens, also    *)
(* after failed writes, crashes and compression: "Flush writes any rollout *)
(* records already queued ... and ensures they are durably persisted".     *)
AckedReadable == acked \subseteq ItemsIn(Readable)

(* While the thread is live, what its writer took off the channel is in    *)
(* the file or still pending.                                              *)
TakenKept ==
    up => taken \subseteq ItemsIn(Readable) \cup {pending[i] : i \in DOMAIN pending}

(* An ordinal names one record for ever: no two items share one, and they  *)
(* follow one another without a gap.  Only two writers at the file at once *)
(* can end that: "Writer handoff can leave duplicate or non-monotonic      *)
(* source ordinals" (thread_history.rs).                                   *)
OrdinalsFollow ==
    LET r == Records(Readable) IN
    Paginated /\ ~shared =>
        \A i \in DOMAIN r :
            IF i = 1 THEN r[i].ordinal = 0
            ELSE r[i].ordinal = IF r[i].item = r[i - 1].item THEN r[i - 1].ordinal
                                ELSE r[i - 1].ordinal + 1

(* A child's own records come after all it inherited, also when it died    *)
(* while copying them.                                                     *)
InheritedFirst ==
    (\E i \in ItemsIn(Readable) : i > Inherited) => 1..Inherited \subseteq ItemsIn(Readable)

(* The projection holds each own record of the lines it consumed, once and *)
(* in the file's order: it may lag behind the file but is never ahead.     *)
ProjectionExact ==
    rows = Items(Selected(Readable, OwnLines(Readable, 1..offset)))

(* To a reader the file is a log that only grows, whatever fails between   *)
(* the writes and whichever file stands for it.                            *)
LogOf(content) == Selected(Items(content), WholeLines(content))

Log == INSTANCE RolloutLog WITH
    Rec <- Item \cup {SessionMeta}, log <- LogOf(Readable), promised <- acked

KeepsItsLog == Log!Spec
=============================================================================
