------------------------------ MODULE RolloutLog ------------------------------
(***************************************************************************)
(* What the rollout of a thread promises to who reads it: a log to which   *)
(* records are only ever appended, and from which nothing that was         *)
(* acknowledged is missing.  They are in the order in which they were made *)
(* unless two writers have shared the log.  The last record may be         *)
(* appended again: who appended it may not know that it was.               *)
(***************************************************************************)
EXTENDS Naturals, Sequences, Functions

CONSTANT Rec      \* the records, numbered in the order they were made

VARIABLES log, promised, shared

Init == log = <<>> /\ promised = {} /\ shared = FALSE

AppendRecord(r) ==
    /\ ~shared' /\ log # <<>> => r >= log[Len(log)]
    /\ log' = Append(log, r)
    /\ shared' \in BOOLEAN /\ (shared => shared')
    /\ UNCHANGED promised

Share == shared' = TRUE /\ UNCHANGED <<log, promised>>

Acknowledge ==
    /\ UNCHANGED <<log, shared>>
    /\ promised \subseteq promised' /\ promised' \subseteq Range(log)

Next == Acknowledge \/ Share \/ \E r \in Rec : AppendRecord(r)

Spec == Init /\ [][Next]_<<log, promised, shared>>
=============================================================================
