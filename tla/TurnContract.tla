----------------------------- MODULE TurnContract -----------------------------
(***************************************************************************)
(* TurnLifecycle implements OneTurnAtATime and InputLedger: the refinement *)
(* mappings, and what is checked of them.                                  *)
(***************************************************************************)
EXTENDS TurnLifecycle

(* A turn works while its task runs, until the loop has taken it out of    *)
(* the slot to abort it or the task has taken itself out; where the slot   *)
(* points is not part of the mapping.                                      *)
PhaseOf(t) ==
    CASE Running(t) /\ ~Aborting(t)                        -> "working"
      [] ~Running(t) /\ Ends(t) = 1                        -> "over"
      [] pc[t] \in {"unused", "queued", "rejected"}        -> "waiting"
      [] OTHER                                             -> "ending"

OneTurn == INSTANCE OneTurnAtATime WITH phase <- [t \in Turn |-> PhaseOf(t)]

(* The turns by which, or for which, an item is in a set of pairs.         *)
TurnsIn(pairs, i) == {p[2] : p \in {q \in pairs : q[1] = i}}

FateOf(i) ==
    CASE TurnsIn(recorded, i) # {} ->
           [at |-> "recorded", turns |-> TurnsIn(recorded, i)]
      [] TurnsIn(recorded, i) = {} /\ i \in ItemsIn(accepted) /\ i \in discarded ->
           [at |-> "dropped", turns |-> {}]
      [] TurnsIn(recorded, i) = {} /\ i \in ItemsIn(accepted) /\ i \notin discarded ->
           [at |-> "promised", turns |-> TurnsIn(accepted, i)]
      [] OTHER -> [at |-> "new", turns |-> {}]

Ledger == INSTANCE InputLedger WITH fate <- [i \in Item |-> FateOf(i)]

(* No interleaving of the loop, the tasks and the requests lets two turns  *)
(* work at once, revives one that has stopped, or reports one twice or     *)
(* before it stopped (start_task, abort_all_tasks, on_task_finished).      *)
TurnsOneAtATime == OneTurn!Spec

(* And every turn that works is stopped and reported.                      *)
TurnsEndInOrder == OneTurn!FairSpec

(* Input is recorded once, by the turn whose id was given to its sender,   *)
(* and is never recorded after it was dropped or taken back; what was      *)
(* accepted for a named turn does not wait for ever: that turn records it, *)
(* or its end drops it (steer_input, cancel_pending_steer,                 *)
(* get_pending_input, clear_pending).                                      *)
InputSettled == Ledger!FairSpec
=============================================================================
