---------------------------- MODULE OneTurnAtATime ----------------------------
(***************************************************************************)
(* What a session promises about its turns, whatever locks, tasks and      *)
(* queues it is made of: at most one turn works at any time, a turn that   *)
(* has stopped working never works again, and its end is reported once.    *)
(* Turns that have stopped and wait to be reported may overlap with the    *)
(* one that works: on_task_finished releases the slot before it sends the  *)
(* terminal event.                                                         *)
(***************************************************************************)
CONSTANT Turn

VARIABLE phase   \* "waiting", "working", "ending" or "over", per turn

Init == phase = [t \in Turn |-> "waiting"]

Move(t, from, to) ==
    /\ phase[t] = from
    /\ phase' = [phase EXCEPT ![t] = to]

Begin(t) ==
    /\ \A u \in Turn : phase[u] # "working"
    /\ Move(t, "waiting", "working")

Stop(t) == Move(t, "working", "ending")

Report(t) == Move(t, "ending", "over")

Next == \E t \in Turn : Begin(t) \/ Stop(t) \/ Report(t)

Spec == Init /\ [][Next]_phase

(* A turn that works is stopped in the end, and then reported.             *)
FairSpec ==
    /\ Spec
    /\ \A t \in Turn : WF_phase(Stop(t)) /\ WF_phase(Report(t))
=============================================================================
