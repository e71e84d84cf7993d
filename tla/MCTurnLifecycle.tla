--------------------------- MODULE MCTurnLifecycle ---------------------------
(***************************************************************************)
(* Small instances of TurnLifecycle.  A set of requests bounds a behaviour:*)
(* each is made at most once, in any order.  Turn is large enough that no  *)
(* start ever waits for an id.                                             *)
(***************************************************************************)
EXTENDS TurnContract

Req(name, item) == [op |-> name, item |-> item]

(* A user and one client: turns replace one another and are interrupted.   *)
OpUser == {Req("UserInput", "u1"), Req("UserInput", "u2"), Req("Steer", "s1"),
           Req("Interrupt", "i1")}

(* One turn that is steered and interrupted, and a steer that is taken     *)
(* back.                                                                   *)
OpSteer == {Req("UserInput", "u1"), Req("Steer", "s1"), Req("CancelSteer", "s1"),
            Req("Interrupt", "i1")}

(* The other kinds of task, one replacing another, and the session's end.  *)
OpTasks == {Req("Compact", "c1"), Req("Review", "r1"), Req("Shell", "h1"),
            Req("Steer", "s1"), Req("Shutdown", "x1")}

(* A sub-agent's session: mail that asks for a turn, mail that does not,   *)
(* and a paired delivery (stage, release, wake).                           *)
OpMail == {Req("TriggerMail", "m1"), Req("QueueMail", "q1"), Req("StageMail", "m2"),
           Req("ReleaseMail", "m2"), Req("StartPendingWork", "w1")}

(* Mail that asks for a turn, beside an extension that goes on with its    *)
(* goal whenever the session is idle.                                      *)
OpMailAndGoal == {Req("TriggerMail", "m1"), Req("IdleStart", "g1")}

(* An idle start that may lose its reservation to an interrupt.            *)
OpIdle == {Req("IdleStart", "g1"), Req("InjectIfRunning", "j1"),
           Req("Interrupt", "i1")}

(* An idle start beside user input.                                        *)
OpIdleAndUser == {Req("IdleStart", "g1"), Req("UserInput", "u1")}

(* Mail for a turn that is interrupted.                                    *)
OpMailAndInterrupt == {Req("UserInput", "u1"), Req("TriggerMail", "m1"),
                       Req("Interrupt", "i1")}

(* What each run makes together.                                           *)
Sessions == {OpUser, OpTasks, OpMail, OpIdle}
AllOps == UNION Sessions
Fair == {OpSteer, OpMailAndGoal}
FairOps == UNION Fair
IdleUser == {OpIdleAndUser}
Stranded == {OpMailAndInterrupt}
=============================================================================
