--------------------------- MODULE MCAgentResidency ---------------------------
(***************************************************************************)
(* Small instances of AgentResidency.                                      *)
(***************************************************************************)
EXTENDS AgentResidency, TLC

CONSTANTS a1, a2, a3

Do(op, agent) == [op |-> op, agent |-> agent]

AllCalls ==
    "spawn a1" :> Do("spawn", a1) @@ "spawn a2" :> Do("spawn", a2) @@ "spawn a3" :> Do("spawn", a3)
    @@ "message a1" :> Do("message", a1) @@ "task a1" :> Do("followup", a1)
CallNames == DOMAIN AllCalls

(* Room for one of two agents: loading either unloads the other; and a     *)
(* task and a message to the same agent.                                   *)
Reloads == {{"spawn a1", "spawn a2", "task a1"}, {"spawn a1", "spawn a2", "message a1"},
            {"spawn a1", "task a1", "message a1"}}

(* Two agents are wanted where one is busy.                                *)
Crowded == {{"spawn a1", "spawn a2", "spawn a3"}}
=============================================================================
