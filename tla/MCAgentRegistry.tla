---------------------------- MODULE MCAgentRegistry ----------------------------
(***************************************************************************)
(* Small instances of AgentRegistry: what is called, each call once and in *)
(* any order.                                                              *)
(***************************************************************************)
EXTENDS AgentRegistry

CONSTANTS t1, t2, t3, root, p1, p2, Ada, Bob, none

C(op, t, p) == [op |-> op, by |-> 1, thread |-> t, path |-> p,
                names |-> {Ada, Bob}, prefers |-> none]
Again(c) == [c EXCEPT !.by = 2]
Named(c, n) == [c EXCEPT !.prefers = n]
Only(c, n) == [c EXCEPT !.names = {n}]

(* A session whose agents are restored while new ones are spawned: two     *)
(* want the same path, one is limited, and one is closed.                  *)
CallSpawn == {Named(C("Restore", t1, p1), <<Ada, 0>>), C("Spawn", t2, p1),
              Only(C("Spawn", t3, none), Ada), C("Close", t1, none)}

(* A message finds the root dead while its children register it.           *)
CallRoot == {Named(C("Restore", t1, p1), <<Ada, 0>>), C("Spawn", t2, p1),
             C("Message", root, none)}

(* Two agents of the tree resume the same closed agent.                    *)
CallResume == {C("Resume", t1, none), Again(C("Resume", t1, none)),
               C("Close", t1, none)}

(* An agent is resumed whose own spawn, or a close, is still about it.     *)
CallReturn == {Only(C("Spawn", t3, none), Ada), Only(C("Resume", t3, none), Bob),
               C("Close", t3, none)}

(* More agents are spawned and resumed than there may be; nobody closes.   *)
CallLimit == {C("Resume", t1, none), Only(C("Spawn", t3, none), Ada),
              Only(C("Resume", t3, none), Bob)}

(* A closed agent is resumed twice at a path that a spawn wants too.       *)
CallRevive == {C("Resume", t1, p1), Again(C("Resume", t1, p1)), C("Spawn", t2, p1)}

Trees == {CallSpawn, CallRoot, CallResume, CallReturn, CallLimit, CallRevive}
AllCalls == UNION Trees
ResumesOnly == {CallResume}
=============================================================================
