---------------------------- MODULE MCExecSessions ----------------------------
(* Small instances of ExecSessions: what each execution has to do is one   *)
(* of a few loads.                                                         *)
EXTENDS ExecSessions

Load(chunks, ws, keep, room, conns, late) ==
    [chunks |-> [t \in Streams |-> IF t = "stdout" THEN chunks ELSE 0], writes |-> ws,
     keep |-> keep, room |-> room, conns |-> conns, late |-> late]

(* Output, with room for all of it and with room for none; two writes;     *)
(* timers.                                                                 *)
MixedLoads ==
    {Load(1, {}, 1, 1, 2, FALSE), Load(1, {}, 0, 0, 2, FALSE), Load(0, Writes, 0, 1, 2, FALSE),
     Load(0, {}, 0, 1, 3, TRUE)}

(* Less is retained than was missed.                                       *)
Chatty == {Load(2, {}, 1, 1, 2, FALSE)}
=============================================================================
