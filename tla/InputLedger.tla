------------------------------ MODULE InputLedger ------------------------------
(***************************************************************************)
(* What a session promises about the input it accepts: an item is promised *)
(* to one turn, or to whichever comes, and is then recorded once, by the   *)
(* turn it was promised to, or dropped; until then its sender may take it  *)
(* back.  What was recorded or dropped stays so.                           *)
(***************************************************************************)
CONSTANTS Item, Turn, NoTurn

VARIABLE fate    \* what has become of every item

New         == [at |-> "new", turns |-> {}]
Promised(t) == [at |-> "promised", turns |-> {t}]
Recorded(t) == [at |-> "recorded", turns |-> {t}]
Dropped     == [at |-> "dropped", turns |-> {}]

Init == fate = [i \in Item |-> New]

Accept(i) ==
    /\ fate[i] = New
    /\ \E t \in Turn \cup {NoTurn} : fate' = [fate EXCEPT ![i] = Promised(t)]

TakeBack(i) ==
    /\ \E t \in Turn : fate[i] = Promised(t)
    /\ fate' = [fate EXCEPT ![i] = New]

(* An injection that finds no turn is recorded as soon as it is accepted.  *)
RecordNow(i) ==
    /\ fate[i] = New
    /\ fate' = [fate EXCEPT ![i] = Recorded(NoTurn)]

(* A turn records, or drops, several items at once.                        *)
WaitingFor(t) == {i \in Item : fate[i] \in {Promised(t), Promised(NoTurn)}}

Settle(items, t) ==
    /\ items # {}
    /\ \E dropped \in SUBSET items :
         fate' = [i \in Item |-> CASE i \in dropped          -> Dropped
                                   [] i \in items \ dropped  -> Recorded(t)
                                   [] OTHER                  -> fate[i]]

Next ==
    \/ \E i \in Item : Accept(i) \/ TakeBack(i) \/ RecordNow(i)
    \/ \E t \in Turn : \E items \in SUBSET WaitingFor(t) : Settle(items, t)

Spec == Init /\ [][Next]_fate

(* An item promised to a turn by name is recorded or dropped in the end.   *)
SettleOne(i) ==
    \E t \in Turn :
        /\ fate[i] = Promised(t)
        /\ \E items \in SUBSET WaitingFor(t) : i \in items /\ Settle(items, t)

FairSpec ==
    /\ Spec
    /\ \A i \in Item : WF_fate(SettleOne(i))
=============================================================================
