------------------------- MODULE MovementLifecycle -------------------------
(***************************************************************************)
(* What the execute endpoint promises about an empty move: the steps of    *)
(* the tenant's catalog happen one at a time, in catalog order, each once, *)
(* under increasing log numbers, and none is ever taken back.              *)
(***************************************************************************)
EXTENDS EmptyMoveWorkflow

CONSTANT Movements

VARIABLE history    \* the steps taken by each movement, as [no, act] records

Init == history = [m \in Movements |-> {}]

\* The catalog steps before a.
Before(a) == {b \in Catalog : Order[b] < Order[a]}

\* Movement m takes step a, under a number later than all it has.
Advance(m, a) ==
    /\ {h.act : h \in history[m]} = Before(a)
    /\ \E new \in history'[m] :
          /\ new.act = a
          /\ \A h \in history[m] : h.no < new.no
          /\ history' = [history EXCEPT ![m] = @ \cup {new}]

Next == \E m \in Movements, a \in Catalog : Advance(m, a)

Spec == Init /\ [][Next]_history
=============================================================================
