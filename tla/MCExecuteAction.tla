-------------------------- MODULE MCExecuteAction --------------------------
(***************************************************************************)
(* Instances of ExecuteAction for TLC: the tenant's catalog with and       *)
(* without an arrival step, and the workers, keys and movements as         *)
(* interchangeable values.                                                 *)
(***************************************************************************)
EXTENDS ExecuteAction, TLC

FourSteps   == {"start", "transit", "arrived", "complete"}
ThreeSteps  == {"start", "transit", "complete"}
WithCancel  == FourSteps \cup {"cancel"}
FirstSteps  == {"start", "transit"}
OneStep     == {"start"}

\* No portal, no edits; and a dispatcher who only ever cancels.
None       == {}
CancelOnly == {"Cancelled"}
Misleading == {"Completed", "Scheduled"}

Interchangeable ==
    Permutations(Workers) \cup Permutations(Keys) \cup Permutations(Movements)
        \cup Permutations(Portals) \cup Permutations(FormKeys)
=============================================================================
