--------------------------- MODULE MCOrderPayment ---------------------------
(***************************************************************************)
(* Instances of OrderPayment for TLC: payment methods for the orders, and  *)
(* the workers and transactions as interchangeable values.                 *)
(***************************************************************************)
EXTENDS OrderPayment, TLC

None == {}
Interchangeable == Permutations(Workers) \cup Permutations(Txns)
=============================================================================
