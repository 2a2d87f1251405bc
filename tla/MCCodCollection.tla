--------------------------- MODULE MCCodCollection ---------------------------
(* Values of the constants of CodCollection for model checking.            *)
EXTENDS CodCollection

\* The office credits a collected shipment, or debits the wallet.
CreditOrDebit ==
    {[ship |-> s, amount |-> 1] : s \in Unloaded}
        \cup {[ship |-> Nothing, amount |-> -1]}
=============================================================================
