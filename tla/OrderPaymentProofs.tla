------------------------- MODULE OrderPaymentProofs -------------------------
(***************************************************************************)
(* Theorems about OrderPayment, for any number of orders, payment          *)
(* transactions and workers, and whatever the width of invoice numbers.    *)
(***************************************************************************)
EXTENDS OrderPayment, WellFoundedInduction, TLAPS

-----------------------------------------------------------------------------
(***************************************************************************)
(* The last invoice                                                        *)
(***************************************************************************)

\* A set of numbers below a bound has a greatest one.
LEMMA BoundedHasGreatest ==
    ASSUME NEW bound \in Nat, NEW S \in SUBSET (0 .. bound), S # {}
    PROVE  \E x \in S : \A y \in S : x >= y
<1> DEFINE T == {bound - x : x \in S}
<1>0. \A x \in S : x \in 0 .. bound
  OBVIOUS
<1>1. T \subseteq Nat /\ T # {}
  <2>1. \A x \in S : bound - x \in Nat
    BY <1>0
  <2> QED BY <2>1
<1>2. \E n \in T : \A k \in T : ~ (<<k, n>> \in OpToRel(<, Nat))
  BY <1>1, NatLessThanWellFounded, WFMin
<1>3. PICK n \in T : \A k \in T : ~ (<<k, n>> \in OpToRel(<, Nat))
  BY <1>2
<1>4. \A k \in T : ~ (k < n)
  BY <1>1, <1>3 DEF OpToRel
<1>5. PICK x \in S : n = bound - x
  OBVIOUS
<1>6. \A y \in S : x >= y
  BY <1>0, <1>4, <1>5
<1> QED BY <1>6

LEMMA LastInvoiceType == TypeOK => LastInvoice \in Nat
<1> SUFFICES ASSUME TypeOK PROVE LastInvoice \in Nat
  OBVIOUS
<1> DEFINE S == {0} \cup ({i.no : i \in invoices} \cap 0 .. LastPadded)
<1>1. S \in SUBSET (0 .. LastPadded) /\ S # {}
  BY PaymentAssumption
<1>2. \E x \in S : \A y \in S : x >= y
  BY <1>1, BoundedHasGreatest, PaymentAssumption
<1>3. Max(S) \in S
  BY <1>2 DEF Max
<1> QED BY <1>1, <1>3, PaymentAssumption DEF LastInvoice

-----------------------------------------------------------------------------
(***************************************************************************)
(* Types                                                                   *)
(***************************************************************************)

\* The steps of a payment that are about a transaction, and those from which
\* the order is fulfilled.
Reviewing  == {"order", "complete", "complete_only", "paid", "reject", "reject_order",
               "heal"}
Fulfilling == {"fulfil", "provision", "invoice", "number", "commit"}

\* A worker that is at work works on an order; from some steps on it has a
\* transaction, which is there if it is reviewed, and from some on the row of
\* the tenant.
Typed(w) ==
    /\ pc[w] # "idle" => ord[w] \in Orders
    /\ pc[w] \in Reviewing \cup Fulfilling => pay[w] \in Txns
    /\ pc[w] \in Reviewing => txn[pay[w]] # Nothing
    /\ pc[w] \in {"number", "commit"} => row[w] \in [Orders -> Nat]

TypeInv == TypeOK /\ \A w \in Workers : Typed(w)

LEMMA TypeInit == Init => TypeInv
BY PaymentAssumption DEF Init, TypeInv, TypeOK, Typed, Reviewing, Fulfilling

LEMMA PaymentType ==
    ASSUME NEW o \in Orders, NEW s \in TxnStatuses
    PROVE  /\ Payment(o, s) \in Payments
           /\ Payment(o, s).order = o /\ Payment(o, s).status = s
BY DEF Payment, Payments

\* A transaction that is there has an order and a status.
LEMMA TxnType ==
    ASSUME TypeOK, NEW t \in Txns, txn[t] # Nothing
    PROVE  txn[t] \in Payments /\ txn[t].order \in Orders /\ txn[t].status \in TxnStatuses
BY DEF TypeOK, Payments

\* The rows and the locks have their types.
RowsTyped ==
    /\ order \in [Orders -> OrderStatuses \cup {Nothing}]
    /\ txn \in [Txns -> Payments \cup {Nothing}]
    /\ invoices \in SUBSET [no : Nat \ {0}, order : Orders]
    /\ tenant \in [Orders -> Nat]

\* They have them after a step, in which no transaction disappears.
RowsStep == RowsTyped' /\ \A t \in Txns : txn[t] # Nothing => txn'[t] # Nothing

LocksTyped ==
    /\ orderLock \in [Orders -> Workers \cup {Free}]
    /\ txnLock \in [Txns -> Workers \cup {Free}]

LEMMA EndType ==
    ASSUME TypeInv, NEW w \in Workers, End(w), RowsStep PROVE TypeInv'
BY DEF TypeInv, TypeOK, Typed, End, RowsStep, RowsTyped, Reviewing, Fulfilling

LEMMA GotoType ==
    ASSUME TypeInv, NEW w \in Workers, NEW step, Goto(w, step), RowsStep, LocksTyped',
           pc[w] # "idle",
           \/ step \in {"draft", "submit", "sync", "insert", "lock", "settle", "cancel",
                        "void"}
           \/ step \in Reviewing /\ pc[w] \in Reviewing
           \/ /\ step \in {"fulfil", "provision", "invoice"}
              /\ pc[w] \in Reviewing \cup Fulfilling
    PROVE  TypeInv'
BY DEF TypeInv, TypeOK, Typed, Goto, local, RowsStep, RowsTyped, LocksTyped, Reviewing, Fulfilling

LEMMA BeginType ==
    ASSUME TypeInv, NEW w \in Workers, NEW h \in Handlers, NEW o \in Orders,
           NEW t \in Txns \cup {Nothing}, NEW step, Begin(w, h, o, t, step),
           RowsStep, LocksTyped',
           \/ step \in {"draft", "submit", "sync", "lock", "cancel"}
           \/ step \in Reviewing /\ t \in Txns /\ txn[t] # Nothing
    PROVE  TypeInv'
BY DEF TypeInv, TypeOK, Typed, Begin, RowsStep, RowsTyped, LocksTyped, Reviewing, Fulfilling

LEMMA SaveOrderType ==
    ASSUME TypeInv, NEW o \in Orders, NEW s \in OrderStatuses, SaveOrder(o, s)
    PROVE  RowsStep
BY DEF TypeInv, TypeOK, SaveOrder, RowsStep, RowsTyped

LEMMA SaveTxnsType ==
    ASSUME TypeInv, NEW changed, \A t \in changed : t \in Txns /\ txn[t] # Nothing,
           NEW s \in TxnStatuses, SaveTxns(changed, s)
    PROVE  RowsStep
<1>1. \A t \in changed : Payment(txn[t].order, s) \in Payments
  BY PaymentType, TxnType DEF TypeInv
<1> QED BY <1>1, PaymentAssumption DEF TypeInv, TypeOK, SaveTxns, RowsStep, RowsTyped

\* A payment is inserted, or saved, as a whole.
LEMMA TxnSavedType ==
    ASSUME TypeInv, NEW t \in Txns, NEW o \in Orders, NEW s \in TxnStatuses,
           txn' = [txn EXCEPT ![t] = Payment(o, s)]
    PROVE  /\ txn' \in [Txns -> Payments \cup {Nothing}]
           /\ \A u \in Txns : txn[u] # Nothing => txn'[u] # Nothing
BY PaymentType, PaymentAssumption DEF TypeInv, TypeOK

LEMMA UnchangedType ==
    /\ TypeInv /\ UNCHANGED rows => RowsStep
    /\ TypeInv /\ UNCHANGED locks => LocksTyped'
BY DEF TypeInv, TypeOK, rows, locks, RowsStep, RowsTyped, LocksTyped

LEMMA TypeNext == TypeInv /\ [Next]_vars => TypeInv'
<1> SUFFICES ASSUME TypeInv, [Next]_vars PROVE TypeInv'
  OBVIOUS
<1> USE DEF Handlers
<1>1. ASSUME NEW w \in Workers, NEW o \in Orders, Create(w, o) PROVE TypeInv'
  <2>1. RowsStep
    BY <1>1, TxnSavedType
    DEF Create, Fresh, RowsStep, RowsTyped, TypeInv, TypeOK, OrderStatuses, TxnStatuses
  <2>2. CASE UNCHANGED <<pc, local>>
    BY <1>1, <2>1, <2>2
    DEF Create, local, locks, RowsStep, RowsTyped, TypeInv, TypeOK, Typed, Reviewing,
        Fulfilling
  <2>3. CASE Begin(w, "create", o, Nothing, "lock")
    BY <1>1, <2>1, <2>3, BeginType, UnchangedType DEF Create
  <2> QED BY <1>1, <2>2, <2>3 DEF Create
<1>2. ASSUME NEW w \in Workers, NEW o \in Orders, Renew(w, o) PROVE TypeInv'
  <2>1. RowsStep
    BY <1>2 DEF Renew, RowsStep, RowsTyped, TypeInv, TypeOK, OrderStatuses
  <2> QED BY <1>2, <2>1, BeginType, UnchangedType DEF Renew
<1>3. ASSUME NEW w \in Workers, NEW o \in Orders,
             Submit(w, o) \/ MarkPaid(w, o) \/ Cancel(w, o)
      PROVE  TypeInv'
  BY <1>3, BeginType, UnchangedType DEF Submit, MarkPaid, Cancel
<1>4. ASSUME NEW w \in Workers, NEW t \in Txns, Approve(w, t) \/ Reject(w, t) \/ View(w, t)
      PROVE  TypeInv'
  <2>1. txn[t] # Nothing /\ txn[t].order \in Orders
    BY <1>4, TxnType DEF Approve, Reject, View, TypeInv
  <2> QED
    BY <1>4, <2>1, BeginType, UnchangedType DEF Approve, Reject, View, Reviewing
<1>5. ASSUME NEW w \in Workers, Draft(w) \/ SaveSubmitted(w) PROVE TypeInv'
  <2>1. RowsStep
    BY <1>5, SaveOrderType DEF Draft, SaveSubmitted, TypeInv, Typed, OrderStatuses
  <2> QED
    BY <1>5, <2>1, EndType, GotoType, UnchangedType DEF Draft, SaveSubmitted
<1>6. ASSUME NEW w \in Workers, pc[w] # "idle", RowsStep, Synced(w) PROVE TypeInv'
  BY <1>6, EndType, GotoType, UnchangedType DEF Synced
<1>7. ASSUME NEW w \in Workers, Sync(w) PROVE TypeInv'
  BY <1>6, <1>7, GotoType, UnchangedType DEF Sync
<1>8. ASSUME NEW w \in Workers, Insert(w) PROVE TypeInv'
  <2>1. RowsStep
    BY <1>8, TxnSavedType
    DEF Insert, Fresh, RowsStep, RowsTyped, TypeInv, TypeOK, Typed, TxnStatuses
  <2> QED BY <1>6, <1>8, <2>1 DEF Insert
<1>9. ASSUME NEW w \in Workers, LockOrder(w) PROVE TypeInv'
  <2>1. LocksTyped'
    BY <1>9 DEF LockOrder, LocksTyped, TypeInv, TypeOK
  <2> QED BY <1>9, <2>1, GotoType, UnchangedType DEF LockOrder
<1>10. ASSUME NEW w \in Workers, Settle(w) PROVE TypeInv'
  <2> DEFINE o == ord[w]
             usable == IF Of(o) = {} THEN Fresh
                       ELSE {t \in Pending(o) : txnLock[t] = Free}
  <2>1. o \in Orders /\ usable \subseteq Txns
    BY <1>10 DEF Settle, TypeInv, Typed, Of, Pending, Fresh
  <2>2. CASE End(w) /\ UNCHANGED rows
    BY <2>2, EndType, UnchangedType
  <2>3. ASSUME NEW t \in usable, txn' = [txn EXCEPT ![t] = Payment(o, "Pending")],
               End(w), UNCHANGED <<order, invoices, tenant>>
        PROVE  TypeInv'
    <3>1. RowsStep
      BY <2>1, <2>3, TxnSavedType
      DEF RowsStep, RowsTyped, TypeInv, TypeOK, TxnStatuses
    <3> QED BY <2>3, <3>1, EndType
  <2>4. ASSUME NEW t \in usable, txnLock' = [txnLock EXCEPT ![t] = w],
               pay' = [pay EXCEPT ![w] = t],
               row' = [row EXCEPT ![w] = IF Of(o) = {} THEN tenant ELSE @],
               pc' = [pc EXCEPT ![w] = "fulfil"],
               UNCHANGED <<rows, orderLock, how, ord, num>>
        PROVE  TypeInv'
    BY <1>10, <2>1, <2>4
    DEF Settle, TypeInv, TypeOK, Typed, rows, Reviewing, Fulfilling
  <2> QED BY <1>10, <2>2, <2>3, <2>4 DEF Settle
<1>11. ASSUME NEW w \in Workers, Fulfil(w) PROVE TypeInv'
  BY <1>11, GotoType, UnchangedType DEF Fulfil, Fulfilling
<1>12. ASSUME NEW w \in Workers, Load(w) PROVE TypeInv'
  BY <1>12
  DEF Load, TypeInv, TypeOK, Typed, rows, locks, Reviewing, Fulfilling
<1>13. ASSUME NEW w \in Workers, Number(w) PROVE TypeInv'
  BY <1>13, LastInvoiceType
  DEF Number, TypeInv, TypeOK, Typed, rows, locks, Reviewing, Fulfilling
<1>14. ASSUME NEW w \in Workers, Commit(w) PROVE TypeInv'
  <2> DEFINE o == ord[w]
  <2>1. o \in Orders /\ pay[w] \in Txns /\ row[w] \in [Orders -> Nat] /\ num[w] \in Nat
    BY <1>14 DEF Commit, TypeInv, TypeOK, Typed, Fulfilling
  <2>2. CASE UNCHANGED rows
    BY <1>14, <2>2, EndType, UnchangedType DEF Commit
  <2>3. CASE ~NumberTaken(w)
    <3>1. invoices' \in SUBSET [no : Nat \ {0}, order : Orders]
      BY <1>14, <2>1, <2>3 DEF Commit, NumberTaken, rows, TypeInv, TypeOK
    <3>2. tenant' \in [Orders -> Nat]
      BY <1>14, <2>1, <2>3 DEF Commit, NumberTaken, rows
    <3>3. /\ txn' \in [Txns -> Payments \cup {Nothing}]
          /\ \A t \in Txns : txn[t] # Nothing => txn'[t] # Nothing
          /\ order' \in [Orders -> OrderStatuses \cup {Nothing}]
      BY <1>14, <2>1, <2>3, TxnSavedType
      DEF Commit, rows, TypeInv, TypeOK, TxnStatuses, OrderStatuses
    <3> QED
      BY <1>14, <3>1, <3>2, <3>3, EndType DEF Commit, RowsStep, RowsTyped
  <2> QED BY <1>14, <2>2, <2>3 DEF Commit
<1>15. ASSUME NEW w \in Workers, SaveCancelled(w) \/ SavePaid(w) PROVE TypeInv'
  <2>1. RowsStep
    BY <1>15, SaveOrderType DEF SaveCancelled, SavePaid, TypeInv, Typed, OrderStatuses
  <2> QED
    BY <1>15, <2>1, GotoType, UnchangedType DEF SaveCancelled, SavePaid, Reviewing
<1>16. ASSUME NEW w \in Workers, Void(w) PROVE TypeInv'
  BY <1>16, SaveTxnsType, EndType DEF Void, Pending, Of, TxnStatuses
<1>17. ASSUME NEW w \in Workers, ReadOrder(w) PROVE TypeInv'
  BY <1>17, EndType, GotoType, UnchangedType DEF ReadOrder, Reviewing
<1>18. ASSUME NEW w \in Workers, CompleteTxn(w) \/ Heal(w) PROVE TypeInv'
  <2>1. RowsStep
    BY <1>18, SaveTxnsType
    DEF CompleteTxn, Heal, TypeInv, Typed, Reviewing, TxnStatuses
  <2> QED
    BY <1>18, <2>1, EndType, GotoType, UnchangedType DEF CompleteTxn, Heal, Reviewing
<1>19. ASSUME NEW w \in Workers, LockTxn(w) PROVE TypeInv'
  <2>1. pay[w] \in Txns /\ txn[pay[w]] # Nothing /\ pc[w] = "reject"
    BY <1>19 DEF LockTxn, TypeInv, Typed, Reviewing
  <2>2. CASE End(w) /\ UNCHANGED rows
    BY <2>2, EndType, UnchangedType
  <2>3. CASE SaveTxns({pay[w]}, "Rejected") /\ End(w)
    BY <2>1, <2>3, SaveTxnsType, EndType DEF TxnStatuses
  <2>4. CASE /\ txnLock' = [txnLock EXCEPT ![pay[w]] = w]
             /\ Goto(w, "reject_order")
             /\ UNCHANGED <<rows, orderLock>>
    <3>1. LocksTyped'
      BY <2>1, <2>4 DEF LocksTyped, TypeInv, TypeOK
    <3> QED BY <2>1, <2>4, <3>1, GotoType, UnchangedType DEF Reviewing
  <2> QED BY <1>19, <2>2, <2>3, <2>4 DEF LockTxn
<1>20. ASSUME NEW w \in Workers, RejectOrder(w) PROVE TypeInv'
  <2>1. pay[w] \in Txns /\ txn[pay[w]] # Nothing
    BY <1>20 DEF RejectOrder, TypeInv, Typed, Reviewing
  <2>2. [txn[pay[w]] EXCEPT !.status = "Rejected"] \in Payments
    BY <2>1, TxnType DEF TypeInv, Payments, TxnStatuses
  <2>3. RowsStep
    BY <1>20, <2>1, <2>2, PaymentAssumption
    DEF RejectOrder, RowsStep, RowsTyped, TypeInv, TypeOK, OrderStatuses
  <2> QED BY <1>20, <2>3, EndType DEF RejectOrder
<1>21. ASSUME NEW w \in Workers, Fail(w) PROVE TypeInv'
  BY <1>21, EndType, UnchangedType DEF Fail
<1>22. CASE ListPaid \/ ListInvoiced
  <2>1. PICK healed \in SUBSET (UNION {Pending(o) : o \in Orders}) :
           SaveTxns(healed, "Completed")
    BY <1>22 DEF ListPaid, ListInvoiced, HealOrders
  <2>2. RowsStep
    BY <2>1, SaveTxnsType DEF Pending, Of, TxnStatuses
  <2> QED
    BY <1>22, <2>2
    DEF ListPaid, ListInvoiced, HealOrders, local, locks, RowsStep, RowsTyped, TypeInv, TypeOK, Typed, Reviewing,
        Fulfilling
<1>23. CASE UNCHANGED vars
  BY <1>23
  DEF vars, rows, locks, local, TypeInv, TypeOK, Typed, Reviewing, Fulfilling
<1> QED
  BY <1>1, <1>2, <1>3, <1>4, <1>5, <1>7, <1>8, <1>9, <1>10, <1>11, <1>12, <1>13, <1>14,
     <1>15, <1>16, <1>17, <1>18, <1>19, <1>20, <1>21, <1>22, <1>23
  DEF Next, Work

\* The rows, the locks and everything the workers hold keep their types.
THEOREM PaymentTypeCorrect == Spec => []TypeOK
<1>1. TypeInv => TypeOK
  BY DEF TypeInv
<1> QED BY <1>1, TypeInit, TypeNext, PTL DEF Spec
=============================================================================
