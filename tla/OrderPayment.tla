---------------------------- MODULE OrderPayment ----------------------------
(***************************************************************************)
(* How a tenant's subscription orders are paid.  The control panel, the    *)
(* tenant's plan page and the renewal job write the same rows: the order,  *)
(* its payment transactions, its invoice, and the row of the tenant, which *)
(* holds the limits and the lifetime value that paid orders add to.        *)
(*                                                                         *)
(* Some handlers run in one transaction and lock the rows they are about   *)
(* to write, some save row by row and check a status they have loaded      *)
(* before, so each statement that another worker can come between is a     *)
(* step of its own.  What a transaction writes after its last read of a    *)
(* shared row is one step: the writes of others wait for it or fail.       *)
(***************************************************************************)
EXTENDS Naturals, FiniteSets, FiniteSetsExt

CONSTANTS
    Orders,        \* the orders of one tenant
    Txns,          \* bound: the payment transactions ever created
    Workers,       \* web workers and the renewal job
    Bank,          \* the orders paid by Offline_Bank; others are Online_Gateway
    Small,         \* the orders whose total is below the smallest charge
    LastPadded,    \* the last invoice number that fits its width, 9999
    Free,          \* no worker holds the lock
    Nothing        \* no order, no transaction, no row loaded

OrderStatuses == {"Draft", "Pending_Payment", "Paid", "Cancelled"}
TxnStatuses   == {"Pending", "Completed", "Failed", "Rejected"}
Payments      == [order : Orders, status : TxnStatuses]

ASSUME PaymentAssumption ==
    /\ Bank \subseteq Orders /\ Small \subseteq Orders
    /\ LastPadded \in Nat
    /\ IsFiniteSet(Txns)
    /\ Free \notin Workers
    /\ Nothing \notin Orders \cup Txns \cup OrderStatuses \cup Payments \cup [Orders -> Nat]

VARIABLES
    order,      \* SubscriptionOrder.order_status, or Nothing
    txn,        \* Transaction: its order and status, or Nothing
    invoices,   \* StandardInvoice: number and order
    tenant,     \* how often the tenant's row has been credited with each order
    orderLock, txnLock,    \* the worker that holds each row
    pc, how,    \* where each worker is, and in which handler
    ord, pay,   \* the order and the transaction it works on
    row, num    \* the tenant's row it has loaded, and its invoice number

rows  == <<order, txn, invoices, tenant>>
locks == <<orderLock, txnLock>>
local == <<how, ord, pay, row, num>>
vars  == <<rows, locks, pc, local>>

Handlers == {"renew", "create", "submit", "mark_paid", "cancel", "approve", "reject",
             "view"}

\* The transactions of order o, and those of them that are Pending.
Of(o)      == {t \in Txns : txn[t] # Nothing /\ txn[t].order = o}
Pending(o) == {t \in Of(o) : txn[t].status = "Pending"}

\* Mutant: a completed payment is marked as its order is.
PaymentPaid(o, s) ==
    [order |-> o, status |-> IF s = "Completed" THEN "Paid" ELSE s]

Payment(o, s) == [order |-> o, status |-> s]

Init ==
    /\ order = [o \in Orders |-> Nothing]
    /\ txn = [t \in Txns |-> Nothing]
    /\ invoices = {}
    /\ tenant = [o \in Orders |-> 0]
    /\ orderLock = [o \in Orders |-> Free]
    /\ txnLock = [t \in Txns |-> Free]
    /\ pc = [w \in Workers |-> "idle"]
    /\ how = [w \in Workers |-> Nothing]
    /\ ord = [w \in Workers |-> Nothing]
    /\ pay = [w \in Workers |-> Nothing]
    /\ row = [w \in Workers |-> Nothing]
    /\ num = [w \in Workers |-> 0]

-----------------------------------------------------------------------------

Goto(w, step) == pc' = [pc EXCEPT ![w] = step] /\ UNCHANGED local

\* Worker w begins handler h on order o, and transaction t if it is about one.
Begin(w, h, o, t, step) ==
    /\ pc[w] = "idle"
    /\ pc' = [pc EXCEPT ![w] = step]
    /\ how' = [how EXCEPT ![w] = h]
    /\ ord' = [ord EXCEPT ![w] = o]
    /\ pay' = [pay EXCEPT ![w] = t]
    /\ UNCHANGED <<row, num>>

\* Worker w is done: its transaction is over and its locks are released.
End(w) ==
    /\ pc' = [pc EXCEPT ![w] = "idle"]
    /\ how' = [how EXCEPT ![w] = Nothing]
    /\ ord' = [ord EXCEPT ![w] = Nothing]
    /\ pay' = [pay EXCEPT ![w] = Nothing]
    /\ row' = [row EXCEPT ![w] = Nothing]
    /\ num' = [num EXCEPT ![w] = 0]
    /\ orderLock' = [o \in Orders |-> IF orderLock[o] = w THEN Free ELSE orderLock[o]]
    /\ txnLock' = [t \in Txns |-> IF txnLock[t] = w THEN Free ELSE txnLock[t]]

\* An id that no transaction has, nor will have.
Fresh == {t \in Txns : txn[t] = Nothing /\ txnLock[t] = Free}

SaveOrder(o, s) ==
    /\ orderLock[o] = Free
    /\ order' = [order EXCEPT ![o] = s]
    /\ UNCHANGED <<txn, invoices, tenant>>

SaveTxns(changed, s) ==
    /\ \A t \in changed : txnLock[t] = Free
    /\ txn' = [t \in Txns |-> IF t \in changed THEN Payment(txn[t].order, s) ELSE txn[t]]
    /\ UNCHANGED <<order, invoices, tenant>>

-----------------------------------------------------------------------------
(***************************************************************************)
(* Orders come into being                                                  *)
(***************************************************************************)

\* The order form and the plan page save order and transaction together; an
\* online payment is then captured.
Create(w, o) ==
    /\ order[o] = Nothing
    /\ order' = [order EXCEPT ![o] = "Pending_Payment"]
    /\ \E t \in Fresh : txn' = [txn EXCEPT ![t] = Payment(o, "Pending")]
    /\ IF o \in Bank
       THEN pc[w] = "idle" /\ UNCHANGED <<pc, local>>
       ELSE Begin(w, "create", o, Nothing, "lock")
    /\ UNCHANGED <<invoices, tenant, locks>>

\* The renewal job saves the order first.  It captures the payment whatever
\* the method is; an order too small to charge becomes a draft.
Renew(w, o) ==
    /\ order[o] = Nothing
    /\ order' = [order EXCEPT ![o] = "Pending_Payment"]
    /\ Begin(w, "renew", o, Nothing, IF o \in Small THEN "draft" ELSE "sync")
    /\ UNCHANGED <<txn, invoices, tenant, locks>>

Draft(w) ==
    /\ pc[w] = "draft"
    /\ SaveOrder(ord[w], "Draft")
    /\ End(w)

\* A draft is submitted if it was one when it was loaded.
Submit(w, o) ==
    /\ order[o] = "Draft"
    /\ Begin(w, "submit", o, Nothing, "submit")
    /\ UNCHANGED <<rows, locks>>

SaveSubmitted(w) ==
    /\ pc[w] = "submit"
    /\ SaveOrder(ord[w], "Pending_Payment")
    /\ Goto(w, "sync")
    /\ UNCHANGED locks

\* A submitted online order and a renewal go on to the capture.
Synced(w) ==
    IF how[w] = "renew" \/ ord[w] \notin Bank
    THEN Goto(w, "lock") /\ UNCHANGED locks
    ELSE End(w)

\* sync_or_create_order_payment_transaction, on its own: is there none yet?
Sync(w) ==
    /\ pc[w] = "sync"
    /\ IF Of(ord[w]) = {} THEN Goto(w, "insert") /\ UNCHANGED locks ELSE Synced(w)
    /\ UNCHANGED rows

\* A transaction is created; it waits for a lock on its order.
Insert(w) ==
    /\ pc[w] = "insert"
    /\ orderLock[ord[w]] = Free
    /\ \E t \in Fresh : txn' = [txn EXCEPT ![t] = Payment(ord[w], "Pending")]
    /\ Synced(w)
    /\ UNCHANGED <<order, invoices, tenant>>

-----------------------------------------------------------------------------
(***************************************************************************)
(* Payment in one transaction: the capture, and Mark Paid                  *)
(***************************************************************************)

\* Mark Paid looks at the status before its transaction begins.
MarkPaid(w, o) ==
    /\ order[o] = "Pending_Payment"
    /\ Begin(w, "mark_paid", o, Nothing, "lock")
    /\ UNCHANGED <<rows, locks>>

LockOrder(w) ==
    /\ pc[w] = "lock"
    /\ orderLock[ord[w]] = Free
    /\ orderLock' = [orderLock EXCEPT ![ord[w]] = w]
    /\ Goto(w, "settle")
    /\ UNCHANGED <<rows, txnLock>>

\* Mutant: the transaction is looked for whatever its status.
SettleAny(w) ==
    /\ pc[w] = "settle"
    /\ \E t \in Of(ord[w]) :
          /\ txnLock[t] = Free
          /\ txnLock' = [txnLock EXCEPT ![t] = w]
          /\ pay' = [pay EXCEPT ![w] = t]
          /\ pc' = [pc EXCEPT ![w] = "fulfil"]
    /\ UNCHANGED <<rows, orderLock, how, ord, row, num>>

\* An order without a transaction gets one, and a Pending one is locked.  The
\* capture gives up on a total that is too small, Mark Paid on a bank
\* transfer without a receipt; a transaction they have created stays.
Settle(w) ==
    /\ pc[w] = "settle"
    /\ LET o == ord[w]
           usable == IF Of(o) = {} THEN Fresh ELSE {t \in Pending(o) : txnLock[t] = Free}
       IN  \/ /\ Of(o) # {} /\ Pending(o) = {}
              /\ End(w)
              /\ UNCHANGED rows
           \/ \E t \in usable :
                 /\ IF how[w] = "mark_paid" THEN o \in Bank ELSE o \in Small
                 /\ txn' = [txn EXCEPT ![t] = Payment(o, "Pending")]
                 /\ End(w)
                 /\ UNCHANGED <<order, invoices, tenant>>
           \/ \E t \in usable :
                 /\ how[w] = "mark_paid" \/ o \notin Small
                 /\ txnLock' = [txnLock EXCEPT ![t] = w]
                 /\ pay' = [pay EXCEPT ![w] = t]
                 /\ row' = [row EXCEPT ![w] = IF Of(o) = {} THEN tenant ELSE @]
                 /\ pc' = [pc EXCEPT ![w] = "fulfil"]
                 /\ UNCHANGED <<rows, orderLock, how, ord, num>>

-----------------------------------------------------------------------------
(***************************************************************************)
(* fulfill_paid_order                                                      *)
(***************************************************************************)

\* Mutant: nobody looks for an invoice.
FulfilAlways(w) ==
    /\ pc[w] = "fulfil"
    /\ Goto(w, "invoice")
    /\ UNCHANGED <<rows, locks>>

\* Has the order an invoice?  Either way the row of the tenant is loaded next.
Fulfil(w) ==
    /\ pc[w] = "fulfil"
    /\ Goto(w, IF \E i \in invoices : i.order = ord[w] THEN "provision" ELSE "invoice")
    /\ UNCHANGED <<rows, locks>>

\* The row of the tenant is loaded, unless it has been already.
Load(w) ==
    /\ pc[w] \in {"provision", "invoice"}
    /\ row' = [row EXCEPT ![w] = IF @ = Nothing THEN tenant ELSE @]
    /\ pc' = [pc EXCEPT ![w] = IF @ = "provision" THEN "commit" ELSE "number"]
    /\ UNCHANGED <<rows, locks, how, ord, pay, num>>

\* The last invoice by its text, within one year's prefix: 10000 comes before
\* 9999.
LastInvoice == Max({0} \cup ({i.no : i \in invoices} \cap 0 .. LastPadded))

Number(w) ==
    /\ pc[w] = "number"
    /\ num' = [num EXCEPT ![w] = LastInvoice + 1]
    /\ pc' = [pc EXCEPT ![w] = "commit"]
    /\ UNCHANGED <<rows, locks, how, ord, pay, row>>

NumberTaken(w) == \E i \in invoices : i.no = num[w]

\* Mutant: the invoice number is not unique.
CommitBlind(w) ==
    /\ pc[w] = "commit"
    /\ invoices' = IF num[w] = 0 THEN invoices
                   ELSE invoices \cup {[no |-> num[w], order |-> ord[w]]}
    /\ tenant' = [row[w] EXCEPT ![ord[w]] = @ + 1]
    /\ txn' = [txn EXCEPT ![pay[w]] = Payment(ord[w], "Completed")]
    /\ order' = [order EXCEPT ![ord[w]] = "Paid"]
    /\ End(w)

\* Everything is written.  The invoice number is unique, and a new invoice
\* waits for a lock on its order; the row of the tenant is saved as it was
\* loaded, with what this order adds.
Commit(w) ==
    /\ pc[w] = "commit"
    /\ LET o == ord[w]
       IN  /\ num[w] # 0 => orderLock[o] \in {w, Free}
           /\ \/ /\ NumberTaken(w)
                 /\ UNCHANGED rows
              \/ /\ ~NumberTaken(w)
                 /\ invoices' = IF num[w] = 0 THEN invoices
                                ELSE invoices \cup {[no |-> num[w], order |-> o]}
                 /\ tenant' = [row[w] EXCEPT ![o] = @ + 1]
                 /\ IF how[w] = "approve"
                    THEN UNCHANGED <<order, txn>>
                    ELSE /\ txn' = [txn EXCEPT ![pay[w]] = Payment(o, "Completed")]
                         /\ order' = [order EXCEPT ![o] = "Paid"]
    /\ End(w)

-----------------------------------------------------------------------------
(***************************************************************************)
(* Cancellation, and the review of bank transfers                          *)
(***************************************************************************)

Cancel(w, o) ==
    /\ order[o] \in {"Draft", "Pending_Payment"}
    /\ Begin(w, "cancel", o, Nothing, "cancel")
    /\ UNCHANGED <<rows, locks>>

SaveCancelled(w) ==
    /\ pc[w] = "cancel"
    /\ SaveOrder(ord[w], "Cancelled")
    /\ Goto(w, "void")
    /\ UNCHANGED locks

\* Mutant: all payments of the order are failed.
VoidAll(w) ==
    /\ pc[w] = "void"
    /\ SaveTxns(Of(ord[w]), "Failed")
    /\ End(w)

Void(w) ==
    /\ pc[w] = "void"
    /\ SaveTxns(Pending(ord[w]), "Failed")
    /\ End(w)

\* Approval checks what it has loaded, and saves row by row.
Approve(w, t) ==
    /\ txn[t] # Nothing /\ txn[t].status = "Pending" /\ txn[t].order \in Bank
    /\ Begin(w, "approve", txn[t].order, t, "order")
    /\ UNCHANGED <<rows, locks>>

ReadOrder(w) ==
    /\ pc[w] = "order"
    /\ CASE order[ord[w]] = "Pending_Payment" -> Goto(w, "complete") /\ UNCHANGED locks
         [] order[ord[w]] = "Paid"            -> Goto(w, "complete_only") /\ UNCHANGED locks
         [] OTHER                             -> End(w)
    /\ UNCHANGED rows

\* Mutant: the approval marks the order and not its payment.
ApproveOrder(w) ==
    /\ pc[w] \in {"complete", "complete_only"}
    /\ SaveOrder(ord[w], "Paid")
    /\ IF pc[w] = "complete" THEN Goto(w, "paid") /\ UNCHANGED locks ELSE End(w)

\* Only for an order that was not Paid yet the approval goes on.
CompleteTxn(w) ==
    /\ pc[w] \in {"complete", "complete_only"}
    /\ SaveTxns({pay[w]}, "Completed")
    /\ IF pc[w] = "complete" THEN Goto(w, "paid") /\ UNCHANGED locks ELSE End(w)

SavePaid(w) ==
    /\ pc[w] = "paid"
    /\ SaveOrder(ord[w], "Paid")
    /\ Goto(w, "fulfil")
    /\ UNCHANGED locks

Reject(w, t) ==
    /\ txn[t] # Nothing
    /\ Begin(w, "reject", txn[t].order, t, "reject")
    /\ UNCHANGED <<rows, locks>>

\* Rejection locks the transaction; a bank transfer's order is left alone.
LockTxn(w) ==
    /\ pc[w] = "reject"
    /\ txnLock[pay[w]] = Free
    /\ LET t == pay[w]
       IN  \/ /\ txn[t].status # "Pending"
              /\ End(w)
              /\ UNCHANGED rows
           \/ /\ txn[t].status = "Pending" /\ ord[w] \in Bank
              /\ SaveTxns({t}, "Rejected")
              /\ End(w)
           \/ /\ txn[t].status = "Pending" /\ ord[w] \notin Bank
              /\ txnLock' = [txnLock EXCEPT ![t] = w]
              /\ Goto(w, "reject_order")
              /\ UNCHANGED <<rows, orderLock>>

RejectOrder(w) ==
    /\ pc[w] = "reject_order"
    /\ orderLock[ord[w]] = Free
    /\ txn' = [txn EXCEPT ![pay[w]].status = "Rejected"]
    /\ order' = [order EXCEPT ![ord[w]] = IF @ = "Pending_Payment" THEN "Cancelled" ELSE @]
    /\ End(w)
    /\ UNCHANGED <<invoices, tenant>>

\* The page of a transaction completes it if its order is Paid.
View(w, t) ==
    /\ txn[t] # Nothing /\ txn[t].status = "Pending" /\ order[txn[t].order] = "Paid"
    /\ Begin(w, "view", txn[t].order, t, "heal")
    /\ UNCHANGED <<rows, locks>>

Heal(w) ==
    /\ pc[w] = "heal"
    /\ SaveTxns({pay[w]}, "Completed")
    /\ End(w)

\* An UPDATE of the list of transactions: the Pending payments of some orders.
HealOrders(os) ==
    /\ LET healed == UNION {Pending(o) : o \in os}
       IN  healed # {} /\ SaveTxns(healed, "Completed")
    /\ UNCHANGED <<locks, pc, local>>

\* The list completes those of Paid orders first, then, in a statement of its own
\* that others can come before, those of invoiced orders.
ListPaid     == HealOrders({o \in Orders : order[o] = "Paid"})
ListInvoiced == HealOrders({o \in Orders : \E i \in invoices : i.order = o})

-----------------------------------------------------------------------------

\* A handler fails, or its worker dies, or PostgreSQL ends its transaction
\* because it and another wait for each other: what it has committed stays,
\* and the transaction it is in is rolled back.
Fail(w) == pc[w] # "idle" /\ End(w) /\ UNCHANGED rows

Work(w) ==
    \/ Draft(w) \/ SaveSubmitted(w) \/ Sync(w) \/ Insert(w) \/ LockOrder(w) \/ Settle(w)
    \/ Fulfil(w) \/ Load(w) \/ Number(w) \/ Commit(w)
    \/ SaveCancelled(w) \/ Void(w)
    \/ ReadOrder(w) \/ CompleteTxn(w) \/ SavePaid(w)
    \/ LockTxn(w) \/ RejectOrder(w) \/ Heal(w)

Next ==
    \/ \E w \in Workers, o \in Orders :
          Create(w, o) \/ Renew(w, o) \/ Submit(w, o) \/ MarkPaid(w, o) \/ Cancel(w, o)
    \/ \E w \in Workers, t \in Txns : Approve(w, t) \/ Reject(w, t) \/ View(w, t)
    \/ \E w \in Workers : Work(w) \/ Fail(w)
    \/ ListPaid \/ ListInvoiced

Spec == Init /\ [][Next]_vars

-----------------------------------------------------------------------------

TypeOK ==
    /\ order \in [Orders -> OrderStatuses \cup {Nothing}]
    /\ txn \in [Txns -> Payments \cup {Nothing}]
    /\ invoices \in SUBSET [no : Nat \ {0}, order : Orders]
    /\ tenant \in [Orders -> Nat]
    /\ orderLock \in [Orders -> Workers \cup {Free}]
    /\ txnLock \in [Txns -> Workers \cup {Free}]
    /\ pc \in [Workers -> {"idle", "draft", "submit", "sync", "insert", "lock", "settle",
                          "fulfil", "provision", "invoice", "number", "commit",
                          "cancel", "void", "order", "complete", "complete_only",
                          "paid", "reject", "reject_order", "heal"}]
    /\ how \in [Workers -> Handlers \cup {Nothing}]
    /\ ord \in [Workers -> Orders \cup {Nothing}]
    /\ pay \in [Workers -> Txns \cup {Nothing}]
    /\ row \in [Workers -> [Orders -> Nat] \cup {Nothing}]
    /\ num \in [Workers -> Nat]

Completed(o) == {t \in Of(o) : txn[t].status = "Completed"}
Invoices(o)  == {i \in invoices : i.order = o}

\* A payment that is completed stays so: no cancellation, rejection or late
\* save of another handler takes it back.
PaymentStands ==
    [][\A o \in Orders : Completed(o) \subseteq Completed(o)']_vars

\* An order is Paid, invoiced, or credited to the tenant only if a payment of
\* it is completed, whatever handlers run at once and wherever they fail.
PaidIsBacked ==
    \A o \in Orders :
        order[o] = "Paid" \/ Invoices(o) # {} \/ tenant[o] > 0 => Completed(o) # {}

\* An order that is paid online is credited to the tenant at most once for
\* each of its completed payments: double submissions, captures and a Mark
\* Paid at the same time do not share one.
CreditedOncePerPayment ==
    \A o \in Orders \ Bank : tenant[o] <= Cardinality(Completed(o))

\* An order that is paid online has at most one invoice, though the handlers
\* look for one before they make it.
InvoicedOnce == \A o \in Orders \ Bank : Cardinality(Invoices(o)) <= 1

\* Invoices are numbered 1, 2, 3, ..., each number once, though the number is
\* read without a lock and transactions fail.
InvoicesAreSequential ==
    /\ {i.no : i \in invoices} = 1 .. Cardinality(invoices)
    /\ \A i, j \in invoices : i.no = j.no => i = j

\* "Sum of all Paid invoices for this tenant": when nobody is at work, the
\* tenant has been credited with each order as often as it is invoiced.
LtvIsSumOfInvoices ==
    (\A w \in Workers : pc[w] = "idle") =>
        \A o \in Orders : tenant[o] = Cardinality(Invoices(o))
=============================================================================
