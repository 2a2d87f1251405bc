-------------------------- MODULE OrderSafetyProofs --------------------------
(***************************************************************************)
(* What the handlers of subscription payments keep, for any number of      *)
(* orders, payment transactions and workers: what is paid has a completed  *)
(* payment behind it (PaymentInv), and what is credited and invoiced once, *)
(* and how invoices are numbered (OnceInv).                                *)
(***************************************************************************)
EXTENDS OrderPaymentProofs, FiniteSetTheorems

-----------------------------------------------------------------------------
(***************************************************************************)
(* Paid and backed: the inductive invariant                                *)
(***************************************************************************)

\* What worker w relies on between its steps: a review is about a transaction
\* of its order; who fulfils without an approval holds a transaction that is
\* of its order and pending, or still to be created; who fulfils after an approval has
\* seen a payment completed; a rejection under way holds a pending payment;
\* and what the loaded row of the tenant says has been paid.
Relies(w) ==
    /\ pc[w] \in {"submit", "sync", "insert", "lock", "settle"} => how[w] # "approve"
    /\ pc[w] \in {"order", "complete", "complete_only", "paid"} => how[w] = "approve"
    /\ pc[w] \in Reviewing => txn[pay[w]].order = ord[w]
    /\ pc[w] = "paid" => txn[pay[w]].status = "Completed"
    /\ pc[w] = "reject_order" =>
          txnLock[pay[w]] = w /\ txn[pay[w]].status = "Pending"
    /\ pc[w] \in Fulfilling /\ how[w] = "approve" => Completed(ord[w]) # {}
    /\ pc[w] \in Fulfilling /\ how[w] # "approve" =>
          /\ txnLock[pay[w]] = w
          /\ txn[pay[w]] # Nothing =>
                txn[pay[w]].order = ord[w] /\ txn[pay[w]].status = "Pending"
    /\ row[w] # Nothing => \A o \in Orders : row[w][o] > 0 => Completed(o) # {}

PaymentInv == TypeInv /\ PaidIsBacked /\ \A w \in Workers : Relies(w)

\* What a step may do to the payments: none disappears, changes its order or
\* loses its completion, and one that is locked by another worker than w is
\* left alone and stays locked.
PaymentsKept ==
    \A t \in Txns : txn[t] # Nothing =>
        /\ txn'[t] # Nothing
        /\ txn'[t].order = txn[t].order
        /\ txn[t].status = "Completed" => txn'[t].status = "Completed"

OthersKept(w) ==
    \A v \in Workers \ {w} :
        /\ pc'[v] = pc[v] /\ how'[v] = how[v] /\ ord'[v] = ord[v]
        /\ pay'[v] = pay[v] /\ row'[v] = row[v]
        /\ \A t \in Txns : txnLock[t] = v => txnLock'[t] = v /\ txn'[t] = txn[t]

LEMMA CompletedKept ==
    ASSUME PaymentsKept, NEW o \in Orders
    PROVE  Completed(o) \subseteq Completed(o)'
BY DEF PaymentsKept, Completed, Of

\* A worker can go on relying on what it did while others take a step.
LEMMA OthersRely ==
    ASSUME PaymentInv, NEW w, PaymentsKept, OthersKept(w),
           NEW v \in Workers \ {w}
    PROVE  Relies(v)'
<1>1. /\ Typed(v) /\ Relies(v)
      /\ \A o \in Orders : Completed(o) \subseteq Completed(o)'
  BY CompletedKept DEF PaymentInv, TypeInv
<1>2. /\ pc'[v] = pc[v] /\ how'[v] = how[v] /\ ord'[v] = ord[v]
      /\ pay'[v] = pay[v] /\ row'[v] = row[v]
      /\ \A t \in Txns : txnLock[t] = v => txnLock'[t] = v /\ txn'[t] = txn[t]
  BY DEF OthersKept
<1>3. pc[v] \in Reviewing \cup Fulfilling => pay[v] \in Txns /\ ord[v] \in Orders
  BY <1>1 DEF Typed, Reviewing, Fulfilling
<1>4. pc[v] \in Reviewing =>
         /\ txn'[pay[v]].order = txn[pay[v]].order
         /\ txn[pay[v]].status = "Completed" => txn'[pay[v]].status = "Completed"
  BY <1>1, <1>3 DEF Typed, PaymentsKept
<1>5. pc[v] \in Fulfilling /\ how[v] = "approve" => Completed(ord[v])' # {}
  BY <1>1, <1>2, <1>3 DEF Relies
<1>6. row[v] # Nothing => \A o \in Orders : row[v][o] > 0 => Completed(o)' # {}
  BY <1>1 DEF Relies
<1> QED
  BY <1>1, <1>2, <1>3, <1>4, <1>5, <1>6 DEF Relies, Reviewing

LEMMA PaymentInit == Init => PaymentInv
<1> SUFFICES ASSUME Init PROVE PaymentInv
  OBVIOUS
<1>1. PaidIsBacked
  BY PaymentAssumption DEF Init, PaidIsBacked, Invoices, OrderStatuses
<1>2. \A w \in Workers : Relies(w)
  BY DEF Init, Relies, Reviewing, Fulfilling
<1> QED BY <1>1, <1>2, TypeInit DEF PaymentInv

-----------------------------------------------------------------------------
(***************************************************************************)
(* What each kind of write keeps                                           *)
(***************************************************************************)

\* Nothing becomes Paid, invoiced or credited without a completed payment.
RowsBacked ==
    \A o \in Orders :
        /\ order'[o] = "Paid" => order[o] = "Paid" \/ Completed(o)' # {}
        /\ Invoices(o)' # {} => Invoices(o) # {} \/ Completed(o)' # {}
        /\ tenant'[o] > 0 => tenant[o] > 0 \/ Completed(o)' # {}

\* A step that leaves alone what is locked by others than w.
LocksRespected(w) ==
    \A t \in Txns : txnLock[t] \notin {w, Free} => txn'[t] = txn[t]

Keeps(w) == PaymentsKept /\ RowsBacked /\ LocksRespected(w)

LEMMA StepKeeps ==
    ASSUME PaymentInv, TypeInv', NEW w, Keeps(w), OthersKept(w),
           w \in Workers => Relies(w)'
    PROVE  PaymentInv'
<1>1. \A v \in Workers : Relies(v)'
  BY OthersRely DEF Keeps
<1>2. PaidIsBacked'
  <2> SUFFICES ASSUME NEW o \in Orders,
                      (order[o] = "Paid" \/ Invoices(o) # {} \/ tenant[o] > 0)'
               PROVE  Completed(o)' # {}
    BY DEF PaidIsBacked
  <2>1. CASE Completed(o) # {}
    BY <2>1, CompletedKept DEF Keeps
  <2>2. CASE Completed(o) = {}
    BY <2>2 DEF PaymentInv, PaidIsBacked, Keeps, RowsBacked
  <2> QED BY <2>1, <2>2
<1> QED BY <1>1, <1>2 DEF PaymentInv

LEMMA UnchangedKeeps ==
    ASSUME UNCHANGED rows, NEW w PROVE Keeps(w)
BY DEF rows, Keeps, PaymentsKept, RowsBacked, LocksRespected, Invoices

LEMMA SaveOrderKeeps ==
    ASSUME PaymentInv, NEW w, NEW o \in Orders, NEW s \in OrderStatuses,
           SaveOrder(o, s), s = "Paid" => Completed(o) # {}
    PROVE  Keeps(w)
<1>1. PaymentsKept /\ LocksRespected(w)
  BY DEF SaveOrder, PaymentsKept, LocksRespected
<1>2. RowsBacked
  BY <1>1, CompletedKept
  DEF SaveOrder, RowsBacked, Invoices, PaymentInv, TypeInv, TypeOK
<1> QED BY <1>1, <1>2 DEF Keeps

\* Payments are saved as completed, or are not yet completed when they fail.
LEMMA SaveTxnsKeeps ==
    ASSUME PaymentInv, NEW w, NEW changed,
           \A t \in changed : t \in Txns /\ txn[t] # Nothing,
           NEW s \in TxnStatuses, SaveTxns(changed, s),
           s = "Completed" \/ \A t \in changed : txn[t].status # "Completed"
    PROVE  Keeps(w)
<1>1. \A t \in changed : /\ Payment(txn[t].order, s) # Nothing
                         /\ Payment(txn[t].order, s).order = txn[t].order
                         /\ Payment(txn[t].order, s).status = s
  BY PaymentType, TxnType, PaymentAssumption DEF PaymentInv, TypeInv
<1>2. PaymentsKept
  BY <1>1 DEF SaveTxns, PaymentsKept
<1>3. LocksRespected(w)
  BY DEF SaveTxns, LocksRespected
<1>4. RowsBacked
  BY DEF SaveTxns, RowsBacked, Invoices
<1> QED BY <1>2, <1>3, <1>4 DEF Keeps

\* A payment is created, or one that is pending is saved again.
LEMMA InsertKeeps ==
    ASSUME PaymentInv, NEW w, NEW o \in Orders,
           NEW t \in Txns, txnLock[t] = Free,
           txn[t] # Nothing => txn[t].order = o /\ txn[t].status = "Pending",
           txn' = [txn EXCEPT ![t] = Payment(o, "Pending")],
           \A p \in Orders : order'[p] = "Paid" => order[p] = "Paid",
           UNCHANGED <<invoices, tenant>>
    PROVE  Keeps(w)
<1>1. /\ Payment(o, "Pending") # Nothing
      /\ Payment(o, "Pending").order = o
  BY PaymentType, PaymentAssumption DEF TxnStatuses
<1>2. PaymentsKept
  BY <1>1 DEF PaymentsKept, PaymentInv, TypeInv, TypeOK
<1>3. LocksRespected(w)
  BY DEF LocksRespected, PaymentInv, TypeInv, TypeOK
<1>4. RowsBacked
  BY DEF RowsBacked, Invoices
<1> QED BY <1>2, <1>3, <1>4 DEF Keeps

-----------------------------------------------------------------------------
(***************************************************************************)
(* What each kind of move of a worker keeps                                *)
(***************************************************************************)

LEMMA EndKeeps ==
    ASSUME PaymentInv, TypeInv', NEW w \in Workers, End(w), Keeps(w)
    PROVE  PaymentInv'
<1>1. OthersKept(w)
  BY PaymentAssumption
  DEF End, OthersKept, Keeps, LocksRespected, PaymentInv, TypeInv, TypeOK
<1>2. Relies(w)'
  BY DEF End, Relies, Reviewing, Fulfilling, PaymentInv, TypeInv, TypeOK
<1> QED BY <1>1, <1>2, StepKeeps

LEMMA GotoKeeps ==
    ASSUME PaymentInv, TypeInv', NEW w \in Workers, NEW step, Goto(w, step), Keeps(w),
           UNCHANGED txnLock, Relies(w)'
    PROVE  PaymentInv'
<1>1. OthersKept(w)
  BY PaymentAssumption
  DEF Goto, local, OthersKept, Keeps, LocksRespected, PaymentInv, TypeInv, TypeOK
<1> QED BY <1>1, StepKeeps

\* From the steps at which nothing has been promised yet.
LEMMA GotoEarlyKeeps ==
    ASSUME PaymentInv, TypeInv', NEW w \in Workers, NEW step, Goto(w, step), Keeps(w),
           UNCHANGED txnLock,
           step \in {"sync", "insert", "lock", "settle", "void"},
           how[w] # "approve" \/ step = "void"
    PROVE  PaymentInv'
<1>1. Relies(w)'
  BY CompletedKept
  DEF Keeps, Goto, local, Relies, Reviewing, Fulfilling, PaymentInv, TypeInv, TypeOK
<1> QED BY <1>1, GotoKeeps

LEMMA BeginKeeps ==
    ASSUME PaymentInv, TypeInv', NEW w \in Workers, NEW h \in Handlers, NEW o \in Orders,
           NEW t \in Txns \cup {Nothing}, NEW step, Begin(w, h, o, t, step), Keeps(w),
           UNCHANGED txnLock,
           \/ step \in {"draft", "submit", "sync", "lock", "cancel"} /\ h # "approve"
           \/ /\ step = "order" /\ h = "approve"
              /\ t \in Txns /\ txn[t].order = o /\ txn'[t] = txn[t]
           \/ /\ step \in {"reject", "heal"}
              /\ t \in Txns /\ txn[t].order = o /\ txn'[t] = txn[t]
    PROVE  PaymentInv'
<1>1. OthersKept(w)
  BY PaymentAssumption
  DEF Begin, OthersKept, Keeps, LocksRespected, PaymentInv, TypeInv, TypeOK
<1>2. Relies(w)'
  BY CompletedKept
  DEF Keeps, Begin, Relies, Reviewing, Fulfilling, PaymentInv, TypeInv, TypeOK
<1> QED BY <1>1, <1>2, StepKeeps

\* No worker moves.
LEMMA IdleKeeps ==
    ASSUME PaymentInv, TypeInv', Keeps(Free), UNCHANGED <<locks, pc, local>>
    PROVE  PaymentInv'
<1>1. OthersKept(Free)
  BY PaymentAssumption
  DEF locks, local, OthersKept, Keeps, LocksRespected, PaymentInv, TypeInv, TypeOK
<1> QED BY <1>1, StepKeeps, PaymentAssumption

-----------------------------------------------------------------------------
(***************************************************************************)
(* The steps                                                               *)
(***************************************************************************)

LEMMA PaymentNext == PaymentInv /\ [Next]_vars => PaymentInv' /\ PaymentsKept
<1> SUFFICES ASSUME PaymentInv, [Next]_vars PROVE PaymentInv' /\ PaymentsKept
  OBVIOUS
<1> DEFINE Good == PaymentInv' /\ PaymentsKept
<1>0. TypeInv'
  BY TypeNext DEF PaymentInv
<1>k. ASSUME NEW w, Keeps(w) PROVE PaymentsKept
  BY <1>k DEF Keeps
<1> USE DEF Handlers
<1>1. ASSUME NEW w \in Workers, NEW o \in Orders, Create(w, o) PROVE Good
  <2>1. PICK t \in Fresh : txn' = [txn EXCEPT ![t] = Payment(o, "Pending")]
    BY <1>1 DEF Create
  <2>2. \A v : Keeps(v)
    BY <1>1, <2>1, InsertKeeps
    DEF Create, Fresh, PaymentInv, TypeInv, TypeOK, OrderStatuses
  <2>3. CASE UNCHANGED <<pc, local>>
    BY <1>0, <1>1, <1>k, <2>2, <2>3, IdleKeeps DEF Create
  <2>4. CASE Begin(w, "create", o, Nothing, "lock")
    BY <1>0, <1>1, <1>k, <2>2, <2>4, BeginKeeps DEF Create, locks
  <2> QED BY <1>1, <2>3, <2>4 DEF Create
<1>2. ASSUME NEW w \in Workers, NEW o \in Orders, Renew(w, o) PROVE Good
  <2>1. Keeps(w)
    BY <1>2
    DEF Renew, locks, Keeps, PaymentsKept, RowsBacked, LocksRespected, Invoices,
        PaymentInv, TypeInv, TypeOK
  <2> QED BY <1>0, <1>2, <1>k, <2>1, BeginKeeps DEF Renew, locks
<1>3. ASSUME NEW w \in Workers, NEW o \in Orders,
             Submit(w, o) \/ MarkPaid(w, o) \/ Cancel(w, o)
      PROVE  Good
  BY <1>0, <1>3, <1>k, UnchangedKeeps, BeginKeeps DEF Submit, MarkPaid, Cancel, locks
<1>4. ASSUME NEW w \in Workers, NEW t \in Txns, Approve(w, t) \/ Reject(w, t) \/ View(w, t)
      PROVE  Good
  <2>1. txn[t] # Nothing /\ txn[t].order \in Orders
    BY <1>4, TxnType DEF Approve, Reject, View, PaymentInv, TypeInv
  <2>2. Keeps(w) /\ txn'[t] = txn[t] /\ UNCHANGED txnLock
    BY <1>4, UnchangedKeeps DEF Approve, Reject, View, rows, locks
  <2> QED
    BY <1>0, <1>4, <1>k, <2>1, <2>2, BeginKeeps DEF Approve, Reject, View
<1>5. ASSUME NEW w \in Workers, Draft(w) \/ SaveSubmitted(w) PROVE Good
  <2>1. Keeps(w)
    BY <1>5, SaveOrderKeeps
    DEF Draft, SaveSubmitted, PaymentInv, TypeInv, Typed, OrderStatuses
  <2>2. CASE Draft(w)
    BY <1>0, <1>k, <2>1, <2>2, EndKeeps DEF Draft
  <2>3. CASE SaveSubmitted(w)
    BY <1>0, <1>k, <2>1, <2>3, GotoEarlyKeeps
    DEF SaveSubmitted, locks, PaymentInv, Relies
  <2> QED BY <1>5, <2>2, <2>3
<1>6. ASSUME NEW w \in Workers, how[w] # "approve", Keeps(w), Synced(w) PROVE Good
  BY <1>0, <1>6, <1>k, EndKeeps, GotoEarlyKeeps DEF Synced, locks
<1>7. ASSUME NEW w \in Workers, Sync(w) PROVE Good
  <2>1. how[w] # "approve" /\ Keeps(w)
    BY <1>7, UnchangedKeeps DEF Sync, PaymentInv, Relies
  <2> QED BY <1>0, <1>6, <1>7, <1>k, <2>1, GotoEarlyKeeps DEF Sync, locks
<1>8. ASSUME NEW w \in Workers, Insert(w) PROVE Good
  <2>1. how[w] # "approve"
    BY <1>8 DEF Insert, PaymentInv, Relies
  <2>2. Keeps(w)
    BY <1>8, InsertKeeps DEF Insert, Fresh, PaymentInv, TypeInv, Typed
  <2> QED BY <1>6, <1>8, <2>1, <2>2 DEF Insert
<1>9. ASSUME NEW w \in Workers, LockOrder(w) PROVE Good
  <2>1. how[w] # "approve" /\ Keeps(w)
    BY <1>9, UnchangedKeeps DEF LockOrder, PaymentInv, Relies
  <2> QED BY <1>0, <1>9, <1>k, <2>1, GotoEarlyKeeps DEF LockOrder
<1>10. ASSUME NEW w \in Workers, Settle(w) PROVE Good
  <2> DEFINE o == ord[w]
             usable == IF Of(o) = {} THEN Fresh
                       ELSE {t \in Pending(o) : txnLock[t] = Free}
  <2>1. o \in Orders /\ how[w] # "approve"
    BY <1>10 DEF Settle, PaymentInv, TypeInv, Typed, Relies
  <2>2. \A t \in usable :
           /\ t \in Txns /\ txnLock[t] = Free
           /\ txn[t] # Nothing => txn[t].order = o /\ txn[t].status = "Pending"
    BY DEF Of, Pending, Fresh
  <2>3. CASE End(w) /\ UNCHANGED rows
    BY <1>0, <1>k, <2>3, UnchangedKeeps, EndKeeps
  <2>4. ASSUME NEW t \in usable, txn' = [txn EXCEPT ![t] = Payment(o, "Pending")],
               End(w), UNCHANGED <<order, invoices, tenant>>
        PROVE  Good
    BY <1>0, <1>k, <2>1, <2>2, <2>4, InsertKeeps, EndKeeps
  <2>5. ASSUME NEW t \in usable, txnLock' = [txnLock EXCEPT ![t] = w],
               pay' = [pay EXCEPT ![w] = t],
               row' = [row EXCEPT ![w] = IF Of(o) = {} THEN tenant ELSE @],
               pc' = [pc EXCEPT ![w] = "fulfil"],
               UNCHANGED <<rows, orderLock, how, ord, num>>
        PROVE  Good
    <3>1. Keeps(w)
      BY <2>5, UnchangedKeeps
    <3>2. OthersKept(w)
      BY <2>2, <2>5, PaymentAssumption
      DEF OthersKept, rows, PaymentInv, TypeInv, TypeOK
    <3>3. Relies(w)'
      BY <2>1, <2>2, <2>5
      DEF Relies, Reviewing, Fulfilling, rows, PaymentInv, PaidIsBacked, TypeInv, TypeOK,
          Completed, Of
    <3> QED BY <1>0, <1>k, <3>1, <3>2, <3>3, StepKeeps
  <2> QED BY <1>10, <2>3, <2>4, <2>5 DEF Settle
<1>11. ASSUME NEW w \in Workers, Fulfil(w) \/ Load(w) \/ Number(w) PROVE Good
  <2>1. Keeps(w) /\ UNCHANGED <<rows, locks, how, ord, pay>> /\ pc[w] \in Fulfilling
    BY <1>11, UnchangedKeeps DEF Fulfil, Load, Number, Goto, local, Fulfilling
  <2>2. OthersKept(w)
    BY <1>11, <2>1, PaymentAssumption
    DEF Fulfil, Load, Number, Goto, local, OthersKept, rows, locks, PaymentInv, TypeInv,
        TypeOK
  <2>3. \A o \in Orders : Completed(o)' = Completed(o)
    BY <2>1 DEF rows, Completed, Of
  <2>4. pc'[w] \in Fulfilling /\ row'[w] \in {row[w], tenant}
    BY <1>11 DEF Fulfil, Load, Number, Goto, local, Fulfilling, PaymentInv, TypeInv, TypeOK
  <2>5. Relies(w)'
    BY <2>1, <2>3, <2>4
    DEF Relies, Reviewing, Fulfilling, rows, locks, PaymentInv, PaidIsBacked, TypeInv,
        TypeOK, Typed
  <2> QED BY <1>0, <1>k, <2>1, <2>2, <2>5, StepKeeps
<1>12. ASSUME NEW w \in Workers, Commit(w) PROVE Good
  <2>0. PICK o \in Orders, t \in Txns : o = ord[w] /\ t = pay[w]
    BY <1>12 DEF Commit, PaymentInv, TypeInv, Typed, Fulfilling
  <2>1. /\ row[w] \in [Orders -> Nat]
        /\ Relies(w) /\ pc[w] \in Fulfilling
    BY <1>12 DEF Commit, PaymentInv, TypeInv, Typed, Fulfilling
  <2>2. CASE UNCHANGED rows
    BY <1>0, <1>12, <1>k, <2>2, UnchangedKeeps, EndKeeps DEF Commit
  <2>3. CASE ~NumberTaken(w)
    <3>1. /\ \A p \in Orders : Invoices(p)' # {} => Invoices(p) # {} \/ p = o
          /\ tenant' = [row[w] EXCEPT ![o] = @ + 1]
      BY <1>12, <2>0, <2>3 DEF Commit, NumberTaken, rows, Invoices
    <3>2. /\ PaymentsKept /\ LocksRespected(w)
          /\ Completed(o)' # {}
          /\ \A p \in Orders : order'[p] = "Paid" => order[p] = "Paid" \/ p = o
      <4>1. CASE how[w] = "approve"
        <5>1. UNCHANGED <<order, txn>> /\ Completed(o) # {}
          BY <1>12, <2>0, <2>1, <2>3, <4>1 DEF Commit, NumberTaken, rows, Relies
        <5> QED
          BY <5>1 DEF PaymentsKept, LocksRespected, Completed, Of
      <4>2. CASE how[w] # "approve"
        <5>1. /\ txn' = [txn EXCEPT ![t] = Payment(o, "Completed")]
              /\ order' = [order EXCEPT ![o] = "Paid"]
              /\ txnLock[t] = w /\ (txn[t] # Nothing => txn[t].order = o)
          BY <1>12, <2>0, <2>1, <2>3, <4>2 DEF Commit, NumberTaken, rows, Relies
        <5>2. /\ Payment(o, "Completed") # Nothing
              /\ Payment(o, "Completed").order = o
              /\ Payment(o, "Completed").status = "Completed"
          BY <2>1, PaymentType, PaymentAssumption DEF TxnStatuses
        <5>3. txn'[t] = Payment(o, "Completed")
              /\ \A u \in Txns \ {t} : txn'[u] = txn[u]
          BY <2>1, <5>1 DEF PaymentInv, TypeInv, TypeOK
        <5>4. PaymentsKept /\ LocksRespected(w)
          BY <5>1, <5>2, <5>3 DEF PaymentsKept, LocksRespected
        <5>5. t \in Completed(o)'
          BY <2>1, <5>2, <5>3 DEF Completed, Of
        <5> QED
          BY <2>1, <5>1, <5>4, <5>5 DEF PaymentInv, TypeInv, TypeOK
      <4> QED BY <4>1, <4>2
    <3>3. \A p \in Orders : tenant'[p] > 0 => Completed(p)' # {}
      <4>1. \A p \in Orders : row[w][p] > 0 => Completed(p)' # {}
        BY <2>1, <3>2, CompletedKept, PaymentAssumption DEF Relies
      <4> QED BY <2>1, <3>1, <3>2, <4>1
    <3>4. Keeps(w)
      BY <3>1, <3>2, <3>3 DEF Keeps, RowsBacked
    <3> QED BY <1>0, <1>12, <1>k, <3>4, EndKeeps DEF Commit
  <2> QED BY <1>12, <2>2, <2>3 DEF Commit
<1>13. ASSUME NEW w \in Workers, SaveCancelled(w) PROVE Good
  <2>1. Keeps(w)
    BY <1>13, SaveOrderKeeps DEF SaveCancelled, PaymentInv, TypeInv, Typed, OrderStatuses
  <2> QED BY <1>0, <1>13, <1>k, <2>1, GotoEarlyKeeps DEF SaveCancelled, locks
<1>14. ASSUME NEW w \in Workers, Void(w) PROVE Good
  <2>1. Keeps(w)
    BY <1>14, SaveTxnsKeeps DEF Void, Pending, Of, TxnStatuses
  <2> QED BY <1>0, <1>14, <1>k, <2>1, EndKeeps DEF Void
<1>15. ASSUME NEW w \in Workers, ReadOrder(w) PROVE Good
  <2>1. Keeps(w)
    BY <1>15, UnchangedKeeps DEF ReadOrder
  <2>2. CASE End(w)
    BY <1>0, <1>k, <2>1, <2>2, EndKeeps
  <2>3. ASSUME NEW step \in {"complete", "complete_only"}, Goto(w, step), UNCHANGED locks
        PROVE  Good
    <3>1. Relies(w)'
      BY <1>15, <2>3
      DEF ReadOrder, Goto, local, locks, rows, Relies, Reviewing, Fulfilling, PaymentInv,
          TypeInv, TypeOK, Completed, Of
    <3> QED BY <1>0, <1>k, <2>1, <2>3, <3>1, GotoKeeps DEF locks
  <2> QED BY <1>15, <2>2, <2>3 DEF ReadOrder
<1>16. ASSUME NEW w \in Workers, CompleteTxn(w) \/ Heal(w) PROVE Good
  <2>1. /\ pay[w] \in Txns /\ txn[pay[w]] # Nothing /\ Relies(w)
        /\ SaveTxns({pay[w]}, "Completed")
    BY <1>16 DEF CompleteTxn, Heal, PaymentInv, TypeInv, Typed, Reviewing
  <2>2. Keeps(w)
    BY <2>1, SaveTxnsKeeps DEF TxnStatuses
  <2>3. CASE End(w)
    BY <1>0, <1>k, <2>2, <2>3, EndKeeps
  <2>4. CASE pc[w] = "complete" /\ Goto(w, "paid") /\ UNCHANGED locks
    <3>1. txn'[pay[w]] = Payment(ord[w], "Completed")
      BY <2>1, <2>4 DEF SaveTxns, Relies, Reviewing
    <3>2. Relies(w)'
      BY <2>1, <2>2, <2>4, <3>1, CompletedKept
      DEF Payment, Keeps, Goto, local, locks, Relies, Reviewing, Fulfilling, PaymentInv,
          TypeInv, TypeOK
    <3> QED BY <1>0, <1>k, <2>2, <2>4, <3>2, GotoKeeps DEF locks
  <2> QED BY <1>16, <2>3, <2>4 DEF CompleteTxn, Heal
<1>17. ASSUME NEW w \in Workers, SavePaid(w) PROVE Good
  <2>1. /\ pay[w] \in Txns /\ ord[w] \in Orders /\ txn[pay[w]] # Nothing /\ Relies(w)
    BY <1>17 DEF SavePaid, PaymentInv, TypeInv, Typed, Reviewing
  <2>2. Completed(ord[w]) # {} /\ how[w] = "approve"
    BY <1>17, <2>1 DEF SavePaid, Relies, Reviewing, Completed, Of
  <2>3. Keeps(w)
    BY <1>17, <2>1, <2>2, SaveOrderKeeps DEF SavePaid, OrderStatuses
  <2>4. Relies(w)'
    BY <1>17, <2>1, <2>2, <2>3, CompletedKept
    DEF Keeps, SavePaid, Goto, local, locks, Relies, Reviewing, Fulfilling, PaymentInv,
        TypeInv, TypeOK
  <2> QED BY <1>0, <1>17, <1>k, <2>3, <2>4, GotoKeeps DEF SavePaid, locks
<1>18. ASSUME NEW w \in Workers, LockTxn(w) PROVE Good
  <2>1. pay[w] \in Txns /\ txn[pay[w]] # Nothing /\ pc[w] = "reject" /\ Relies(w)
    BY <1>18 DEF LockTxn, PaymentInv, TypeInv, Typed, Reviewing
  <2>2. CASE End(w) /\ UNCHANGED rows
    BY <1>0, <1>k, <2>2, UnchangedKeeps, EndKeeps
  <2>3. CASE txn[pay[w]].status = "Pending" /\ SaveTxns({pay[w]}, "Rejected") /\ End(w)
    BY <1>0, <1>k, <2>1, <2>3, SaveTxnsKeeps, EndKeeps DEF TxnStatuses
  <2>4. CASE /\ txn[pay[w]].status = "Pending" /\ txnLock[pay[w]] = Free
             /\ txnLock' = [txnLock EXCEPT ![pay[w]] = w]
             /\ Goto(w, "reject_order")
             /\ UNCHANGED <<rows, orderLock>>
    <3>1. Keeps(w)
      BY <2>4, UnchangedKeeps
    <3>2. OthersKept(w)
      BY <2>1, <2>4, PaymentAssumption
      DEF Goto, local, rows, OthersKept, PaymentInv, TypeInv, TypeOK
    <3>3. Relies(w)'
      BY <2>1, <2>4, <3>1, CompletedKept
      DEF Keeps, Goto, local, rows, Relies, Reviewing, Fulfilling, PaymentInv, TypeInv,
          TypeOK
    <3> QED BY <1>0, <1>k, <3>1, <3>2, <3>3, StepKeeps
  <2> QED BY <1>18, <2>2, <2>3, <2>4 DEF LockTxn
<1>19. ASSUME NEW w \in Workers, RejectOrder(w) PROVE Good
  <2> DEFINE t == pay[w]
  <2>1. /\ t \in Txns /\ txn[t] # Nothing /\ ord[w] \in Orders
        /\ txnLock[t] = w /\ txn[t].status = "Pending"
    BY <1>19 DEF RejectOrder, PaymentInv, TypeInv, Typed, Relies, Reviewing
  <2>2. /\ txn[t] \in Payments
        /\ [txn[t] EXCEPT !.status = "Rejected"] = Payment(txn[t].order, "Rejected")
    BY <2>1, TxnType DEF PaymentInv, TypeInv, Payments, Payment
  <2>3. /\ txn'[t] = Payment(txn[t].order, "Rejected")
        /\ \A u \in Txns \ {t} : txn'[u] = txn[u]
    BY <1>19, <2>1, <2>2 DEF RejectOrder, PaymentInv, TypeInv, TypeOK
  <2>4. /\ txn'[t] # Nothing /\ txn'[t].order = txn[t].order
    BY <2>1, <2>3, TxnType, PaymentType, PaymentAssumption
    DEF PaymentInv, TypeInv, TxnStatuses
  <2>5. PaymentsKept /\ LocksRespected(w)
    BY <2>1, <2>3, <2>4 DEF PaymentsKept, LocksRespected
  <2>6. RowsBacked
    BY <1>19, <2>1 DEF RejectOrder, RowsBacked, Invoices, PaymentInv, TypeInv, TypeOK
  <2> QED BY <1>0, <1>19, <1>k, <2>5, <2>6, EndKeeps DEF RejectOrder, Keeps
<1>20. ASSUME NEW w \in Workers, Fail(w) PROVE Good
  BY <1>0, <1>20, <1>k, UnchangedKeeps, EndKeeps DEF Fail
<1>21. CASE ListPaid \/ ListInvoiced
  <2>1. PICK healed \in SUBSET (UNION {Pending(o) : o \in Orders}) :
           SaveTxns(healed, "Completed")
    BY <1>21 DEF ListPaid, ListInvoiced, HealOrders
  <2>2. Keeps(Free)
    BY <2>1, SaveTxnsKeeps DEF Pending, Of, TxnStatuses
  <2> QED BY <1>0, <1>21, <1>k, <2>2, IdleKeeps DEF ListPaid, ListInvoiced, HealOrders
<1>22. CASE UNCHANGED vars
  BY <1>0, <1>22, <1>k, UnchangedKeeps, IdleKeeps DEF vars
<1> QED
  BY <1>1, <1>2, <1>3, <1>4, <1>5, <1>7, <1>8, <1>9, <1>10, <1>11, <1>12, <1>13, <1>14,
     <1>15, <1>16, <1>17, <1>18, <1>19, <1>20, <1>21, <1>22
  DEF Next, Work

-----------------------------------------------------------------------------

\* An order is Paid, invoiced or credited only if a payment of it is completed,
\* whatever handlers run at once and wherever they fail.
THEOREM PaidOrdersAreBacked == Spec => []PaidIsBacked
<1>1. PaymentInv => PaidIsBacked
  BY DEF PaymentInv
<1>2. PaymentInv /\ [Next]_vars => PaymentInv'
  BY PaymentNext
<1> QED BY <1>1, <1>2, PaymentInit, PTL DEF Spec

\* A completed payment is never taken back.
THEOREM CompletedPaymentsStand == Spec => PaymentStands
<1>1. PaymentInv /\ [Next]_vars =>
         [\A o \in Orders : Completed(o) \subseteq Completed(o)']_vars
  BY PaymentNext, CompletedKept
<1>2. PaymentInv /\ [Next]_vars => PaymentInv'
  BY PaymentNext
<1> QED BY <1>1, <1>2, PaymentInit, PTL DEF Spec, PaymentStands
-----------------------------------------------------------------------------
(***************************************************************************)
(* Credited and invoiced once: the inductive invariant                     *)
(***************************************************************************)

Online == Orders \ Bank

\* The row of the tenant as a worker has loaded it does not say more than
\* has been paid.
RowIsPaid(r) == \A o \in Online : r[o] <= Cardinality(Completed(o))

\* Only bank transfers are approved; who fulfils an online order holds its
\* row, so that nobody else invoices it after the look for an invoice; and a
\* number is at most the next one.
Holds(w) ==
    /\ pc[w] \in {"order", "complete", "complete_only", "paid"} => ord[w] \in Bank
    /\ pc[w] \in {"settle"} \cup Fulfilling /\ ord[w] \notin Bank =>
          orderLock[ord[w]] = w /\ how[w] # "approve"
    /\ pc[w] # "commit" => num[w] = 0
    /\ (pc[w] \in {"invoice", "number"} \/ num[w] # 0) /\ ord[w] \notin Bank =>
          Invoices(ord[w]) = {}
    /\ num[w] <= Cardinality(invoices) + 1
    /\ row[w] # Nothing => RowIsPaid(row[w])

OnceInv ==
    /\ IsFiniteSet(invoices)
    /\ InvoicesAreSequential
    /\ RowIsPaid(tenant)
    /\ \A o \in Online : Invoices(o) = {} \/ \E i \in invoices : Invoices(o) = {i}
    /\ \A w \in Workers : Holds(w)

LEMMA CompletedFinite ==
    ASSUME NEW o
    PROVE  /\ IsFiniteSet(Completed(o)) /\ Cardinality(Completed(o)) \in Nat
           /\ IsFiniteSet(Completed(o)') /\ Cardinality(Completed(o)') \in Nat
<1>1. Completed(o) \in SUBSET Txns /\ Completed(o)' \in SUBSET Txns
  BY DEF Completed, Of
<1> QED BY <1>1, PaymentAssumption, FS_Subset, FS_CardinalityType

LEMMA OnceInit == Init => OnceInv
<1> SUFFICES ASSUME Init PROVE OnceInv
  OBVIOUS
<1>1. IsFiniteSet(invoices) /\ Cardinality(invoices) = 0
  BY FS_EmptySet DEF Init
<1>2. InvoicesAreSequential
  BY <1>1 DEF Init, InvoicesAreSequential
<1>3. RowIsPaid(tenant)
  BY CompletedFinite DEF Init, RowIsPaid, Online
<1>4. \A w \in Workers : Holds(w)
  BY <1>1 DEF Init, Holds, Fulfilling
<1> QED BY <1>1, <1>2, <1>3, <1>4 DEF Init, OnceInv, Invoices, Online

-----------------------------------------------------------------------------
(***************************************************************************)
(* What a step keeps of what others hold                                   *)
(***************************************************************************)

\* The payments grow, and so do the counts of them.
LEMMA CountsGrow ==
    ASSUME PaymentsKept, NEW r \in [Orders -> Nat], RowIsPaid(r)
    PROVE  \A o \in Online : r[o] <= Cardinality(Completed(o)')
<1> SUFFICES ASSUME NEW o \in Online PROVE r[o] <= Cardinality(Completed(o)')
  OBVIOUS
<1>1. Cardinality(Completed(o)) <= Cardinality(Completed(o)')
  BY CompletedFinite, CompletedKept, FS_Subset DEF Online
<1> QED BY <1>1, CompletedFinite DEF RowIsPaid, Online

\* Worker w leaves the others and their locks on orders alone, and adds at
\* most an invoice of an order that nobody else has locked.
OrdersKept(w) ==
    /\ \A v \in Workers \ {w} :
          /\ pc'[v] = pc[v] /\ how'[v] = how[v] /\ ord'[v] = ord[v]
          /\ row'[v] = row[v] /\ num'[v] = num[v]
          /\ \A o \in Orders : orderLock[o] = v => orderLock'[o] = v
    /\ \A o \in Online : Invoices(o)' = Invoices(o) \/ orderLock[o] \in {w, Free}
    /\ Cardinality(invoices)' >= Cardinality(invoices)

LEMMA OthersHold ==
    ASSUME PaymentInv, OnceInv, PaymentsKept, NEW w, OrdersKept(w),
           NEW v \in Workers \ {w}, Cardinality(invoices)' \in Nat
    PROVE  Holds(v)'
<1>1. /\ Holds(v) /\ Typed(v) /\ v # Free
      /\ num[v] \in Nat /\ row[v] \in [Orders -> Nat] \cup {Nothing}
      /\ Cardinality(invoices) \in Nat
  BY PaymentAssumption, FS_CardinalityType
  DEF OnceInv, PaymentInv, TypeInv, TypeOK
<1>2. /\ pc'[v] = pc[v] /\ how'[v] = how[v] /\ ord'[v] = ord[v]
      /\ row'[v] = row[v] /\ num'[v] = num[v]
      /\ \A o \in Orders : orderLock[o] = v => orderLock'[o] = v
  BY DEF OrdersKept
<1>3. row[v] # Nothing => \A o \in Online : row[v][o] <= Cardinality(Completed(o)')
  BY <1>1, CountsGrow DEF Holds
<1>4. row'[v] # Nothing => RowIsPaid(row[v])'
  BY <1>2, <1>3 DEF RowIsPaid
<1>5. num[v] # 0 => pc[v] = "commit"
  BY <1>1 DEF Holds
<1>6. (pc[v] \in {"invoice", "number"} \/ num[v] # 0) /\ ord[v] \notin Bank =>
         Invoices(ord[v])' = {}
  <2> SUFFICES ASSUME pc[v] \in {"invoice", "number"} \/ num[v] # 0, ord[v] \notin Bank
               PROVE  Invoices(ord[v])' = {}
    OBVIOUS
  <2>1. /\ ord[v] \in Online /\ orderLock[ord[v]] = v /\ Invoices(ord[v]) = {}
    BY <1>1, <1>5 DEF Holds, Typed, Fulfilling, Online
  <2>2. PICK o \in Online : o = ord[v]
    BY <2>1
  <2>3. Invoices(o)' = Invoices(o)
    BY <1>1, <2>1, <2>2 DEF OrdersKept
  <2> QED BY <1>2, <2>1, <2>2, <2>3 DEF Invoices
<1>7. num[v] <= Cardinality(invoices)' + 1
  BY <1>1 DEF Holds, OrdersKept
<1>8. pc[v] \in {"settle"} \cup Fulfilling /\ ord[v] \notin Bank =>
         orderLock'[ord[v]] = v
  BY <1>1, <1>2 DEF Holds, Typed, Fulfilling
<1> QED
  BY <1>1, <1>2, <1>4, <1>6, <1>7, <1>8 DEF Holds

\* A step that invoices and credits nothing.
Quiet == UNCHANGED <<invoices, tenant>>

LEMMA QuietKeeps ==
    ASSUME PaymentInv, OnceInv, PaymentsKept, Quiet, NEW w,
           \A v \in Workers \ {w} :
              /\ pc'[v] = pc[v] /\ how'[v] = how[v] /\ ord'[v] = ord[v]
              /\ row'[v] = row[v] /\ num'[v] = num[v]
              /\ \A o \in Orders : orderLock[o] = v => orderLock'[o] = v,
           w \in Workers => Holds(w)'
    PROVE  OnceInv'
<1>1. \A o \in Online : Invoices(o)' = Invoices(o)
  BY DEF Quiet, Invoices
<1>2. Cardinality(invoices)' = Cardinality(invoices) /\ Cardinality(invoices) \in Nat
  BY FS_CardinalityType DEF Quiet, OnceInv
<1>3. OrdersKept(w)
  BY <1>1, <1>2 DEF OrdersKept
<1>4. \A v \in Workers : Holds(v)'
  BY <1>2, <1>3, OthersHold
<1>5. RowIsPaid(tenant)'
  BY CountsGrow DEF Quiet, RowIsPaid, OnceInv, PaymentInv, TypeInv, TypeOK
<1>6. \A o \in Online : (Invoices(o) = {} \/ \E i \in invoices : Invoices(o) = {i})'
  BY <1>1 DEF Quiet, OnceInv
<1> QED
  BY <1>4, <1>5, <1>6 DEF Quiet, OnceInv, InvoicesAreSequential

\* What worker w holds when it ends, and when it goes on without having
\* loaded or read anything.
LEMMA EndHolds ==
    ASSUME PaymentInv, OnceInv, PaymentsKept, Quiet, NEW w \in Workers, End(w)
    PROVE  OnceInv'
<1>1. Holds(w)'
  BY FS_CardinalityType
  DEF Quiet, End, Holds, Fulfilling, OnceInv, PaymentInv, TypeInv, TypeOK
<1> QED BY <1>1, QuietKeeps, PaymentAssumption DEF End, PaymentInv, TypeInv, TypeOK

\* The row it has loaded, if any, is paid.
LEMMA RowStays ==
    ASSUME PaymentInv, OnceInv, PaymentsKept, NEW w \in Workers, row'[w] = row[w]
    PROVE  row'[w] # Nothing => RowIsPaid(row[w])'
<1> SUFFICES ASSUME row[w] # Nothing PROVE RowIsPaid(row[w])'
  OBVIOUS
<1>1. row[w] \in [Orders -> Nat] /\ RowIsPaid(row[w])
  BY DEF OnceInv, Holds, PaymentInv, TypeInv, TypeOK
<1>2. \A o \in Online : row[w][o] <= Cardinality(Completed(o)')
  BY <1>1, CountsGrow
<1> QED BY <1>2 DEF RowIsPaid

LEMMA GotoHolds ==
    ASSUME PaymentInv, OnceInv, PaymentsKept, Quiet, NEW w \in Workers, NEW step,
           Goto(w, step), UNCHANGED orderLock, pc[w] # "commit",
           \/ step \in {"draft", "submit", "sync", "insert", "lock", "cancel", "void",
                        "reject_order"}
           \/ /\ step \in {"complete", "complete_only", "paid", "fulfil"}
              /\ ord[w] \in Bank
    PROVE  OnceInv'
<1>1. row'[w] # Nothing => RowIsPaid(row[w])'
  BY RowStays DEF Goto, local
<1>2. Holds(w)'
  BY <1>1 DEF Quiet, Goto, local, Holds, Fulfilling, OnceInv, PaymentInv, TypeInv, TypeOK
<1> QED BY <1>2, QuietKeeps DEF Goto, local, PaymentInv, TypeInv, TypeOK

LEMMA BeginHolds ==
    ASSUME PaymentInv, OnceInv, PaymentsKept, Quiet, NEW w \in Workers, NEW h, NEW o, NEW t,
           NEW step, Begin(w, h, o, t, step), UNCHANGED orderLock,
           \/ step \in {"draft", "submit", "sync", "lock", "cancel", "reject", "heal"}
           \/ step = "order" /\ o \in Bank
    PROVE  OnceInv'
<1>1. row'[w] # Nothing => RowIsPaid(row[w])'
  BY RowStays DEF Begin
<1>2. Holds(w)'
  BY <1>1 DEF Quiet, Begin, Holds, Fulfilling, OnceInv, PaymentInv, TypeInv, TypeOK
<1> QED BY <1>2, QuietKeeps DEF Begin, PaymentInv, TypeInv, TypeOK

-----------------------------------------------------------------------------
(***************************************************************************)
(* The steps                                                               *)
(***************************************************************************)

\* The row of the order is locked, and then a payment of it.
LEMMA LockOrderHolds ==
    ASSUME PaymentInv, OnceInv, PaymentsKept, NEW w \in Workers, LockOrder(w)
    PROVE  OnceInv'
<1>1. row'[w] # Nothing => RowIsPaid(row[w])'
  BY RowStays DEF LockOrder, Goto, local
<1>2. ord[w] \in Orders /\ how[w] # "approve"
  BY DEF LockOrder, PaymentInv, TypeInv, Typed, Relies
<1>3. Quiet
  BY DEF LockOrder, rows, Quiet
<1>4. Holds(w)'
  BY <1>1, <1>2
  DEF LockOrder, rows, Goto, local, Holds, Fulfilling, OnceInv, PaymentInv, TypeInv, TypeOK
<1> QED
  BY <1>3, <1>4, QuietKeeps, PaymentAssumption
  DEF LockOrder, Goto, local, PaymentInv, TypeInv, TypeOK

LEMMA SettleHolds ==
    ASSUME PaymentInv, OnceInv, PaymentsKept, NEW w \in Workers, Settle(w)
    PROVE  OnceInv'
<1>1. CASE End(w) /\ Quiet
  BY <1>1, EndHolds
<1>2. ASSUME NEW r, r \in {row[w], tenant}, row' = [row EXCEPT ![w] = r],
             pc' = [pc EXCEPT ![w] = "fulfil"],
             UNCHANGED <<rows, orderLock, how, ord, num>>
      PROVE  OnceInv'
  <2>1. r # Nothing => r \in [Orders -> Nat] /\ RowIsPaid(r)
    BY <1>2 DEF OnceInv, Holds, PaymentInv, TypeInv, TypeOK
  <2>2. r # Nothing => \A o \in Online : r[o] <= Cardinality(Completed(o)')
    BY <2>1, CountsGrow
  <2>3. row'[w] = r
    BY <1>2 DEF PaymentInv, TypeInv, TypeOK
  <2>4. row'[w] # Nothing => RowIsPaid(row[w])'
    BY <2>2, <2>3 DEF RowIsPaid
  <2>5. Holds(w)'
    BY <1>2, <2>4
    DEF Settle, rows, Holds, Fulfilling, OnceInv, PaymentInv, TypeInv, TypeOK
  <2>6. Quiet
    BY <1>2 DEF rows, Quiet
  <2> QED BY <1>2, <2>5, <2>6, QuietKeeps DEF PaymentInv, TypeInv, TypeOK
<1> QED BY <1>1, <1>2 DEF Settle, rows, Quiet

\* An online order that has an invoice is provisioned only.
LEMMA FulfilHolds ==
    ASSUME PaymentInv, OnceInv, PaymentsKept, NEW w \in Workers, Fulfil(w)
    PROVE  OnceInv'
<1>1. row'[w] # Nothing => RowIsPaid(row[w])'
  BY RowStays DEF Fulfil, Goto, local
<1>2. Quiet /\ Invoices(ord[w])' = Invoices(ord[w])
  BY DEF Fulfil, Goto, local, rows, Quiet, Invoices
<1>3. Holds(w)'
  BY <1>1, <1>2
  DEF Fulfil, rows, locks, Goto, local, Holds, Fulfilling, Invoices, OnceInv, PaymentInv,
      TypeInv, TypeOK
<1> QED
  BY <1>2, <1>3, QuietKeeps DEF Fulfil, locks, Goto, local, PaymentInv, TypeInv, TypeOK

LEMMA LoadHolds ==
    ASSUME PaymentInv, OnceInv, PaymentsKept, NEW w \in Workers, Load(w)
    PROVE  OnceInv'
<1>1. PICK r : r = IF row[w] = Nothing THEN tenant ELSE row[w]
  OBVIOUS
<1>2. row'[w] = r /\ r \in [Orders -> Nat] /\ RowIsPaid(r)
  BY <1>1 DEF Load, OnceInv, Holds, PaymentInv, TypeInv, TypeOK
<1>3. \A o \in Online : r[o] <= Cardinality(Completed(o)')
  BY <1>2, CountsGrow
<1>4. RowIsPaid(row[w])'
  BY <1>2, <1>3 DEF RowIsPaid
<1>5. Quiet /\ Invoices(ord[w])' = Invoices(ord[w])
  BY DEF Load, rows, Quiet, Invoices
<1>6. Holds(w)'
  BY <1>4, <1>5
  DEF Load, rows, locks, Quiet, Holds, Fulfilling, OnceInv, PaymentInv, TypeInv, TypeOK
<1> QED
  BY <1>5, <1>6, QuietKeeps DEF Load, locks, PaymentInv, TypeInv, TypeOK

\* The last invoice is one of those there are, so the next number is at most
\* one more than their count.
LEMMA NumberHolds ==
    ASSUME PaymentInv, OnceInv, PaymentsKept, NEW w \in Workers, Number(w)
    PROVE  OnceInv'
<1> DEFINE S == {0} \cup ({i.no : i \in invoices} \cap 0 .. LastPadded)
<1>1. S \in SUBSET (0 .. LastPadded) /\ S # {}
  BY PaymentAssumption
<1>2. \E x \in S : \A y \in S : x >= y
  BY <1>1, BoundedHasGreatest, PaymentAssumption
<1>3. LastInvoice \in S
  BY <1>2 DEF Max, LastInvoice
<1>4. Cardinality(invoices) \in Nat
  BY FS_CardinalityType DEF OnceInv
<1>5. LastInvoice \in Nat /\ LastInvoice <= Cardinality(invoices)
  BY <1>1, <1>3, <1>4, PaymentAssumption DEF OnceInv, InvoicesAreSequential
<1>6. row'[w] # Nothing => RowIsPaid(row[w])'
  BY RowStays DEF Number
<1>7. Quiet /\ Invoices(ord[w])' = Invoices(ord[w])
  BY DEF Number, rows, Quiet, Invoices
<1>8. /\ pc'[w] = "commit" /\ num'[w] = LastInvoice + 1
      /\ how'[w] = how[w] /\ ord'[w] = ord[w] /\ orderLock' = orderLock
      /\ Cardinality(invoices)' = Cardinality(invoices)
  BY DEF Number, rows, locks, PaymentInv, TypeInv, TypeOK
<1>9. num'[w] <= Cardinality(invoices)' + 1
  BY <1>4, <1>5, <1>8
<1>10. Holds(w) /\ pc[w] = "number"
  BY DEF Number, OnceInv
<1>11. Holds(w)'
  BY <1>6, <1>7, <1>8, <1>9, <1>10 DEF Holds, Fulfilling
<1> QED
  BY <1>7, <1>11, QuietKeeps DEF Number, locks, PaymentInv, TypeInv, TypeOK

\* An online order is invoiced and credited by the worker that holds its row,
\* under the next number, and with a payment that was not completed before.
LEMMA CommitHolds ==
    ASSUME PaymentInv, PaymentInv', OnceInv, PaymentsKept, NEW w \in Workers, Commit(w)
    PROVE  OnceInv'
<1>1. CASE UNCHANGED rows
  BY <1>1, EndHolds DEF Commit, rows, Quiet
<1>2. CASE ~NumberTaken(w) /\ ~UNCHANGED rows
  <2>0. PICK o \in Orders, t \in Txns : o = ord[w] /\ t = pay[w]
    BY DEF Commit, PaymentInv, TypeInv, Typed, Fulfilling
  <2>1. /\ pc[w] = "commit" /\ Holds(w) /\ Relies(w)
        /\ row[w] \in [Orders -> Nat] /\ num[w] \in Nat
        /\ Cardinality(invoices) \in Nat /\ IsFiniteSet(invoices)
    BY FS_CardinalityType DEF Commit, OnceInv, PaymentInv, TypeInv, TypeOK, Typed
  <2> DEFINE new == [no |-> num[w], order |-> o]
  <2>2. /\ invoices' = IF num[w] = 0 THEN invoices ELSE invoices \cup {new}
        /\ tenant' = [row[w] EXCEPT ![o] = @ + 1]
        /\ End(w)
    BY <1>2, <2>0 DEF Commit
  \* The invoices
  <2>3. num[w] # 0 => new \notin invoices /\ num[w] = Cardinality(invoices) + 1
    BY <1>2, <2>1 DEF NumberTaken, Holds, OnceInv, InvoicesAreSequential
  <2>4. /\ IsFiniteSet(invoices)'
        /\ Cardinality(invoices)' = IF num[w] = 0 THEN Cardinality(invoices)
                                    ELSE Cardinality(invoices) + 1
    BY <2>1, <2>2, <2>3, FS_AddElement
  <2>5. InvoicesAreSequential'
    <3>1. CASE num[w] = 0
      BY <2>2, <2>4, <3>1 DEF OnceInv, InvoicesAreSequential
    <3>2. CASE num[w] # 0
      <4>1. {i.no : i \in invoices'} = {i.no : i \in invoices} \cup {num[w]}
        <5>1. invoices' = invoices \cup {new} /\ new.no = num[w]
          BY <2>2, <3>2
        <5> QED BY <5>1
      <4>2. {i.no : i \in invoices'} = 1 .. Cardinality(invoices) + 1
        <5>1. {i.no : i \in invoices'} =
                 (1 .. Cardinality(invoices)) \cup {Cardinality(invoices) + 1}
          BY <2>3, <3>2, <4>1 DEF OnceInv, InvoicesAreSequential
        <5>2. \A n \in Nat : 1 .. n + 1 = (1 .. n) \cup {n + 1}
          OBVIOUS
        <5> QED BY <2>1, <5>1, <5>2
      <4>3. \A i, j \in invoices' : i.no = j.no => i = j
        BY <1>2, <2>2, <3>2 DEF NumberTaken, OnceInv, InvoicesAreSequential
      <4> QED BY <2>4, <3>2, <4>2, <4>3 DEF InvoicesAreSequential
    <3> QED BY <3>1, <3>2
  <2>6. \A p \in Orders \ {o} : Invoices(p)' = Invoices(p)
    BY <2>2 DEF Invoices
  <2>7. Invoices(o)' = Invoices(o) \/ (num[w] # 0 /\ Invoices(o)' = Invoices(o) \cup {new})
    BY <2>2 DEF Invoices
  <2>8. \A p \in Online : (Invoices(p) = {} \/ \E i \in invoices : Invoices(p) = {i})'
    <3>1. \A p \in Online : Invoices(p)' = Invoices(p) =>
             (Invoices(p) = {} \/ \E i \in invoices : Invoices(p) = {i})'
      BY <2>2 DEF OnceInv
    <3>2. o \in Online /\ num[w] # 0 => Invoices(o) = {}
      BY <2>0, <2>1 DEF Holds, Online
    <3>3. num[w] # 0 => new \in invoices'
      BY <2>2
    <3> QED BY <2>6, <2>7, <3>1, <3>2, <3>3 DEF Online
  \* The tenant
  <2>9. o \in Online => Cardinality(Completed(o)') > Cardinality(Completed(o))
    <3> SUFFICES ASSUME o \in Online
                 PROVE  Cardinality(Completed(o)') > Cardinality(Completed(o))
      OBVIOUS
    <3>1. how[w] # "approve" /\ txn' = [txn EXCEPT ![t] = Payment(o, "Completed")]
      BY <1>2, <2>0, <2>1 DEF Commit, Holds, Fulfilling, Online
    <3>2. /\ Payment(o, "Completed") # Nothing
          /\ Payment(o, "Completed").order = o
          /\ Payment(o, "Completed").status = "Completed"
      BY PaymentType, PaymentAssumption DEF TxnStatuses
    <3>3. txn'[t] = Payment(o, "Completed")
      BY <3>1 DEF PaymentInv, TypeInv, TypeOK
    <3>4. t \in Completed(o)'
      BY <3>2, <3>3 DEF Completed, Of
    <3>5. t \notin Completed(o)
      BY <2>0, <2>1, <3>1 DEF Relies, Fulfilling, Completed, Of
    <3>6. /\ Completed(o) \subseteq Completed(o)' /\ Completed(o) # Completed(o)'
      BY <3>4, <3>5, CompletedKept
    <3> QED BY <3>6, CompletedFinite, FS_Subset
  <2>10. RowIsPaid(tenant)'
    <3>1. row[w] # Nothing /\ RowIsPaid(row[w])
      BY <2>1, PaymentAssumption DEF Holds
    <3>2. \A p \in Online : row[w][p] <= Cardinality(Completed(p)')
      BY <2>1, <3>1, CountsGrow
    <3>3. o \in Online => row[w][o] + 1 <= Cardinality(Completed(o)')
      BY <2>1, <2>9, <3>1, CompletedFinite DEF RowIsPaid
    <3>4. \A p \in Online : tenant'[p] <= Cardinality(Completed(p)')
      BY <2>1, <2>2, <3>2, <3>3 DEF Online
    <3> QED BY <3>4 DEF RowIsPaid
  \* The others
  <2>11. \A p \in Online : Invoices(p)' = Invoices(p) \/ orderLock[p] = w
    BY <2>0, <2>1, <2>6, <2>7 DEF Holds, Fulfilling, Online
  <2>12. OrdersKept(w)
    BY <2>1, <2>2, <2>4, <2>11, PaymentAssumption
    DEF End, OrdersKept, PaymentInv, TypeInv, TypeOK
  <2>13. Holds(w)'
    BY <2>1, <2>2, <2>4 DEF End, Holds, Fulfilling, PaymentInv, TypeInv, TypeOK
  <2>14. \A v \in Workers : Holds(v)'
    BY <2>1, <2>4, <2>12, <2>13, OthersHold
  <2> QED BY <2>4, <2>5, <2>8, <2>10, <2>14 DEF OnceInv
<1> QED BY <1>1, <1>2 DEF Commit

LEMMA OnceNext == PaymentInv /\ OnceInv /\ [Next]_vars => OnceInv'
<1> SUFFICES ASSUME PaymentInv, OnceInv, [Next]_vars PROVE OnceInv'
  OBVIOUS
<1>0. PaymentInv' /\ PaymentsKept
  BY PaymentNext
<1>1. ASSUME UNCHANGED <<orderLock, pc, local>>, Quiet PROVE OnceInv'
  BY <1>0, <1>1, QuietKeeps, PaymentAssumption DEF local
<1>2. ASSUME NEW w \in Workers, NEW o \in Orders, Create(w, o) PROVE OnceInv'
  BY <1>0, <1>1, <1>2, BeginHolds DEF Create, Quiet, locks
<1>3. ASSUME NEW w \in Workers, NEW o \in Orders,
             Renew(w, o) \/ Submit(w, o) \/ MarkPaid(w, o) \/ Cancel(w, o)
      PROVE  OnceInv'
  BY <1>0, <1>3, BeginHolds DEF Renew, Submit, MarkPaid, Cancel, rows, locks, Quiet
<1>4. ASSUME NEW w \in Workers, NEW t \in Txns, Approve(w, t) \/ Reject(w, t) \/ View(w, t)
      PROVE  OnceInv'
  BY <1>0, <1>4, BeginHolds DEF Approve, Reject, View, rows, locks, Quiet
<1>5. ASSUME NEW w \in Workers, Draft(w) \/ SaveSubmitted(w) \/ SaveCancelled(w) \/ Void(w)
      PROVE  OnceInv'
  BY <1>0, <1>5, EndHolds, GotoHolds
  DEF Draft, SaveSubmitted, SaveCancelled, Void, SaveOrder, SaveTxns, locks, Quiet
<1>6. ASSUME NEW w \in Workers, pc[w] # "commit", Quiet, Synced(w) PROVE OnceInv'
  BY <1>0, <1>6, EndHolds, GotoHolds DEF Synced, locks
<1>7. ASSUME NEW w \in Workers, Sync(w) \/ Insert(w) PROVE OnceInv'
  BY <1>0, <1>6, <1>7, GotoHolds DEF Sync, Insert, rows, locks, Quiet
<1>8. ASSUME NEW w \in Workers,
             \/ LockOrder(w) \/ Settle(w) \/ Fulfil(w) \/ Load(w) \/ Number(w) \/ Commit(w)
      PROVE  OnceInv'
  BY <1>0, <1>8, LockOrderHolds, SettleHolds, FulfilHolds, LoadHolds, NumberHolds,
     CommitHolds
<1>9. ASSUME NEW w \in Workers, ReadOrder(w) \/ CompleteTxn(w) \/ SavePaid(w)
      PROVE  OnceInv'
  <2>1. ord[w] \in Bank \/ End(w)
    BY <1>9 DEF ReadOrder, CompleteTxn, SavePaid, OnceInv, Holds
  <2> QED
    BY <1>0, <1>9, <2>1, EndHolds, GotoHolds
    DEF ReadOrder, CompleteTxn, SavePaid, SaveOrder, SaveTxns, rows, locks, Quiet
<1>10. ASSUME NEW w \in Workers, LockTxn(w) \/ RejectOrder(w) \/ Heal(w) \/ Fail(w)
       PROVE  OnceInv'
  BY <1>0, <1>10, EndHolds, GotoHolds
  DEF LockTxn, RejectOrder, Heal, Fail, SaveTxns, rows, Quiet
<1>11. CASE ListPaid \/ ListInvoiced
  BY <1>1, <1>11 DEF ListPaid, ListInvoiced, HealOrders, SaveTxns, locks, Quiet
<1>12. CASE UNCHANGED vars
  BY <1>1, <1>12 DEF vars, rows, locks, Quiet
<1> QED
  BY <1>2, <1>3, <1>4, <1>5, <1>7, <1>8, <1>9, <1>10, <1>11, <1>12 DEF Next, Work

LEMMA OnceAlways == Spec => [](PaymentInv /\ OnceInv)
<1>1. PaymentInv /\ OnceInv /\ [Next]_vars => (PaymentInv /\ OnceInv)'
  BY PaymentNext, OnceNext
<1> QED BY <1>1, PaymentInit, OnceInit, PTL DEF Spec

-----------------------------------------------------------------------------

\* An order that is paid online is credited to the tenant at most once for
\* each of its completed payments.
THEOREM OnlineOrdersAreCreditedOncePerPayment == Spec => []CreditedOncePerPayment
<1>1. OnceInv => CreditedOncePerPayment
  BY DEF OnceInv, RowIsPaid, Online, CreditedOncePerPayment
<1> QED BY <1>1, OnceAlways, PTL

\* An order that is paid online has at most one invoice.
THEOREM OnlineOrdersAreInvoicedOnce == Spec => []InvoicedOnce
<1>1. ASSUME OnceInv PROVE InvoicedOnce
  <2> SUFFICES ASSUME NEW o \in Online PROVE Cardinality(Invoices(o)) <= 1
    BY DEF InvoicedOnce, Online
  <2>1. CASE Invoices(o) = {}
    BY <2>1, FS_EmptySet
  <2>2. ASSUME NEW i, Invoices(o) = {i} PROVE Cardinality(Invoices(o)) <= 1
    BY <2>2, FS_Singleton
  <2> QED BY <1>1, <2>1, <2>2 DEF OnceInv
<1> QED BY <1>1, OnceAlways, PTL

\* Invoices are numbered 1, 2, 3, ..., each number once.
THEOREM InvoiceNumbersAreSequential == Spec => []InvoicesAreSequential
<1>1. OnceInv => InvoicesAreSequential
  BY DEF OnceInv
<1> QED BY <1>1, OnceAlways, PTL
=============================================================================
