---------------------------- MODULE CodCollection ----------------------------
(***************************************************************************)
(* Cash on delivery of one driver's shipments.  The app stages a payment   *)
(* (POST .../payment/collect/) and then executes Collect Payment, whose    *)
(* transaction marks the shipment collected, consumes the staged payment   *)
(* and credits the driver's wallet.  The office writes the same rows: the  *)
(* action log form, the treasury transaction form, the wallet forms.       *)
(*                                                                         *)
(* A transaction reads what is committed and writes at its commit.  Each   *)
(* auto number it takes is read without a lock; writing the next number    *)
(* locks the sequence's row to the end of the transaction.                 *)
(***************************************************************************)
EXTENDS Integers, Sequences, FiniteSets, FiniteSetsExt

CONSTANTS Drivers,       \* web workers that serve the driver's execute requests
          Offices,       \* web workers that serve the portal's forms
          Shipments,     \* the driver's COD shipments
          Unloaded,      \* bound: those that get as far as Collect Payment
          Keys,          \* client_payment_ids, the requests' idempotency keys
          Staged,        \* amounts the app stages
          Sent,          \* amounts the app sends with the action
          Postings,      \* what the office enters; a debit's amount is negative
          Due,           \* cod_amount of a shipment
          Nobody, Nothing,
          MaxStaging,    \* bound: stage requests under way
          MaxWallets,    \* bound: wallets there may be when the office looks
          MaxEntries     \* bound: treasury transactions

ASSUME AmountsAssumption ==
    Staged \cup Sent \subseteq Nat /\ Due \in Nat \ {0}
ASSUME PostingsAssumption ==
    Postings \subseteq [ship : Shipments \cup {Nothing}, amount : Int \ {0}]
ASSUME ShipmentsAssumption == Unloaded \subseteq Shipments
ASSUME BoundsAssumption == {MaxStaging, MaxWallets, MaxEntries} \subseteq Nat
ASSUME NobodyAssumption ==
    /\ Drivers \cap Offices = {} /\ Nobody \notin Drivers \cup Offices
    /\ Nothing \notin Shipments \cup Keys

Workers    == Drivers \cup Offices
NumberRows == {"log", "wallet", "entry"}

VARIABLES collected,  \* TenantShipment.collection_status is Collected
          logs,       \* the Collect Payment action logs
          bundles,    \* PaymentCollectionBundle of a client_payment_id
          staging,    \* stage requests that passed the checks
          wallets,    \* DriverTreasury rows of the driver, oldest first
          entries,    \* DriverTreasuryTransaction rows
          next,       \* the number of the next treasury transaction
          row,        \* holder of a shipment's row lock
          number,     \* holder of the row of a number sequence
          pc, tx      \* where each worker's transaction is, and what it holds

committed == <<collected, logs, bundles, wallets, entries>>
locks     == <<row, number>>
vars      == <<committed, next, staging, locks, pc, tx>>

Idle == [kind |-> "none", ship |-> Nothing, key |-> Nothing, amount |-> 0,
         saw |-> FALSE, consumes |-> FALSE, posts |-> FALSE,
         wallet |-> 0, no |-> 0, total |-> 0]

Init ==
    /\ collected = [s \in Shipments |-> FALSE]
    /\ logs      = {}
    /\ bundles   = [k \in Keys |-> Nothing]
    /\ staging   = {}
    /\ wallets   = <<>>
    /\ entries   = {}
    /\ next      = 1
    /\ row       = [s \in Shipments |-> Nobody]
    /\ number    = [q \in NumberRows |-> Nobody]
    /\ pc        = [w \in Workers |-> "idle"]
    /\ tx        = [w \in Workers |-> Idle]

Logged(s)    == \E l \in logs : l.ship = s
KeyIsUsed(k) == k # Nothing /\ \E l \in logs : l.key = k
Credits(s)   == {e \in entries : e.ship = s /\ e.amount > 0}
Of(es, v)    == {e \in es : e.wallet = v}
Total(es)    == MapThenSumSet(LAMBDA e : e.amount, es)
Active       == {v \in DOMAIN wallets : wallets[v].active}

\* ensure_active_driver_treasury: the latest active wallet.
Latest == Max(Active)

\* cod_client_collection_exists, for a wallet.
CreditedIn(v, s) == s # Nothing /\ Credits(s) \cap Of(entries, v) # {}

Room == Cardinality(entries) < MaxEntries

-----------------------------------------------------------------------------
(* POST .../payment/collect/ commits the bundle in one transaction.        *)

\* Mutant: a payment below the amount due is staged.
StageShort(s, k, a) ==
    /\ Cardinality(staging) < MaxStaging
    /\ bundles[k] = Nothing
    /\ ~collected[s]
    /\ Active # {} => ~CreditedIn(Latest, s)
    /\ staging' = staging \cup {[key |-> k, ship |-> s, amount |-> a]}
    /\ UNCHANGED <<committed, next, locks, pc, tx>>

\* The checks read the shipment and the wallet without a lock.  A key that
\* has been staged is answered with its bundle, or refused.
Stage(s, k, a) ==
    /\ Cardinality(staging) < MaxStaging
    /\ bundles[k] = Nothing
    /\ a >= Due
    /\ ~collected[s]
    /\ Active # {} => ~CreditedIn(Latest, s)
    /\ staging' = staging \cup {[key |-> k, ship |-> s, amount |-> a]}
    /\ UNCHANGED <<committed, next, locks, pc, tx>>

\* The bundle is unique in its key: the loser of a race is answered with the
\* winner's bundle, or refused.
StageSave(p) ==
    /\ staging' = staging \ {p}
    /\ bundles' = IF bundles[p.key] # Nothing THEN bundles
                  ELSE [bundles EXCEPT ![p.key] =
                           [ship |-> p.ship, amount |-> p.amount, log |-> 0]]
    /\ UNCHANGED <<collected, logs, wallets, entries, next, locks, pc, tx>>

-----------------------------------------------------------------------------
(* The transactions.                                                       *)

Goto(w, at) == pc' = [pc EXCEPT ![w] = at]

Release(w) ==
    /\ row'    = [s \in Shipments |-> IF row[s] = w THEN Nobody ELSE row[s]]
    /\ number' = [q \in NumberRows |-> IF number[q] = w THEN Nobody ELSE number[q]]

Close(w) ==
    /\ Goto(w, "idle")
    /\ tx' = [tx EXCEPT ![w] = Idle]
    /\ Release(w)

\* Refused, failed or killed: nothing of the transaction stays.
Rollback(w) == Close(w) /\ UNCHANGED <<committed, next, staging>>

Work(w) == UNCHANGED <<committed, next, staging>>

\* _attach_payment_bundle_for_cod: the staged payment, or the amount sent; read
\* before the shipment is locked.
Attach(d, s, k, a) ==
    /\ pc[d] = "idle" /\ Room
    /\ ~\E l \in logs : l.key = k /\ l.ship = s
    /\ LET b == bundles[k]
       IN  /\ b = Nothing => a >= Due
           /\ b # Nothing => b.ship = s /\ b.amount >= Due
           /\ tx' = [tx EXCEPT ![d] =
                        [Idle EXCEPT !.kind = "app", !.ship = s, !.key = k,
                            !.amount = IF b = Nothing THEN a ELSE b.amount]]
    /\ Goto(d, "lock")
    /\ Work(d) /\ UNCHANGED locks

\* Mutant: the shipment is read without FOR UPDATE.
LockShipmentSkipped(d) ==
    /\ pc[d] = "lock"
    /\ \/ Logged(tx[d].ship) /\ Rollback(d)
       \/ /\ ~Logged(tx[d].ship)
          /\ tx' = [tx EXCEPT ![d].saw = collected[tx[d].ship]]
          /\ Goto(d, "log")
          /\ Work(d) /\ UNCHANGED locks

\* The shipment is read FOR UPDATE; then the kernel refuses a step that has
\* been executed.
LockShipment(d) ==
    /\ pc[d] = "lock" /\ row[tx[d].ship] = Nobody
    /\ \/ Logged(tx[d].ship) /\ Rollback(d)
       \/ /\ ~Logged(tx[d].ship)
          /\ row' = [row EXCEPT ![tx[d].ship] = d]
          /\ tx' = [tx EXCEPT ![d].saw = collected[tx[d].ship]]
          /\ Goto(d, "log")
          /\ Work(d) /\ UNCHANGED number

\* The office's form is checked before its transaction, without a lock.
OfficeLog(o, s) ==
    /\ pc[o] = "idle" /\ Room
    /\ ~Logged(s)
    /\ tx' = [tx EXCEPT ![o] = [Idle EXCEPT !.kind = "log", !.ship = s,
                                            !.amount = Due]]
    /\ Goto(o, "log")
    /\ Work(o) /\ UNCHANGED locks

\* The log takes its number and is inserted; a number read too early is
\* taken again.  Its key is unique.
InsertLog(w) ==
    /\ pc[w] = "log" /\ number["log"] = Nobody
    /\ \/ KeyIsUsed(tx[w].key) /\ Rollback(w)
       \/ /\ ~KeyIsUsed(tx[w].key)
          /\ number' = [number EXCEPT !["log"] = w]
          /\ Goto(w, "collect")
          /\ Work(w) /\ UNCHANGED <<row, tx>>

\* The payment staged under the key of the app's request.
Bundle(t) == IF t.kind = "app" THEN bundles[t.key] ELSE Nothing

Refused(t) ==
    \/ t.kind = "app" /\ t.saw
    \/ Bundle(t) # Nothing /\ (Bundle(t).ship # t.ship \/ Bundle(t).log # 0)

\* post_cod_collection_for_action9: the wallet, if there is one, and whether the
\* shipment has been credited in it.
Credit(t) ==
    IF Active = {} THEN t
    ELSE [t EXCEPT !.wallet = Latest, !.posts = ~CreditedIn(Latest, t.ship)]

\* Mutant: a driver without a wallet is collected from without a credit.
AfterCreditLax(t) == IF t.posts THEN "take" ELSE "commit"

\* What is to be inserted takes its number first.
AfterCredit(t) == IF t.wallet = 0 \/ t.posts THEN "take" ELSE "commit"

\* The side effect of Collect Payment.  The app's refuses a shipment that was
\* collected when it was locked, and looks the bundle up again; the portal's
\* refuses nothing.  Both save the shipment and look for the wallet.
Collect(w) ==
    /\ pc[w] = "collect"
    /\ LET t == tx[w]
           u == Credit([t EXCEPT
                   !.saw = FALSE,
                   !.consumes = Bundle(t) # Nothing,
                   !.amount = IF Bundle(t) = Nothing THEN @ ELSE Bundle(t).amount])
       IN  \/ Refused(t) /\ Rollback(w)
           \/ /\ ~Refused(t)
              /\ row[t.ship] \in {w, Nobody}
              /\ row' = [row EXCEPT ![t.ship] = w]
              /\ tx' = [tx EXCEPT ![w] = u]
              /\ Goto(w, AfterCredit(u))
              /\ Work(w) /\ UNCHANGED number

\* The wallet form found no active wallet of the driver.  It is checked before
\* the transaction: a wallet opened since does not stop a second one.
OfficeWallet(o) ==
    /\ pc[o] = "idle"
    /\ Active = {} /\ Len(wallets) < MaxWallets
    /\ tx' = [tx EXCEPT ![o] = [Idle EXCEPT !.kind = "wallet"]]
    /\ Goto(o, "take")
    /\ Work(o) /\ UNCHANGED locks

\* _next_auto_number_for_form reads the next number of the wallet, or of the
\* treasury transaction, without a lock.
ReadNumber(w) ==
    /\ pc[w] = "take"
    /\ \/ /\ tx[w].wallet = 0
          /\ tx' = [tx EXCEPT ![w].no = Len(wallets) + 1]
          /\ Goto(w, "open")
       \/ /\ tx[w].wallet # 0
          /\ tx' = [tx EXCEPT ![w].no = next]
          /\ Goto(w, "post")
    /\ Work(w) /\ UNCHANGED locks

\* The wallet's number is written and the wallet inserted; a number that has
\* meanwhile been used fails the transaction.
OpenWallet(w) ==
    /\ pc[w] = "open" /\ number["wallet"] = Nobody
    /\ \/ tx[w].no # Len(wallets) + 1 /\ Rollback(w)
       \/ /\ tx[w].no = Len(wallets) + 1
          /\ number' = [number EXCEPT !["wallet"] = w]
          /\ tx' = [tx EXCEPT ![w].wallet = tx[w].no,
                              ![w].posts = tx[w].kind = "app" \/ tx[w].kind = "log"]
          /\ Goto(w, IF tx[w].kind = "wallet" THEN "commit" ELSE "take")
          /\ Work(w) /\ UNCHANGED row

\* The treasury transaction form, for an active wallet.
OfficeEntry(o, v, p) ==
    /\ pc[o] = "idle" /\ Room
    /\ v \in Active
    /\ tx' = [tx EXCEPT ![o] = [Idle EXCEPT !.kind = "entry", !.ship = p.ship,
                                            !.amount = p.amount, !.wallet = v,
                                            !.posts = TRUE]]
    /\ Goto(o, "take")
    /\ Work(o) /\ UNCHANGED locks

\* A number that is used, or a second credit of the shipment in the wallet,
\* fails the transaction.
Taken(t) ==
    \/ t.no # next
    \/ t.amount > 0 /\ CreditedIn(t.wallet, t.ship)

Sum(t) == Total(Of(entries, t.wallet)) + t.amount

\* Mutant: the number is committed before the transaction of its record.
PostNumberFirst(w) ==
    /\ pc[w] = "post"
    /\ \/ Taken(tx[w]) /\ Rollback(w)
       \/ /\ ~Taken(tx[w])
          /\ next' = next + 1
          /\ tx' = [tx EXCEPT ![w].total = Sum(tx[w])]
          /\ Goto(w, "commit")
          /\ UNCHANGED <<committed, staging, locks>>

\* The number is written, the record inserted, and recalculate_balance sums
\* what is committed and the record.
Post(w) ==
    /\ pc[w] = "post" /\ number["entry"] = Nobody
    /\ \/ Taken(tx[w]) /\ Rollback(w)
       \/ /\ ~Taken(tx[w])
          /\ number' = [number EXCEPT !["entry"] = w]
          /\ tx' = [tx EXCEPT ![w].total = Sum(tx[w])]
          /\ Goto(w, "commit")
          /\ Work(w) /\ UNCHANGED row

IsCollection(w) == tx[w].kind \in {"app", "log"}

\* Mutant: the amount due is credited, whatever was staged.
EntryDue(t, log) == [no |-> t.no, wallet |-> t.wallet, ship |-> t.ship,
                     amount |-> Due, log |-> log]

EntryOf(t, log) == [no |-> t.no, wallet |-> t.wallet, ship |-> t.ship,
                    amount |-> t.amount, log |-> log]

\* Mutant: a wallet opened for a collection is lost.
WalletsBefore(t) ==
    IF t.posts /\ t.wallet \in DOMAIN wallets
    THEN [wallets EXCEPT ![t.wallet].balance = t.total]
    ELSE wallets

WalletsAfter(t) ==
    IF t.wallet > Len(wallets)
    THEN Append(wallets, [active |-> TRUE, balance |-> t.total])
    ELSE IF t.posts THEN [wallets EXCEPT ![t.wallet].balance = t.total]
    ELSE wallets

\* The writes of the transaction.  A record's reference to its shipment is
\* checked at the end: FOR KEY SHARE waits for the app, which holds the shipment's
\* row FOR UPDATE, and not for the office's UPDATE of it.
Commit(w) ==
    /\ pc[w] = "commit"
    /\ tx[w].ship # Nothing => row[tx[w].ship] \notin Drivers \ {w}
    /\ LET t   == tx[w]
           log == IF IsCollection(w) THEN Cardinality(logs) + 1 ELSE 0
       IN  /\ IF IsCollection(w)
              THEN /\ logs' = logs \cup {[no |-> log, ship |-> t.ship, key |-> t.key]}
                   /\ collected' = [collected EXCEPT ![t.ship] = TRUE]
              ELSE UNCHANGED <<logs, collected>>
           /\ bundles' = IF t.consumes THEN [bundles EXCEPT ![t.key].log = log]
                         ELSE bundles
           /\ entries' = IF t.posts THEN entries \cup {EntryOf(t, log)} ELSE entries
           /\ wallets' = WalletsAfter(t)
           /\ next' = IF t.posts THEN next + 1 ELSE next
    /\ Close(w)
    /\ UNCHANGED staging

\* Whose lock a worker is waiting for.
Holder(w) ==
    LET t == tx[w]
    IN  CASE pc[w] = "lock"                          -> row[t.ship]
          [] pc[w] = "log"                           -> number["log"]
          [] pc[w] = "open"                          -> number["wallet"]
          [] pc[w] = "post"                          -> number["entry"]
          [] pc[w] = "collect"                       -> row[t.ship]
          [] pc[w] = "commit" /\ t.ship # Nothing /\ row[t.ship] \in Drivers
                                                     -> row[t.ship]
          [] OTHER                                   -> Nobody

WaitsFor(w) == {Holder(w)} \ {w, Nobody}

\* The database fails one of the transactions that wait for each other.
Deadlocked(w) ==
    \E u \in WaitsFor(w) :
        \/ w \in WaitsFor(u)
        \/ \E x \in WaitsFor(u) : w \in WaitsFor(x)

\* Mutant: they wait on.
BreakDeadlockNever(w) == FALSE /\ Rollback(w)

BreakDeadlock(w) == Deadlocked(w) /\ Rollback(w)

\* The worker dies before its commit.
Crash(w) == pc[w] # "idle" /\ Rollback(w)

-----------------------------------------------------------------------------
(* DriverTreasuryEditView.post loads a wallet and saves the whole of it.    *)

EditLoad(o, v) ==
    /\ pc[o] = "idle"
    /\ tx' = [tx EXCEPT ![o] = [Idle EXCEPT !.kind = "edit", !.wallet = v,
                                            !.total = wallets[v].balance]]
    /\ Goto(o, "edit")
    /\ Work(o) /\ UNCHANGED locks

EditSave(o, active) ==
    /\ pc[o] = "edit"
    /\ active \/ Len(wallets) < MaxWallets
    /\ wallets' = [wallets EXCEPT ![tx[o].wallet] =
                      [active |-> active, balance |-> tx[o].total]]
    /\ Close(o)
    /\ UNCHANGED <<collected, logs, bundles, entries, next, staging>>

\* The shipment form saves the collection status chosen on it.
ShipmentEdit(s, c) ==
    /\ row[s] = Nobody
    /\ collected' = [collected EXCEPT ![s] = c]
    /\ UNCHANGED <<logs, bundles, wallets, entries, next, staging, locks, pc, tx>>

\* The gate of the job's end follows the log.
FollowLog(s) ==
    /\ Logged(s) /\ ~collected[s] /\ row[s] = Nobody
    /\ collected' = [collected EXCEPT ![s] = TRUE]
    /\ UNCHANGED <<logs, bundles, wallets, entries, next, staging, locks, pc, tx>>

-----------------------------------------------------------------------------

Step(w) ==
    \/ w \in Drivers /\ LockShipment(w)
    \/ InsertLog(w) \/ Collect(w) \/ ReadNumber(w) \/ OpenWallet(w)
    \/ Post(w) \/ Commit(w) \/ BreakDeadlock(w)
    \/ \E active \in BOOLEAN : EditSave(w, active)

Next ==
    \/ \E s \in Shipments, k \in Keys, a \in Staged : Stage(s, k, a)
    \/ \E p \in staging : StageSave(p)
    \/ \E d \in Drivers, s \in Unloaded, k \in Keys, a \in Sent :
          Attach(d, s, k, a)
    \/ \E o \in Offices, s \in Unloaded : OfficeLog(o, s)
    \/ \E o \in Offices : OfficeWallet(o)
    \/ \E o \in Offices, v \in DOMAIN wallets, p \in Postings : OfficeEntry(o, v, p)
    \/ \E o \in Offices, v \in DOMAIN wallets : EditLoad(o, v)
    \/ \E s \in Unloaded : FollowLog(s) \/ \E c \in BOOLEAN : ShipmentEdit(s, c)
    \/ \E w \in Workers : Step(w) \/ Crash(w)

Spec == Init /\ [][Next]_vars

\* A worker goes on with its transaction; the database grants its locks in the
\* order they were asked for, and breaks deadlocks.
FairSpec == Spec /\ \A w \in Workers : SF_vars(Step(w))

-----------------------------------------------------------------------------

Places == {"idle", "lock", "log", "collect", "take", "open", "post", "commit", "edit"}

\* Types of the rows and locks.
TypeOK ==
    /\ collected \in [Shipments -> BOOLEAN]
    /\ logs \subseteq [no : Nat, ship : Shipments, key : Keys \cup {Nothing}]
    /\ bundles \in [Keys -> [ship : Shipments, amount : Staged, log : Nat] \cup {Nothing}]
    /\ staging \subseteq [key : Keys, ship : Shipments, amount : Staged]
    /\ wallets \in Seq([active : BOOLEAN, balance : Int])
    /\ entries \subseteq [no : Nat, wallet : DOMAIN wallets,
                          ship : Shipments \cup {Nothing}, amount : Int, log : Nat]
    /\ next \in Nat
    /\ row \in [Shipments -> Workers \cup {Nobody}]
    /\ number \in [NumberRows -> Workers \cup {Nobody}]
    /\ pc \in [Workers -> Places]

\* A collection is logged only with money on a wallet: the log, the consumed
\* payment and the credit appear together or not at all, whoever collected, lost
\* a race or was rolled back.
LoggedIsCredited == \A l \in logs : Credits(l.ship) # {}

\* The driver's app collects a shipment once, however often it stages, retries
\* under another key or races the office.
CollectedOnce ==
    \A l, m \in logs :
        l.ship = m.ship /\ l.key # Nothing /\ m.key # Nothing => l = m

\* A staged payment that is consumed is the one its log collected: same key,
\* same shipment, and what the log credited is the staged amount.
PaidAsStaged ==
    \A k \in Keys : bundles[k] # Nothing /\ bundles[k].log # 0 =>
        /\ [no |-> bundles[k].log, ship |-> bundles[k].ship, key |-> k] \in logs
        /\ \A e \in entries : e.log = bundles[k].log => e.amount = bundles[k].amount

\* No collection credits less than the shipment's cash on delivery.
PaidInFull == \A e \in entries : e.log # 0 => e.amount >= Due

\* "Recalculate current_balance from all transactions": a transaction that is
\* posted while others are under way leaves its wallet with the sum of all.
PostingSums ==
    [][\A v \in DOMAIN wallets :
          Of(entries', v) # Of(entries, v) =>
              wallets'[v].balance = Total(Of(entries', v))]_vars

\* Every transaction ends, and its worker is idle again and again, though the app takes the shipment's row before the
\* numbers' rows and the office takes them after.
EveryTransactionEnds ==
    \A w \in Workers : []<>(pc[w] = "idle")
=============================================================================
