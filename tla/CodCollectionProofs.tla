------------------------- MODULE CodCollectionProofs -------------------------
(***************************************************************************)
(* What the collection of cash on delivery keeps, for any number of        *)
(* drivers' workers, offices, shipments, keys and amounts, and however     *)
(* many payments, wallets and treasury transactions there are.             *)
(***************************************************************************)
EXTENDS CodCollection, TLAPS, FiniteSetTheorems, SequenceTheorems

Fields == {"kind", "ship", "key", "amount", "saw", "consumes", "posts",
           "wallet", "no", "total"}

Payment == [ship : Shipments, amount : Int, log : Nat]

\* What the workers hold, as far as the proofs need it: the sums and numbers of
\* the wallets are left open.
Shape ==
    /\ pc \in [Workers -> Places]
    /\ DOMAIN tx = Workers
    /\ \A w \in Workers : DOMAIN tx[w] = Fields
    /\ row \in [Shipments -> Workers \cup {Nobody}]
    /\ DOMAIN bundles = Keys

\* No payment below the amount due is staged, or about to be.
Paid(k) == bundles[k] \in Payment /\ bundles[k].amount >= Due

Funds ==
    /\ \A k \in Keys : bundles[k] # Nothing => Paid(k)
    /\ \A p \in staging : p.ship \in Shipments /\ p.amount \in Int /\ p.amount >= Due

\* A collection under way: its amount is enough; the app's holds the row of a
\* shipment that is not logged; every collection holds the row once the shipment
\* is saved, and it ends with a credit or on one.
Sound(w) ==
    /\ tx[w].consumes =>
          tx[w].kind = "app" /\ tx[w].key \in Keys /\ Paid(tx[w].key)
    /\ IsCollection(w) =>
        /\ tx[w].ship \in Shipments
        /\ tx[w].amount \in Int /\ tx[w].amount >= Due
        /\ tx[w].kind = "app" => tx[w].key \in Keys
        /\ tx[w].kind = "log" => tx[w].key = Nothing
        /\ pc[w] \in {"lock", "log", "collect"} => tx[w].wallet = 0
        /\ pc[w] = "take" => tx[w].posts \/ tx[w].wallet = 0
        /\ pc[w] = "post" => tx[w].posts
        /\ pc[w] = "commit" => tx[w].posts \/ Credits(tx[w].ship) # {}
        /\ pc[w] \in {"take", "open", "post", "commit"} => row[tx[w].ship] = w
        /\ tx[w].kind = "app" /\ pc[w] # "lock" =>
              row[tx[w].ship] = w /\ ~Logged(tx[w].ship)

Books == LoggedIsCredited /\ CollectedOnce /\ PaidInFull

Inv == Shape /\ Funds /\ Books /\ \A w \in Workers : Sound(w)

LEMMA IdleFields == DOMAIN Idle = Fields
BY DEF Idle, Fields

LEMMA InvInit == Init => Inv
<1> SUFFICES ASSUME Init PROVE Inv
  OBVIOUS
<1>1. Shape
  BY IdleFields DEF Init, Shape, Places
<1>2. Funds
  BY DEF Init, Funds
<1>3. Books
  BY DEF Init, Books, LoggedIsCredited, CollectedOnce, PaidInFull
<1>4. ASSUME NEW w \in Workers PROVE Sound(w)
  BY DEF Init, Sound, IsCollection, Idle
<1> QED BY <1>1, <1>2, <1>3, <1>4 DEF Inv

-----------------------------------------------------------------------------
(***************************************************************************)
(* What a step leaves alone                                                *)
(***************************************************************************)

\* A step takes no row from v, and logs no shipment that v holds.
Spares(v) ==
    /\ pc'[v] = pc[v] /\ tx'[v] = tx[v]
    /\ entries \subseteq entries'
    /\ \A k \in Keys : Paid(k) => Paid(k)'
    /\ \A s \in Shipments : row[s] = v =>
          row'[s] = v /\ ((\E l \in logs' : l.ship = s) => Logged(s))

LEMMA SparedIsSound ==
    ASSUME NEW v \in Workers, Sound(v), Spares(v)
    PROVE  Sound(v)'
<1>1. Credits(tx[v].ship) # {} => (Credits(tx[v].ship) # {})'
  BY DEF Spares, Credits
<1>2. ASSUME NEW k \in Keys, Paid(k)
      PROVE  bundles'[k] \in Payment /\ bundles'[k].amount >= Due
  BY <1>2 DEF Spares, Paid
<1>3. CASE ~IsCollection(v)
  BY <1>2, <1>3 DEF Sound, Spares, IsCollection, Paid
<1>4. CASE IsCollection(v)
  BY <1>1, <1>2, <1>4 DEF Sound, Spares, IsCollection, Logged, Paid
<1> QED BY <1>3, <1>4

\* The transaction of w goes on, and writes nothing yet.
Goes(w) ==
    /\ UNCHANGED <<logs, entries, bundles, staging>>
    /\ pc' \in [Workers -> Places]
    /\ DOMAIN tx' = Workers
    /\ DOMAIN tx'[w] = Fields
    /\ row' \in [Shipments -> Workers \cup {Nobody}]
    /\ \A v \in Workers \ {w} :
          /\ pc'[v] = pc[v] /\ tx'[v] = tx[v]
          /\ \A s \in Shipments : row[s] = v => row'[s] = v

LEMMA GoesOn ==
    ASSUME Inv, NEW w \in Workers, Goes(w), Sound(w)'
    PROVE  Inv'
<1>1. Shape'
  BY DEF Inv, Shape, Goes
<1>2. Funds' /\ Books'
  BY DEF Inv, Goes, Funds, Paid, Books, LoggedIsCredited, CollectedOnce, PaidInFull, Credits
<1>3. ASSUME NEW v \in Workers, v # w PROVE Sound(v)'
  BY <1>3, SparedIsSound DEF Inv, Goes, Spares, Logged, Paid
<1> QED BY <1>1, <1>2, <1>3 DEF Inv

\* A closed transaction holds nothing.
LEMMA ClosedIsSound ==
    ASSUME Shape, NEW w \in Workers, Close(w)
    PROVE  /\ Sound(w)'
           /\ pc' \in [Workers -> Places] /\ DOMAIN tx' = Workers
           /\ DOMAIN tx'[w] = Fields
           /\ row' \in [Shipments -> Workers \cup {Nobody}]
           /\ \A v \in Workers \ {w} :
                 /\ pc'[v] = pc[v] /\ tx'[v] = tx[v]
                 /\ \A s \in Shipments : row[s] = v => row'[s] = v
<1>1. tx'[w] = Idle
  BY DEF Close, Shape
<1>2. Sound(w)'
  BY <1>1 DEF Sound, IsCollection, Idle
<1>3. pc' \in [Workers -> Places] /\ DOMAIN tx' = Workers
  BY DEF Close, Goto, Shape, Places
<1>4. row' \in [Shipments -> Workers \cup {Nobody}]
  BY DEF Close, Release, Shape
<1>5. ASSUME NEW v \in Workers \ {w}
      PROVE  /\ pc'[v] = pc[v] /\ tx'[v] = tx[v]
             /\ \A s \in Shipments : row[s] = v => row'[s] = v
  BY <1>5 DEF Close, Goto, Release, Shape
<1> QED BY <1>1, <1>2, <1>3, <1>4, <1>5, IdleFields

LEMMA RollbackKeeps ==
    ASSUME Inv, NEW w \in Workers, Rollback(w)
    PROVE  Inv'
<1>1. Shape /\ Close(w)
  BY DEF Inv, Rollback
<1>2. Goes(w) /\ Sound(w)'
  BY <1>1, ClosedIsSound DEF Rollback, Goes, committed
<1> QED BY <1>2, GoesOn

-----------------------------------------------------------------------------
(***************************************************************************)
(* The steps before the commit                                             *)
(***************************************************************************)

LEMMA StageKeeps ==
    ASSUME Inv, NEW s \in Shipments, NEW k \in Keys, NEW a \in Staged, Stage(s, k, a)
    PROVE  Inv'
<1>1. Funds'
  BY AmountsAssumption DEF Inv, Stage, Funds, Paid, committed
<1>2. Shape' /\ Books'
  BY DEF Inv, Stage, Shape, Books, LoggedIsCredited, CollectedOnce, PaidInFull,
         Credits, committed, locks
<1>3. \A v \in Workers : Sound(v)'
  BY SparedIsSound DEF Inv, Stage, Spares, Logged, Paid, committed, locks
<1> QED BY <1>1, <1>2, <1>3 DEF Inv

LEMMA StageSaveKeeps ==
    ASSUME Inv, NEW p \in staging, StageSave(p)
    PROVE  Inv'
<1>1. Funds'
  <2>1. ASSUME NEW k \in Keys, bundles'[k] # Nothing, bundles'[k] # bundles[k]
        PROVE  bundles'[k] = [ship |-> p.ship, amount |-> p.amount, log |-> 0]
    BY <2>1 DEF StageSave, Inv, Shape
  <2> QED BY <2>1 DEF Inv, StageSave, Funds, Paid, Payment
<1>2. Shape' /\ Books'
  BY DEF Inv, StageSave, Shape, Books, LoggedIsCredited, CollectedOnce, PaidInFull,
         Credits, locks
<1>3. ASSUME NEW k \in Keys, Paid(k)
      PROVE  bundles'[k] \in Payment /\ bundles'[k].amount >= Due
  BY <1>1, <1>3 DEF StageSave, Inv, Shape, Funds, Paid, Payment
<1>4. \A v \in Workers : Sound(v)'
  BY <1>3, SparedIsSound DEF Inv, StageSave, Spares, Logged, Paid, locks
<1> QED BY <1>1, <1>2, <1>4 DEF Inv

LEMMA AttachKeeps ==
    ASSUME Inv, NEW d \in Drivers, NEW s \in Unloaded, NEW k \in Keys, NEW a \in Sent,
           Attach(d, s, k, a)
    PROVE  Inv'
<1>0. d \in Workers /\ s \in Shipments
  BY ShipmentsAssumption DEF Workers
<1> DEFINE b == bundles[k]
           sum == IF b = Nothing THEN a ELSE b.amount
<1>1. sum \in Int /\ sum >= Due
  BY AmountsAssumption DEF Attach, Inv, Funds, Paid, Payment
<1>2. /\ tx' = [tx EXCEPT ![d] = [Idle EXCEPT !.kind = "app", !.ship = s, !.key = k,
                                              !.amount = sum]]
      /\ pc' = [pc EXCEPT ![d] = "lock"]
      /\ UNCHANGED <<committed, staging, locks>>
  BY DEF Attach, Goto, Work
<1> HIDE DEF sum
<1>3. /\ tx'[d].kind = "app" /\ tx'[d].ship = s /\ tx'[d].key = k
      /\ tx'[d].amount = sum /\ tx'[d].wallet = 0 /\ DOMAIN tx'[d] = Fields
      /\ tx'[d].consumes = FALSE /\ pc'[d] = "lock"
  BY <1>0, <1>2, IdleFields DEF Inv, Shape, Idle
<1>4. Sound(d)'
  BY <1>0, <1>1, <1>3 DEF Sound
<1>5. Goes(d)
  BY <1>0, <1>2, <1>3 DEF Goes, Inv, Shape, Places, committed, locks
<1> QED BY <1>0, <1>4, <1>5, GoesOn

LEMMA LockShipmentKeeps ==
    ASSUME Inv, NEW d \in Drivers, LockShipment(d)
    PROVE  Inv'
<1>0. d \in Workers
  BY DEF Workers
<1>1. CASE Rollback(d)
  BY <1>0, <1>1, RollbackKeeps
<1>2. CASE ~Rollback(d)
  <2>1. /\ pc[d] = "lock" /\ row[tx[d].ship] = Nobody /\ ~Logged(tx[d].ship)
        /\ row' = [row EXCEPT ![tx[d].ship] = d]
        /\ tx' = [tx EXCEPT ![d].saw = collected[tx[d].ship]]
        /\ pc' = [pc EXCEPT ![d] = "log"]
        /\ UNCHANGED <<committed, staging>>
    BY <1>2 DEF LockShipment, Goto, Work
  <2>2. /\ DOMAIN tx'[d] = Fields /\ tx'[d].ship = tx[d].ship
        /\ tx'[d].amount = tx[d].amount /\ tx'[d].kind = tx[d].kind
        /\ tx'[d].key = tx[d].key /\ tx'[d].wallet = tx[d].wallet
        /\ tx'[d].consumes = tx[d].consumes
        /\ pc'[d] = "log"
    BY <1>0, <2>1 DEF Inv, Shape, Fields
  <2>3. Sound(d)'
    <3>1. Sound(d) /\ UNCHANGED logs
      BY <1>0, <2>1 DEF Inv, committed
    <3> QED BY <2>1, <2>2, <3>1
            DEF Sound, IsCollection, Logged, Inv, Shape, Paid, committed
  <2>4. Goes(d)
    BY <1>0, <2>1, <2>2, NobodyAssumption DEF Goes, Inv, Shape, Places, committed, Workers
  <2> QED BY <1>0, <2>3, <2>4, GoesOn
<1> QED BY <1>1, <1>2

LEMMA OfficeLogKeeps ==
    ASSUME Inv, NEW o \in Offices, NEW s \in Unloaded, OfficeLog(o, s)
    PROVE  Inv'
<1>0. o \in Workers /\ s \in Shipments
  BY ShipmentsAssumption DEF Workers
<1>1. /\ tx' = [tx EXCEPT ![o] = [Idle EXCEPT !.kind = "log", !.ship = s,
                                              !.amount = Due]]
      /\ pc' = [pc EXCEPT ![o] = "log"]
      /\ UNCHANGED <<committed, staging, locks>>
  BY DEF OfficeLog, Goto, Work
<1>2. /\ tx'[o].kind = "log" /\ tx'[o].ship = s /\ tx'[o].key = Nothing
      /\ tx'[o].amount = Due /\ tx'[o].wallet = 0 /\ DOMAIN tx'[o] = Fields
      /\ tx'[o].consumes = FALSE /\ pc'[o] = "log"
  BY <1>0, <1>1, IdleFields DEF Inv, Shape, Idle
<1>3. Sound(o)'
  BY <1>0, <1>2, AmountsAssumption DEF Sound
<1>4. Goes(o)
  BY <1>0, <1>1, <1>2 DEF Goes, Inv, Shape, Places, committed, locks
<1> QED BY <1>0, <1>3, <1>4, GoesOn

\* An office's transaction that collects nothing.
LEMMA OfficeKeeps ==
    ASSUME Inv, NEW o \in Offices, NEW t, NEW at \in Places,
           DOMAIN t = Fields, t.kind \notin {"app", "log"}, ~t.consumes,
           tx' = [tx EXCEPT ![o] = t], Goto(o, at), Work(o), UNCHANGED locks
    PROVE  Inv'
<1>0. o \in Workers
  BY DEF Workers
<1>1. Sound(o)'
  BY <1>0 DEF Sound, IsCollection, Inv, Shape
<1>2. Goes(o)
  BY <1>0 DEF Goes, Goto, Work, Inv, Shape, committed, locks
<1> QED BY <1>0, <1>1, <1>2, GoesOn

LEMMA OfficeWalletKeeps ==
    ASSUME Inv, NEW o \in Offices, OfficeWallet(o)
    PROVE  Inv'
<1> DEFINE t == [Idle EXCEPT !.kind = "wallet"]
<1>1. DOMAIN t = Fields /\ t.kind = "wallet" /\ ~t.consumes
  BY IdleFields DEF Idle
<1> QED BY <1>1, OfficeKeeps DEF OfficeWallet, Places

LEMMA OfficeEntryKeeps ==
    ASSUME Inv, NEW o \in Offices, NEW v, NEW p, OfficeEntry(o, v, p)
    PROVE  Inv'
<1> DEFINE t == [Idle EXCEPT !.kind = "entry", !.ship = p.ship, !.amount = p.amount,
                             !.wallet = v, !.posts = TRUE]
<1>1. DOMAIN t = Fields /\ t.kind = "entry" /\ ~t.consumes
  BY IdleFields DEF Idle
<1> QED BY <1>1, OfficeKeeps DEF OfficeEntry, Places

LEMMA EditLoadKeeps ==
    ASSUME Inv, NEW o \in Offices, NEW v, EditLoad(o, v)
    PROVE  Inv'
<1> DEFINE t == [Idle EXCEPT !.kind = "edit", !.wallet = v, !.total = wallets[v].balance]
<1>1. DOMAIN t = Fields /\ t.kind = "edit" /\ ~t.consumes
  BY IdleFields DEF Idle
<1> QED BY <1>1, OfficeKeeps DEF EditLoad, Places

LEMMA InsertLogKeeps ==
    ASSUME Inv, NEW w \in Workers, InsertLog(w)
    PROVE  Inv'
<1>1. CASE Rollback(w)
  BY <1>1, RollbackKeeps
<1>2. CASE ~Rollback(w)
  <2>1. /\ pc[w] = "log" /\ pc' = [pc EXCEPT ![w] = "collect"]
        /\ UNCHANGED <<committed, staging, row, tx>>
    BY <1>2 DEF InsertLog, Goto, Work
  <2>2. Sound(w)'
    <3>1. Sound(w)
      BY DEF Inv
    <3> QED BY <2>1, <3>1 DEF Sound, IsCollection, Logged, Inv, Shape, Paid, committed
  <2>3. Goes(w)
    BY <2>1 DEF Goes, Inv, Shape, Places, committed
  <2> QED BY <2>2, <2>3, GoesOn
<1> QED BY <1>1, <1>2

\* What the side effect holds when it has looked for the wallet and the credit.
LEMMA CreditFinds ==
    ASSUME NEW t, DOMAIN t = Fields
    PROVE  LET u == Credit(t)
           IN  /\ DOMAIN u = Fields
               /\ u.ship = t.ship /\ u.key = t.key /\ u.kind = t.kind
               /\ u.amount = t.amount /\ u.consumes = t.consumes
               /\ AfterCredit(u) = "take" => u.posts \/ u.wallet = 0
               /\ AfterCredit(u) = "commit" /\ t.wallet = 0 => Credits(t.ship) # {}
BY DEF Credit, AfterCredit, CreditedIn, Fields

LEMMA CollectKeeps ==
    ASSUME Inv, NEW w \in Workers, Collect(w)
    PROVE  Inv'
<1>1. CASE Rollback(w)
  BY <1>1, RollbackKeeps
<1>2. CASE ~Rollback(w)
  <2> DEFINE c == [tx[w] EXCEPT
                     !.saw = FALSE,
                     !.consumes = Bundle(tx[w]) # Nothing,
                     !.amount = IF Bundle(tx[w]) = Nothing THEN @
                                ELSE Bundle(tx[w]).amount]
             u == Credit(c)
  <2>0. DOMAIN tx[w] = Fields /\ Sound(w)
    BY DEF Inv, Shape
  <2>1. /\ pc[w] = "collect" /\ row[tx[w].ship] \in {w, Nobody}
        /\ row' = [row EXCEPT ![tx[w].ship] = w]
        /\ tx' = [tx EXCEPT ![w] = u] /\ pc' = [pc EXCEPT ![w] = AfterCredit(u)]
        /\ UNCHANGED <<committed, staging>>
    BY <1>2 DEF Collect, Goto, Work
  <2>2. /\ DOMAIN c = Fields /\ c.ship = tx[w].ship /\ c.key = tx[w].key
        /\ c.kind = tx[w].kind /\ c.wallet = tx[w].wallet
        /\ c.consumes = (Bundle(tx[w]) # Nothing)
        /\ c.amount = IF Bundle(tx[w]) = Nothing THEN tx[w].amount
                      ELSE Bundle(tx[w]).amount
    BY <2>0 DEF Fields
  <2>3. /\ IsCollection(w) => c.amount \in Int /\ c.amount >= Due
        /\ c.consumes => tx[w].kind = "app" /\ tx[w].key \in Keys /\ Paid(tx[w].key)
    BY <2>0, <2>2 DEF Sound, IsCollection, Bundle, Inv, Funds, Paid, Payment
  <2> HIDE DEF c, u
  <2>4. /\ DOMAIN u = Fields /\ u.ship = c.ship /\ u.key = c.key /\ u.kind = c.kind
        /\ u.amount = c.amount /\ u.consumes = c.consumes
        /\ AfterCredit(u) = "take" => u.posts \/ u.wallet = 0
        /\ AfterCredit(u) = "commit" /\ c.wallet = 0 => Credits(c.ship) # {}
    BY <2>2, CreditFinds DEF u
  <2>5. tx'[w] = u /\ pc'[w] = AfterCredit(u) /\ AfterCredit(u) \in {"take", "commit"}
    BY <2>1 DEF Inv, Shape, AfterCredit
  <2>6. Sound(w)'
    BY <2>0, <2>1, <2>2, <2>3, <2>4, <2>5
       DEF Sound, IsCollection, Inv, Shape, Logged, Credits, Paid, committed
  <2>7. Goes(w)
    <3>1. row' \in [Shipments -> Workers \cup {Nobody}]
      BY <2>1 DEF Inv, Shape
    <3>2. \A v \in Workers \ {w}, s \in Shipments : row[s] = v => row'[s] = v
      BY <2>1, NobodyAssumption DEF Inv, Shape, Workers
    <3> QED BY <2>1, <2>4, <2>5, <2>2, <3>1, <3>2 DEF Goes, Inv, Shape, Places, committed
  <2> QED BY <2>6, <2>7, GoesOn
<1> QED BY <1>1, <1>2

LEMMA ReadNumberKeeps ==
    ASSUME Inv, NEW w \in Workers, ReadNumber(w)
    PROVE  Inv'
<1>0. DOMAIN tx[w] = Fields /\ Sound(w)
  BY DEF Inv, Shape
<1>1. PICK n \in {Len(wallets) + 1, next}, at \in {"open", "post"} :
        /\ at = "post" => tx[w].wallet # 0
        /\ tx' = [tx EXCEPT ![w].no = n] /\ pc' = [pc EXCEPT ![w] = at]
        /\ pc[w] = "take" /\ UNCHANGED <<committed, staging, row>>
  BY DEF ReadNumber, Goto, Work, locks
<1>2. /\ DOMAIN tx'[w] = Fields /\ tx'[w].ship = tx[w].ship
      /\ tx'[w].key = tx[w].key /\ tx'[w].kind = tx[w].kind
      /\ tx'[w].amount = tx[w].amount /\ tx'[w].posts = tx[w].posts
      /\ tx'[w].consumes = tx[w].consumes
      /\ pc'[w] = at
  BY <1>0, <1>1 DEF Inv, Shape, Fields
<1>3. Sound(w)'
  BY <1>0, <1>1, <1>2 DEF Sound, IsCollection, Logged, Paid, committed
<1>4. Goes(w)
  BY <1>1, <1>2 DEF Goes, Inv, Shape, Places, committed
<1> QED BY <1>3, <1>4, GoesOn

LEMMA OpenWalletKeeps ==
    ASSUME Inv, NEW w \in Workers, OpenWallet(w)
    PROVE  Inv'
<1>1. CASE Rollback(w)
  BY <1>1, RollbackKeeps
<1>2. CASE ~Rollback(w)
  <2>0. DOMAIN tx[w] = Fields /\ Sound(w)
    BY DEF Inv, Shape
  <2>1. /\ pc[w] = "open" /\ UNCHANGED <<committed, staging, row>>
        /\ tx' = [tx EXCEPT ![w].wallet = tx[w].no,
                            ![w].posts = tx[w].kind = "app" \/ tx[w].kind = "log"]
        /\ pc' = [pc EXCEPT ![w] = IF tx[w].kind = "wallet" THEN "commit" ELSE "take"]
    BY <1>2 DEF OpenWallet, Goto, Work
  <2>2. /\ DOMAIN tx'[w] = Fields /\ tx'[w].ship = tx[w].ship
        /\ tx'[w].key = tx[w].key /\ tx'[w].kind = tx[w].kind
        /\ tx'[w].amount = tx[w].amount /\ tx'[w].consumes = tx[w].consumes
        /\ IsCollection(w) => tx'[w].posts
    BY <2>0, <2>1 DEF Inv, Shape, Fields, IsCollection
  <2>3. pc'[w] = IF tx[w].kind = "wallet" THEN "commit" ELSE "take"
    BY <2>1 DEF Inv, Shape
  <2>4. Sound(w)'
    <3>1. CASE ~IsCollection(w)
      BY <2>0, <2>1, <2>2, <3>1 DEF Sound, IsCollection, Paid, committed
    <3>2. CASE IsCollection(w)
      <4>1. tx'[w].posts /\ pc'[w] = "take"
        BY <2>2, <2>3, <3>2 DEF IsCollection
      <4>2. /\ tx[w].ship \in Shipments /\ row'[tx[w].ship] = w
            /\ tx[w].kind = "app" => row'[tx[w].ship] = w /\ ~Logged(tx[w].ship)
        BY <2>0, <2>1, <3>2 DEF Sound
      <4> QED BY <2>0, <2>1, <2>2, <3>2, <4>1, <4>2
              DEF Sound, IsCollection, Logged, Paid, committed
    <3> QED BY <3>1, <3>2
  <2>5. Goes(w)
    BY <2>1, <2>2 DEF Goes, Inv, Shape, Places, committed
  <2> QED BY <2>4, <2>5, GoesOn
<1> QED BY <1>1, <1>2

LEMMA PostKeeps ==
    ASSUME Inv, NEW w \in Workers, Post(w)
    PROVE  Inv'
<1>1. CASE Rollback(w)
  BY <1>1, RollbackKeeps
<1>2. CASE ~Rollback(w)
  <2>0. DOMAIN tx[w] = Fields /\ Sound(w)
    BY DEF Inv, Shape
  <2>1. /\ pc[w] = "post" /\ UNCHANGED <<committed, staging, row>>
        /\ tx' = [tx EXCEPT ![w].total = Sum(tx[w])]
        /\ pc' = [pc EXCEPT ![w] = "commit"]
    BY <1>2 DEF Post, Goto, Work
  <2>2. /\ DOMAIN tx'[w] = Fields /\ tx'[w].ship = tx[w].ship
        /\ tx'[w].key = tx[w].key /\ tx'[w].kind = tx[w].kind
        /\ tx'[w].amount = tx[w].amount /\ tx'[w].posts = tx[w].posts
        /\ tx'[w].consumes = tx[w].consumes
    BY <2>0, <2>1 DEF Inv, Shape, Fields
  <2>3. pc'[w] = "commit"
    BY <2>1 DEF Inv, Shape
  <2>4. Sound(w)'
    BY <2>0, <2>1, <2>2, <2>3 DEF Sound, IsCollection, Logged, Paid, committed
  <2>5. Goes(w)
    BY <2>1, <2>2 DEF Goes, Inv, Shape, Places, committed
  <2> QED BY <2>4, <2>5, GoesOn
<1> QED BY <1>1, <1>2

LEMMA EditSaveKeeps ==
    ASSUME Inv, NEW o \in Workers, NEW active \in BOOLEAN, EditSave(o, active)
    PROVE  Inv'
<1>1. Close(o) /\ UNCHANGED <<logs, bundles, entries, staging>>
  BY DEF EditSave
<1>2. Goes(o) /\ Sound(o)'
  BY <1>1, ClosedIsSound DEF Inv, Goes
<1> QED BY <1>2, GoesOn

\* A shipment that is saved changes nothing the collections rest on.
LEMMA SavedShipmentKeeps ==
    ASSUME Inv, UNCHANGED <<logs, bundles, entries, staging, locks, pc, tx>>
    PROVE  Inv'
<1>1. Shape' /\ Funds' /\ Books'
  BY DEF Inv, Shape, Funds, Paid, Books, LoggedIsCredited, CollectedOnce, PaidInFull,
         Credits, locks
<1>2. \A v \in Workers : Sound(v)'
  BY SparedIsSound DEF Inv, Spares, Logged, Paid, locks
<1> QED BY <1>1, <1>2 DEF Inv

-----------------------------------------------------------------------------
(***************************************************************************)
(* The commit                                                              *)
(***************************************************************************)

LogNo(w) == IF IsCollection(w) THEN Cardinality(logs) + 1 ELSE 0
LogOf(w) == [no |-> LogNo(w), ship |-> tx[w].ship, key |-> tx[w].key]

\* What a commit writes, row by row.
LEMMA CommitWrites ==
    ASSUME NEW w \in Workers, Commit(w)
    PROVE  /\ pc[w] = "commit" /\ Close(w) /\ UNCHANGED staging
           /\ logs' = IF IsCollection(w) THEN logs \cup {LogOf(w)} ELSE logs
           /\ entries' = IF tx[w].posts THEN entries \cup {EntryOf(tx[w], LogNo(w))}
                         ELSE entries
           /\ bundles' = IF tx[w].consumes
                         THEN [bundles EXCEPT ![tx[w].key].log = LogNo(w)]
                         ELSE bundles
BY DEF Commit, LogNo, LogOf

LEMMA CommitKeeps ==
    ASSUME Inv, NEW w \in Workers, Commit(w), LogNo(w) \in Nat
    PROVE  Inv'
<1> DEFINE t == tx[w]
           n == LogNo(w)
           e == EntryOf(t, n)
<1>0. Sound(w) /\ Shape
  BY DEF Inv
<1>1. /\ pc[w] = "commit" /\ Close(w) /\ UNCHANGED staging
      /\ logs' = IF IsCollection(w) THEN logs \cup {LogOf(w)} ELSE logs
      /\ entries' = IF t.posts THEN entries \cup {e} ELSE entries
      /\ bundles' = IF t.consumes THEN [bundles EXCEPT ![t.key].log = n] ELSE bundles
  BY CommitWrites
<1>2. /\ Sound(w)'
      /\ pc' \in [Workers -> Places] /\ DOMAIN tx' = Workers
      /\ DOMAIN tx'[w] = Fields
      /\ row' \in [Shipments -> Workers \cup {Nobody}]
      /\ \A v \in Workers \ {w} :
            /\ pc'[v] = pc[v] /\ tx'[v] = tx[v]
            /\ \A s \in Shipments : row[s] = v => row'[s] = v
  BY <1>0, <1>1, ClosedIsSound
<1>3. /\ LogOf(w).ship = t.ship /\ LogOf(w).key = t.key
      /\ e.ship = t.ship /\ e.amount = t.amount /\ e.log = n
  BY DEF LogOf, EntryOf
<1>4. entries \subseteq entries' /\ logs \subseteq logs'
  BY <1>1
<1> HIDE DEF n, e
<1>5. ASSUME NEW k \in Keys, Paid(k)
      PROVE  bundles'[k] \in Payment /\ bundles'[k].amount = bundles[k].amount
  <2>1. CASE t.consumes /\ k = t.key
    <3>1. bundles'[k] = [bundles[k] EXCEPT !.log = n]
      BY <1>0, <1>1, <2>1 DEF Shape
    <3> QED BY <1>5, <3>1 DEF Paid, Payment, n
  <2>2. CASE ~(t.consumes /\ k = t.key)
    BY <1>0, <1>1, <1>5, <2>2 DEF Shape, Paid
  <2> QED BY <2>1, <2>2
<1>6. Shape'
  BY <1>0, <1>1, <1>2 DEF Shape
<1>7. Funds'
  <2>1. ASSUME NEW k \in Keys, bundles'[k] # Nothing PROVE Paid(k)
    BY <1>0, <1>1, <2>1 DEF Inv, Shape, Funds, Sound
  <2> QED BY <1>1, <1>5, <2>1 DEF Inv, Funds, Paid
<1>8. LoggedIsCredited'
  <2>1. ASSUME IsCollection(w)
        PROVE  \E c \in entries' : c.ship = t.ship /\ c.amount > 0
    <3>1. CASE t.posts
      <4>1. e \in entries' /\ e.amount > 0
        BY <1>0, <1>1, <1>3, <2>1, <3>1, AmountsAssumption DEF Sound
      <4> QED BY <1>3, <4>1
    <3>2. CASE ~t.posts
      BY <1>0, <1>1, <1>4, <2>1, <3>2 DEF Sound, Credits
    <3> QED BY <3>1, <3>2
  <2>2. ASSUME NEW l \in logs
        PROVE  \E c \in entries' : c.ship = l.ship /\ c.amount > 0
    BY <1>4 DEF Inv, Books, LoggedIsCredited, Credits
  <2>3. ASSUME NEW l \in logs'
        PROVE  \E c \in entries' : c.ship = l.ship /\ c.amount > 0
    BY <1>1, <1>3, <2>1, <2>2
  <2> QED BY <2>3 DEF LoggedIsCredited, Credits
<1>9. CollectedOnce'
  <2>1. IsCollection(w) /\ t.key # Nothing => t.kind = "app" /\ ~Logged(t.ship)
    BY <1>0, <1>1 DEF Sound, IsCollection
  <2> QED BY <1>1, <1>3, <2>1 DEF Inv, Books, CollectedOnce, Logged
<1>10. PaidInFull'
  <2>1. t.posts /\ n # 0 => t.amount >= Due
    BY <1>0 DEF n, LogNo, Sound
  <2> QED BY <1>1, <1>3, <2>1 DEF Inv, Books, PaidInFull
<1>11. ASSUME NEW v \in Workers \ {w} PROVE Sound(v)'
  <2>1. ASSUME NEW s \in Shipments, row[s] = v, \E l \in logs' : l.ship = s
        PROVE  Logged(s)
    <3>1. IsCollection(w) => s # t.ship
      BY <1>0, <1>1, <1>11, <2>1 DEF Sound
    <3> QED BY <1>1, <1>3, <2>1, <3>1 DEF Logged
  <2> QED BY <1>2, <1>4, <1>5, <2>1, SparedIsSound DEF Inv, Spares, Paid
<1> QED BY <1>2, <1>6, <1>7, <1>8, <1>9, <1>10, <1>11 DEF Inv, Books

-----------------------------------------------------------------------------
(***************************************************************************)
(* Payments and logs                                                       *)
(***************************************************************************)

\* Logs are numbered 1, 2, 3, ..., and entries name them.
Numbers ==
    /\ IsFiniteSet(logs)
    /\ \A l \in logs : l.no \in 1 .. Cardinality(logs)
    /\ \A e \in entries : e.log \in 0 .. Cardinality(logs)

\* A collection past its log holds the row of the logs' number; the payment it
\* is about to consume is the shipment's, and nobody has consumed it.
Matches(w) ==
    /\ IsCollection(w) /\ pc[w] \in {"collect", "take", "open", "post", "commit"} =>
          number["log"] = w
    /\ tx[w].consumes =>
          /\ pc[w] \in {"take", "open", "post", "commit"}
          /\ bundles[tx[w].key] # Nothing
          /\ bundles[tx[w].key].ship = tx[w].ship
          /\ bundles[tx[w].key].amount = tx[w].amount
          /\ bundles[tx[w].key].log = 0

Ledger ==
    /\ DOMAIN number = NumberRows
    /\ Numbers /\ PaidAsStaged
    /\ \A w \in Workers : Matches(w)

LEMMA LedgerInit == Init => Ledger
<1> SUFFICES ASSUME Init PROVE Ledger
  OBVIOUS
<1>1. Numbers
  BY FS_EmptySet DEF Init, Numbers
<1>2. ASSUME NEW w \in Workers PROVE Matches(w)
  BY DEF Init, Matches, IsCollection, Idle
<1> QED BY <1>1, <1>2 DEF Init, Ledger, PaidAsStaged

\* A step of w leaves what v matches alone.
LEMMA MatchStays ==
    ASSUME NEW v \in Workers, Matches(v), pc'[v] = pc[v], tx'[v] = tx[v],
           number["log"] = v => number'["log"] = v,
           tx[v].consumes => bundles'[tx[v].key] = bundles[tx[v].key]
    PROVE  Matches(v)'
<1>1. IsCollection(v)' <=> IsCollection(v)
  BY DEF IsCollection
<1> QED BY <1>1 DEF Matches

\* The transaction of w goes on, and writes nothing yet.
LEMMA LedgerGoesOn ==
    ASSUME Ledger, NEW w \in Workers, UNCHANGED <<logs, entries, bundles>>,
           DOMAIN number' = NumberRows, Matches(w)',
           \A v \in Workers \ {w} :
               /\ pc'[v] = pc[v] /\ tx'[v] = tx[v]
               /\ number["log"] = v => number'["log"] = v
    PROVE  Ledger'
<1>1. Numbers' /\ PaidAsStaged'
  BY DEF Ledger, Numbers, PaidAsStaged
<1>2. ASSUME NEW v \in Workers, v # w PROVE Matches(v)'
  BY <1>2, MatchStays DEF Ledger
<1> QED BY <1>1, <1>2 DEF Ledger

LEMMA ClosedMatches ==
    ASSUME Shape, Ledger, NEW w \in Workers, Close(w)
    PROVE  /\ Matches(w)' /\ DOMAIN number' = NumberRows
           /\ \A v \in Workers \ {w} :
                 /\ pc'[v] = pc[v] /\ tx'[v] = tx[v]
                 /\ number["log"] = v => number'["log"] = v
<1>1. tx'[w] = Idle
  BY DEF Close, Shape
<1>2. Matches(w)'
  BY <1>1 DEF Matches, IsCollection, Idle
<1> QED BY <1>2 DEF Close, Goto, Release, Shape, Ledger, NumberRows

LEMMA LedgerRollback ==
    ASSUME Shape, Ledger, NEW w \in Workers, Rollback(w)
    PROVE  Ledger'
BY ClosedMatches, LedgerGoesOn DEF Rollback, committed

\* A transaction that begins has taken no number and no payment.
LEMMA LedgerBegins ==
    ASSUME Shape, Ledger, NEW w \in Workers, NEW t, NEW at \in {"lock", "log", "take", "edit"},
           ~t.consumes, at = "take" => t.kind \notin {"app", "log"},
           tx' = [tx EXCEPT ![w] = t], Goto(w, at), Work(w), UNCHANGED locks
    PROVE  Ledger'
<1>1. tx'[w] = t /\ pc'[w] = at /\ UNCHANGED <<logs, entries, bundles, number>>
  BY DEF Shape, Goto, Work, committed, locks
<1>2. Matches(w)'
  BY <1>1 DEF Matches, IsCollection
<1> QED BY <1>1, <1>2, LedgerGoesOn DEF Goto, Shape, Ledger

LEMMA LedgerNextSteps ==
    ASSUME Inv, Ledger, NEW w \in Workers,
           (w \in Drivers /\ LockShipment(w)) \/ InsertLog(w) \/ Collect(w)
               \/ ReadNumber(w) \/ OpenWallet(w) \/ Post(w)
    PROVE  Ledger'
<1>0. DOMAIN tx = Workers /\ DOMAIN pc = Workers /\ DOMAIN tx[w] = Fields /\ Shape
  BY DEF Inv, Shape
<1>1. CASE Rollback(w)
  BY <1>0, <1>1, LedgerRollback
<1>2. ASSUME LockShipment(w), ~Rollback(w) PROVE Ledger'
  <2>1. /\ tx' = [tx EXCEPT ![w].saw = collected[tx[w].ship]]
        /\ pc[w] = "lock" /\ pc' = [pc EXCEPT ![w] = "log"]
        /\ UNCHANGED <<committed, staging, number>>
    BY <1>2 DEF LockShipment, Goto, Work
  <2>2. tx'[w].consumes = tx[w].consumes /\ tx'[w].kind = tx[w].kind /\ pc'[w] = "log"
    BY <1>0, <2>1 DEF Fields
  <2>3. Matches(w)'
    BY <2>1, <2>2 DEF Ledger, Matches, committed
  <2> QED BY <1>0, <2>1, <2>3, LedgerGoesOn DEF Ledger, committed
<1>3. ASSUME InsertLog(w), ~Rollback(w) PROVE Ledger'
  <2>1. /\ pc[w] = "log" /\ pc' = [pc EXCEPT ![w] = "collect"]
        /\ number["log"] = Nobody /\ number' = [number EXCEPT !["log"] = w]
        /\ UNCHANGED <<committed, staging, tx>>
    BY <1>3 DEF InsertLog, Goto, Work
  <2>2. Matches(w)'
    BY <1>0, <2>1 DEF Ledger, Matches, NumberRows, committed
  <2>3. \A v \in Workers \ {w} : number["log"] # v
    BY <2>1, NobodyAssumption DEF Workers
  <2> QED BY <1>0, <2>1, <2>2, <2>3, LedgerGoesOn DEF Ledger, committed
<1>4. ASSUME Collect(w), ~Rollback(w) PROVE Ledger'
  <2> DEFINE c == [tx[w] EXCEPT
                     !.saw = FALSE,
                     !.consumes = Bundle(tx[w]) # Nothing,
                     !.amount = IF Bundle(tx[w]) = Nothing THEN @
                                ELSE Bundle(tx[w]).amount]
             u == Credit(c)
  <2>1. /\ pc[w] = "collect" /\ ~Refused(tx[w])
        /\ tx' = [tx EXCEPT ![w] = u] /\ pc' = [pc EXCEPT ![w] = AfterCredit(u)]
        /\ UNCHANGED <<committed, staging, number>>
    BY <1>4 DEF Collect, Goto, Work
  <2>2. /\ DOMAIN c = Fields /\ c.ship = tx[w].ship /\ c.key = tx[w].key
        /\ c.kind = tx[w].kind /\ c.consumes = (Bundle(tx[w]) # Nothing)
        /\ Bundle(tx[w]) # Nothing => c.amount = Bundle(tx[w]).amount
    BY <1>0 DEF Fields
  <2> HIDE DEF c, u
  <2>3. /\ u.ship = c.ship /\ u.key = c.key /\ u.kind = c.kind
        /\ u.amount = c.amount /\ u.consumes = c.consumes
    BY <2>2, CreditFinds DEF u
  <2>4. tx'[w] = u /\ pc'[w] \in {"take", "commit"}
    BY <1>0, <2>1 DEF AfterCredit
  <2>5. Bundle(tx[w]) # Nothing =>
           /\ Bundle(tx[w]) = bundles[tx[w].key]
           /\ Bundle(tx[w]).ship = tx[w].ship /\ Bundle(tx[w]).log = 0
    BY <2>1 DEF Bundle, Refused
  <2>6. Matches(w)'
    <3>1. tx'[w].kind = tx[w].kind /\ tx'[w].key = tx[w].key /\ tx'[w].ship = tx[w].ship
      BY <2>2, <2>3, <2>4
    <3>2. IsCollection(w)' => number'["log"] = w
      BY <2>1, <3>1 DEF Ledger, Matches, IsCollection
    <3>3. tx'[w].consumes =>
             Bundle(tx[w]) # Nothing /\ tx'[w].amount = Bundle(tx[w]).amount
      BY <2>2, <2>3, <2>4
    <3>4. UNCHANGED bundles
      BY <2>1 DEF committed
    <3> QED BY <2>4, <2>5, <3>1, <3>2, <3>3, <3>4 DEF Matches
  <2> QED BY <1>0, <2>1, <2>6, LedgerGoesOn DEF Ledger, committed
<1>5. ASSUME OpenWallet(w), ~Rollback(w) PROVE Ledger'
  <2>1. /\ pc[w] = "open" /\ UNCHANGED <<committed, staging>>
        /\ number' = [number EXCEPT !["wallet"] = w]
        /\ tx' = [tx EXCEPT ![w].wallet = tx[w].no,
                            ![w].posts = tx[w].kind = "app" \/ tx[w].kind = "log"]
        /\ pc' = [pc EXCEPT ![w] = IF tx[w].kind = "wallet" THEN "commit" ELSE "take"]
    BY <1>5 DEF OpenWallet, Goto, Work
  <2>2. /\ tx'[w].ship = tx[w].ship /\ tx'[w].key = tx[w].key
        /\ tx'[w].kind = tx[w].kind /\ tx'[w].amount = tx[w].amount
        /\ tx'[w].consumes = tx[w].consumes
    BY <1>0, <2>1 DEF Fields
  <2>3. pc'[w] \in {"take", "commit"} /\ number'["log"] = number["log"]
    BY <1>0, <2>1 DEF Ledger, NumberRows
  <2>4. Matches(w)'
    BY <2>1, <2>2, <2>3 DEF Ledger, Matches, IsCollection, committed
  <2> QED BY <1>0, <2>1, <2>3, <2>4, LedgerGoesOn DEF Ledger, committed
<1>6. ASSUME Post(w), ~Rollback(w) PROVE Ledger'
  <2>1. /\ pc[w] = "post" /\ UNCHANGED <<committed, staging>>
        /\ number' = [number EXCEPT !["entry"] = w]
        /\ tx' = [tx EXCEPT ![w].total = Sum(tx[w])]
        /\ pc' = [pc EXCEPT ![w] = "commit"]
    BY <1>6 DEF Post, Goto, Work
  <2>2. /\ tx'[w].ship = tx[w].ship /\ tx'[w].key = tx[w].key
        /\ tx'[w].kind = tx[w].kind /\ tx'[w].amount = tx[w].amount
        /\ tx'[w].consumes = tx[w].consumes
    BY <1>0, <2>1 DEF Fields
  <2>3. pc'[w] = "commit" /\ number'["log"] = number["log"]
    BY <1>0, <2>1 DEF Ledger, NumberRows
  <2>4. Matches(w)'
    BY <2>1, <2>2, <2>3 DEF Ledger, Matches, IsCollection, committed
  <2> QED BY <1>0, <2>1, <2>3, <2>4, LedgerGoesOn DEF Ledger, committed
<1>7. ASSUME ReadNumber(w) PROVE Ledger'
  <2>1. PICK n \in {Len(wallets) + 1, next}, at \in {"open", "post"} :
          /\ tx' = [tx EXCEPT ![w].no = n] /\ pc' = [pc EXCEPT ![w] = at]
          /\ pc[w] = "take" /\ UNCHANGED <<committed, staging, number>>
    BY <1>7 DEF ReadNumber, Goto, Work, locks
  <2>2. /\ tx'[w].ship = tx[w].ship /\ tx'[w].key = tx[w].key
        /\ tx'[w].kind = tx[w].kind /\ tx'[w].amount = tx[w].amount
        /\ tx'[w].consumes = tx[w].consumes /\ pc'[w] = at
    BY <1>0, <2>1 DEF Fields
  <2>3. Matches(w)'
    BY <2>1, <2>2 DEF Ledger, Matches, IsCollection, committed
  <2> QED BY <1>0, <2>1, <2>3, LedgerGoesOn DEF Ledger, committed
<1> QED BY <1>1, <1>2, <1>3, <1>4, <1>5, <1>6, <1>7

\* The commit of a collection adds the log with the next number.
LEMMA CommitNumbers ==
    ASSUME Numbers, NEW w \in Workers, Commit(w)
    PROVE  /\ Numbers' /\ LogNo(w) \in Nat
           /\ \A l \in logs : l.no # LogNo(w)
           /\ \A c \in entries : c.log = 0 \/ c.log # LogNo(w)
<1>1. Cardinality(logs) \in Nat /\ IsFiniteSet(logs)
  BY FS_CardinalityType DEF Numbers
<1>2. /\ logs' = IF IsCollection(w) THEN logs \cup {LogOf(w)} ELSE logs
      /\ entries' = IF tx[w].posts THEN entries \cup {EntryOf(tx[w], LogNo(w))}
                    ELSE entries
  BY CommitWrites
<1>3. EntryOf(tx[w], LogNo(w)).log = LogNo(w) /\ LogOf(w).no = LogNo(w)
  BY DEF EntryOf, LogOf
<1>4. /\ LogNo(w) \in Nat
      /\ \A l \in logs : l.no # LogNo(w)
      /\ \A c \in entries : c.log = 0 \/ c.log # LogNo(w)
  BY <1>1 DEF LogNo, Numbers
<1>5. CASE IsCollection(w)
  <2>1. LogOf(w) \notin logs /\ LogNo(w) = Cardinality(logs) + 1
    BY <1>3, <1>4, <1>5 DEF LogNo
  <2>2. IsFiniteSet(logs') /\ Cardinality(logs') = Cardinality(logs) + 1
    BY <1>1, <1>2, <1>5, <2>1, FS_AddElement
  <2> HIDE DEF LogNo, LogOf
  <2>3. ASSUME NEW l \in logs' PROVE l.no \in 1 .. Cardinality(logs')
    BY <1>1, <1>2, <1>3, <1>5, <2>1, <2>2 DEF Numbers
  <2>4. ASSUME NEW c \in entries' PROVE c.log \in 0 .. Cardinality(logs')
    <3>1. CASE c \in entries
      BY <1>1, <2>2, <3>1 DEF Numbers
    <3>2. CASE c = EntryOf(tx[w], LogNo(w))
      BY <1>1, <1>3, <2>1, <2>2, <3>2
    <3> QED BY <1>2, <3>1, <3>2
  <2> QED BY <1>4, <2>2, <2>3, <2>4 DEF Numbers
<1>6. CASE ~IsCollection(w)
  <2>1. LogNo(w) = 0 /\ logs' = logs
    BY <1>2, <1>6 DEF LogNo
  <2>2. Numbers'
    BY <1>1, <1>2, <1>3, <2>1 DEF Numbers
  <2> QED BY <1>4, <2>2
<1> QED BY <1>5, <1>6

LEMMA CommitPaysAsStaged ==
    ASSUME Inv, Ledger, NEW w \in Workers, Commit(w)
    PROVE  PaidAsStaged'
<1> DEFINE t == tx[w]
           n == LogNo(w)
           e == EntryOf(t, n)
<1>1. /\ logs' = IF IsCollection(w) THEN logs \cup {LogOf(w)} ELSE logs
      /\ entries' = IF t.posts THEN entries \cup {e} ELSE entries
      /\ bundles' = IF t.consumes THEN [bundles EXCEPT ![t.key].log = n] ELSE bundles
  BY CommitWrites
<1>2. /\ n \in Nat
      /\ \A l \in logs : l.no # n
      /\ \A c \in entries : c.log = 0 \/ c.log # n
  BY CommitNumbers DEF Ledger
<1>3. /\ LogOf(w) = [no |-> n, ship |-> t.ship, key |-> t.key]
      /\ e.amount = t.amount /\ e.log = n
  BY DEF LogOf, EntryOf
<1> SUFFICES ASSUME NEW k \in Keys, bundles'[k] # Nothing, bundles'[k].log # 0
             PROVE  /\ [no |-> bundles'[k].log, ship |-> bundles'[k].ship, key |-> k] \in logs'
                    /\ \A c \in entries' : c.log = bundles'[k].log =>
                                              c.amount = bundles'[k].amount
  BY DEF PaidAsStaged
<1> HIDE DEF n, e
<1>4. CASE t.consumes /\ k = t.key
  <2>1. /\ IsCollection(w) /\ bundles[k] # Nothing /\ bundles[k] \in Payment
        /\ bundles[k].ship = t.ship /\ bundles[k].amount = t.amount
    BY <1>4 DEF Inv, Sound, Paid, Ledger, Matches, IsCollection
  <2>2. bundles'[k] = [bundles[k] EXCEPT !.log = n]
    BY <1>1, <1>4 DEF Inv, Shape
  <2>3. /\ bundles'[k].log = n /\ bundles'[k].ship = t.ship
        /\ bundles'[k].amount = t.amount
    BY <2>1, <2>2 DEF Payment
  <2>4. LogOf(w) \in logs'
    BY <1>1, <2>1
  <2> QED BY <1>1, <1>2, <1>3, <1>4, <2>3, <2>4
<1>5. CASE ~(t.consumes /\ k = t.key)
  <2>1. bundles'[k] = bundles[k]
    BY <1>1, <1>5 DEF Inv, Shape
  <2> DEFINE l == [no |-> bundles[k].log, ship |-> bundles[k].ship, key |-> k]
  <2>2. /\ l \in logs
        /\ \A c \in entries : c.log = bundles[k].log => c.amount = bundles[k].amount
    BY <2>1 DEF Ledger, PaidAsStaged
  <2>3. l.no = bundles[k].log
    OBVIOUS
  <2>4. bundles[k].log # n
    BY <1>2, <2>2, <2>3
  <2>5. ASSUME NEW c \in entries', c.log = bundles[k].log
        PROVE  c.amount = bundles[k].amount
    BY <1>1, <1>3, <2>2, <2>4, <2>5
  <2>6. l \in logs'
    BY <1>1, <2>2
  <2> QED BY <2>1, <2>5, <2>6
<1> QED BY <1>4, <1>5

LEMMA LedgerCommit ==
    ASSUME Inv, Ledger, NEW w \in Workers, Commit(w)
    PROVE  Ledger'
<1>1. Numbers' /\ PaidAsStaged'
  BY CommitNumbers, CommitPaysAsStaged DEF Ledger
<1>2. /\ Matches(w)' /\ DOMAIN number' = NumberRows
      /\ \A v \in Workers \ {w} :
            /\ pc'[v] = pc[v] /\ tx'[v] = tx[v]
            /\ number["log"] = v => number'["log"] = v
  BY ClosedMatches, CommitWrites DEF Inv
<1>3. ASSUME NEW v \in Workers, v # w, tx[v].consumes
      PROVE  bundles'[tx[v].key] = bundles[tx[v].key]
  <2>1. ~tx[w].consumes \/ tx[w].key # tx[v].key
    <3>1. tx[w].consumes => number["log"] = w
      BY DEF Inv, Sound, Ledger, Matches, IsCollection
    <3>2. number["log"] = v
      BY <1>3 DEF Inv, Sound, Ledger, Matches, IsCollection
    <3> QED BY <1>3, <3>1, <3>2
  <2>2. tx[v].key \in Keys
    BY <1>3 DEF Inv, Sound
  <2> QED BY <2>1, <2>2, CommitWrites DEF Inv, Shape
<1>4. ASSUME NEW v \in Workers, v # w PROVE Matches(v)'
  BY <1>2, <1>3, <1>4, MatchStays DEF Ledger
<1> QED BY <1>1, <1>2, <1>4 DEF Ledger

LEMMA LedgerStageSave ==
    ASSUME Inv, Ledger, NEW p \in staging, StageSave(p)
    PROVE  Ledger'
<1>1. /\ UNCHANGED <<logs, entries, pc, tx, number>>
      /\ \A k \in Keys : bundles[k] # Nothing => bundles'[k] = bundles[k]
      /\ \A k \in Keys : bundles'[k] # bundles[k] =>
            bundles'[k] = [ship |-> p.ship, amount |-> p.amount, log |-> 0]
  BY DEF StageSave, Inv, Shape, locks
<1>2. Numbers' /\ PaidAsStaged'
  BY <1>1 DEF Ledger, Numbers, PaidAsStaged
<1>3. ASSUME NEW v \in Workers PROVE Matches(v)'
  <2>1. tx[v].consumes => tx[v].key \in Keys /\ bundles[tx[v].key] # Nothing
    BY DEF Inv, Sound, Ledger, Matches
  <2> QED BY <1>1, <2>1, MatchStays DEF Ledger
<1> QED BY <1>1, <1>2, <1>3 DEF Ledger

LEMMA LedgerStays ==
    ASSUME Ledger, UNCHANGED <<logs, entries, bundles, number, pc, tx>>
    PROVE  Ledger'
<1>1. \A v \in Workers : Matches(v)'
  BY MatchStays DEF Ledger
<1> QED BY <1>1 DEF Ledger, Numbers, PaidAsStaged

-----------------------------------------------------------------------------
(***************************************************************************)
(* The theorems                                                            *)
(***************************************************************************)

IInv == Inv /\ Ledger

LEMMA IInvNext == IInv /\ [Next]_vars => IInv'
<1> SUFFICES ASSUME Inv, Ledger, [Next]_vars PROVE Inv' /\ Ledger'
  BY DEF IInv
<1>0. Shape /\ \A w \in Drivers \cup Offices : w \in Workers
  BY DEF Inv, Workers
<1>1. ASSUME NEW s \in Shipments, NEW k \in Keys, NEW a \in Staged, Stage(s, k, a)
      PROVE  Inv' /\ Ledger'
  BY <1>1, StageKeeps, LedgerStays DEF Stage, committed, locks
<1>2. ASSUME NEW p \in staging, StageSave(p) PROVE Inv' /\ Ledger'
  BY <1>2, StageSaveKeeps, LedgerStageSave
<1>3. ASSUME NEW d \in Drivers, NEW s \in Unloaded, NEW k \in Keys, NEW a \in Sent,
             Attach(d, s, k, a)
      PROVE  Inv' /\ Ledger'
  <2> DEFINE t == [Idle EXCEPT !.kind = "app", !.ship = s, !.key = k,
                     !.amount = IF bundles[k] = Nothing THEN a ELSE bundles[k].amount]
  <2>1. ~t.consumes
    BY DEF Idle
  <2> QED BY <1>0, <1>3, <2>1, AttachKeeps, LedgerBegins DEF Attach
<1>4. ASSUME NEW o \in Offices, NEW s \in Unloaded, OfficeLog(o, s)
      PROVE  Inv' /\ Ledger'
  <2> DEFINE t == [Idle EXCEPT !.kind = "log", !.ship = s, !.amount = Due]
  <2>1. ~t.consumes
    BY DEF Idle
  <2> QED BY <1>0, <1>4, <2>1, OfficeLogKeeps, LedgerBegins DEF OfficeLog
<1>5. ASSUME NEW o \in Offices, OfficeWallet(o) PROVE Inv' /\ Ledger'
  <2> DEFINE t == [Idle EXCEPT !.kind = "wallet"]
  <2>1. ~t.consumes /\ t.kind = "wallet"
    BY DEF Idle
  <2> QED BY <1>0, <1>5, <2>1, OfficeWalletKeeps, LedgerBegins DEF OfficeWallet
<1>6. ASSUME NEW o \in Offices, NEW v, NEW p, OfficeEntry(o, v, p)
      PROVE  Inv' /\ Ledger'
  <2> DEFINE t == [Idle EXCEPT !.kind = "entry", !.ship = p.ship, !.amount = p.amount,
                               !.wallet = v, !.posts = TRUE]
  <2>1. ~t.consumes /\ t.kind = "entry"
    BY DEF Idle
  <2> QED BY <1>0, <1>6, <2>1, OfficeEntryKeeps, LedgerBegins DEF OfficeEntry
<1>7. ASSUME NEW o \in Offices, NEW v, EditLoad(o, v) PROVE Inv' /\ Ledger'
  <2> DEFINE t == [Idle EXCEPT !.kind = "edit", !.wallet = v,
                               !.total = wallets[v].balance]
  <2>1. ~t.consumes /\ t.kind = "edit"
    BY DEF Idle
  <2> QED BY <1>0, <1>7, <2>1, EditLoadKeeps, LedgerBegins DEF EditLoad
<1>8. ASSUME NEW s, FollowLog(s) \/ \E c \in BOOLEAN : ShipmentEdit(s, c)
      PROVE  Inv' /\ Ledger'
  BY <1>8, SavedShipmentKeeps, LedgerStays DEF FollowLog, ShipmentEdit, locks
<1>9. ASSUME NEW w \in Workers, Step(w) \/ Crash(w) PROVE Inv' /\ Ledger'
  <2>1. CASE Rollback(w)
    BY <1>0, <2>1, RollbackKeeps, LedgerRollback
  <2>2. CASE w \in Drivers /\ LockShipment(w)
    BY <2>2, LockShipmentKeeps, LedgerNextSteps
  <2>3. CASE InsertLog(w)
    BY <2>3, InsertLogKeeps, LedgerNextSteps
  <2>4. CASE Collect(w)
    BY <2>4, CollectKeeps, LedgerNextSteps
  <2>5. CASE OpenWallet(w)
    BY <2>5, OpenWalletKeeps, LedgerNextSteps
  <2>6. CASE Post(w)
    BY <2>6, PostKeeps, LedgerNextSteps
  <2>7. CASE Commit(w)
    BY <2>7, CommitKeeps, CommitNumbers, LedgerCommit DEF Ledger
  <2>8. ASSUME NEW active \in BOOLEAN, EditSave(w, active) PROVE Inv' /\ Ledger'
    <3>1. Close(w) /\ UNCHANGED <<logs, entries, bundles>>
      BY <2>8 DEF EditSave
    <3>2. Ledger'
      BY <1>0, <3>1, ClosedMatches, LedgerGoesOn
    <3> QED BY <2>8, <3>2, EditSaveKeeps
  <2>9. CASE ReadNumber(w)
    BY <2>9, ReadNumberKeeps, LedgerNextSteps
  <2> QED BY <1>9, <2>1, <2>2, <2>3, <2>4, <2>5, <2>6, <2>7, <2>8, <2>9
          DEF Step, Crash, BreakDeadlock
<1>10. CASE UNCHANGED vars
  BY <1>10, SavedShipmentKeeps, LedgerStays DEF vars, committed, locks
<1> QED BY <1>1, <1>2, <1>3, <1>4, <1>5, <1>6, <1>7, <1>8, <1>9, <1>10 DEF Next

LEMMA IInvAlways == Spec => []IInv
<1>1. Init => IInv
  BY InvInit, LedgerInit DEF IInv
<1> QED BY <1>1, IInvNext, PTL DEF Spec

\* Whoever collects a shipment, and whatever is lost or rolled back: where a
\* collection is logged, the shipment has been credited.
THEOREM CollectionsAreCredited == Spec => []LoggedIsCredited
<1>1. IInv => LoggedIsCredited
  BY DEF IInv, Inv, Books
<1> QED BY <1>1, IInvAlways, PTL

\* The row lock of the shipment lets the app collect it once, under however many
\* keys it is asked to.
THEOREM ShipmentsAreCollectedOnce == Spec => []CollectedOnce
<1>1. IInv => CollectedOnce
  BY DEF IInv, Inv, Books
<1> QED BY <1>1, IInvAlways, PTL

\* What is staged under a key is what its log credits: the lock of the logs'
\* number row and the unique key keep two requests from consuming one payment.
THEOREM PaymentsAreCreditedAsStaged == Spec => []PaidAsStaged
<1>1. IInv => PaidAsStaged
  BY DEF IInv, Ledger
<1> QED BY <1>1, IInvAlways, PTL

\* No collection credits less than the cash due.
THEOREM CollectionsArePaidInFull == Spec => []PaidInFull
<1>1. IInv => PaidInFull
  BY DEF IInv, Inv, Books
<1> QED BY <1>1, IInvAlways, PTL
-----------------------------------------------------------------------------
(***************************************************************************)
(* Sums                                                                    *)
(***************************************************************************)

\* The fold that a sum is, on every subset of a set.
First(s) == CHOOSE e \in s : TRUE
Rest(s)  == s \ {First(s)}
SumsUp(f, S) ==
    f = [s \in SUBSET S |-> IF s = {} THEN 0 ELSE First(s).amount + f[Rest(s)]]

LEMMA TotalIsSum == \A S : Total(S) = (CHOOSE f : SumsUp(f, S))[S]
BY DEF Total, MapThenSumSet, MapThenFoldSet, SumsUp, First, Rest

LEMMA RestIsSmaller ==
    ASSUME NEW S, S # {}
    PROVE  First(S) \in S /\ Rest(S) \in SUBSET S /\ Rest(S) # S
BY DEF First, Rest

\* A family of subsets of a finite set has a smallest one: the induction over
\* finite sets in the form that can be used here.
LEMMA SmallestSet ==
    ASSUME NEW S, IsFiniteSet(S), NEW F \in SUBSET (SUBSET S), F # {}
    PROVE  \E T \in F : \A U \in F : U \in SUBSET T => U = T
<1>1. F \subseteq FiniteSubsetsOf(S)
  BY FS_Subset DEF FiniteSubsetsOf
<1>2. PICK T \in F : \A U \in F : ~ (<<U, T>> \in StrictSubsetOrdering(S))
  BY <1>1, FS_StrictSubsetOrderingWellFounded, WFMin
<1> QED BY <1>2 DEF StrictSubsetOrdering

LEMMA SumsAgree ==
    ASSUME NEW S, NEW T, NEW f, SumsUp(f, S), NEW g, SumsUp(g, T),
           NEW s \in (SUBSET S) \cap (SUBSET T), IsFiniteSet(s)
    PROVE  f[s] = g[s]
<1> DEFINE F == {d \in SUBSET s : f[d] # g[d]}
<1> SUFFICES ASSUME F # {} PROVE FALSE
  OBVIOUS
<1>1. PICK d \in F : \A u \in F : u \in SUBSET d => u = d
  <2>1. F \in SUBSET (SUBSET s)
    OBVIOUS
  <2> HIDE DEF F
  <2> QED BY <2>1, SmallestSet
<1>2. CASE d = {}
  BY <1>1, <1>2 DEF SumsUp
<1>3. CASE d # {}
  <2>1. f[d] = First(d).amount + f[Rest(d)] /\ g[d] = First(d).amount + g[Rest(d)]
    BY <1>3 DEF SumsUp
  <2>2. Rest(d) \in SUBSET s /\ Rest(d) \notin F
    BY <1>1, <1>3, RestIsSmaller
  <2> QED BY <1>1, <2>1, <2>2
<1> QED BY <1>2, <1>3

LEMMA SumsExist ==
    ASSUME NEW S, IsFiniteSet(S)
    PROVE  \E f : SumsUp(f, S)
<1> DEFINE F == {T \in SUBSET S : ~\E f : SumsUp(f, T)}
<1> SUFFICES ASSUME F # {} PROVE FALSE
  OBVIOUS
<1>1. PICK T \in F : \A U \in F : U \in SUBSET T => U = T
  <2>1. F \in SUBSET (SUBSET S)
    OBVIOUS
  <2> HIDE DEF F
  <2> QED BY <2>1, SmallestSet
<1>2. \A t \in SUBSET T : t # T => SumsUp(CHOOSE f : SumsUp(f, t), t)
  BY <1>1
<1> DEFINE h == [s \in SUBSET T |-> IF s = {} THEN 0
                                    ELSE First(s).amount + Total(Rest(s))]
<1>3. ASSUME NEW s \in SUBSET T, s # {} PROVE h[Rest(s)] = Total(Rest(s))
  <2> DEFINE t == Rest(s)
             f == CHOOSE k : SumsUp(k, t)
  <2>1. t \in SUBSET T /\ t # T /\ IsFiniteSet(t)
    BY <1>3, RestIsSmaller, FS_Subset
  <2>2. SumsUp(f, t) /\ Total(t) = f[t]
    BY <1>2, <2>1, TotalIsSum
  <2>3. CASE t = {}
    BY <2>1, <2>2, <2>3 DEF SumsUp
  <2>4. CASE t # {}
    <3> DEFINE u == Rest(t)
               g == CHOOSE k : SumsUp(k, u)
    <3>1. u \in SUBSET t /\ u \in SUBSET T /\ u # T /\ IsFiniteSet(u)
      BY <2>1, <2>4, RestIsSmaller, FS_Subset
    <3>2. SumsUp(g, u) /\ Total(u) = g[u]
      BY <1>2, <3>1, TotalIsSum
    <3>3. f[u] = g[u]
      BY <2>2, <3>1, <3>2, SumsAgree
    <3>4. f[t] = First(t).amount + f[u]
      BY <2>2, <2>4 DEF SumsUp
    <3>5. h[t] = First(t).amount + Total(u)
      BY <2>1, <2>4
    <3> QED BY <2>2, <3>2, <3>3, <3>4, <3>5
  <2> QED BY <2>3, <2>4
<1>4. SumsUp(h, T)
  BY <1>3 DEF SumsUp
<1> QED BY <1>1, <1>4

\* The sum of a set is the amount of one of its records and the sum of the rest.
LEMMA TotalOfRest ==
    ASSUME NEW S, IsFiniteSet(S)
    PROVE  Total(S) = IF S = {} THEN 0 ELSE First(S).amount + Total(Rest(S))
<1> DEFINE f == CHOOSE k : SumsUp(k, S)
           g == CHOOSE k : SumsUp(k, Rest(S))
<1>1. SumsUp(f, S) /\ Total(S) = f[S]
  BY SumsExist, TotalIsSum
<1>2. CASE S = {}
  BY <1>1, <1>2 DEF SumsUp
<1>3. CASE S # {}
  <2>1. Rest(S) \in SUBSET S /\ IsFiniteSet(Rest(S))
    BY <1>3, RestIsSmaller, FS_Subset
  <2>2. SumsUp(g, Rest(S)) /\ Total(Rest(S)) = g[Rest(S)]
    BY <2>1, SumsExist, TotalIsSum
  <2>3. f[Rest(S)] = g[Rest(S)]
    BY <1>1, <2>1, <2>2, SumsAgree
  <2>4. f[S] = First(S).amount + f[Rest(S)]
    BY <1>1, <1>3 DEF SumsUp
  <2> QED BY <1>1, <1>3, <2>2, <2>3, <2>4
<1> QED BY <1>2, <1>3

LEMMA TotalType ==
    ASSUME NEW S, IsFiniteSet(S), \A e \in S : e.amount \in Int
    PROVE  Total(S) \in Int
<1> DEFINE F == {T \in SUBSET S : Total(T) \notin Int}
<1> SUFFICES ASSUME F # {} PROVE FALSE
  OBVIOUS
<1>1. PICK T \in F : \A U \in F : U \in SUBSET T => U = T
  <2>1. F \in SUBSET (SUBSET S)
    OBVIOUS
  <2> HIDE DEF F
  <2> QED BY <2>1, SmallestSet
<1>2. IsFiniteSet(T)
  BY <1>1, FS_Subset
<1>3. CASE T = {}
  BY <1>1, <1>2, <1>3, TotalOfRest
<1>4. CASE T # {}
  <2>1. Rest(T) \in SUBSET S /\ Rest(T) \notin F /\ First(T) \in S
    BY <1>1, <1>4, RestIsSmaller
  <2>2. Total(T) = First(T).amount + Total(Rest(T))
    BY <1>2, <1>4, TotalOfRest
  <2> QED BY <1>1, <2>1, <2>2
<1> QED BY <1>3, <1>4

\* Whichever record is left out: sums do not depend on the order.
LEMMA TotalWithout ==
    ASSUME NEW S, IsFiniteSet(S), \A e \in S : e.amount \in Int, NEW x \in S
    PROVE  Total(S) = x.amount + Total(S \ {x})
<1> DEFINE F == {T \in SUBSET S : \E y \in T : Total(T) # y.amount + Total(T \ {y})}
<1> SUFFICES ASSUME F # {} PROVE FALSE
  OBVIOUS
<1>1. PICK T \in F : \A U \in F : U \in SUBSET T => U = T
  <2>1. F \in SUBSET (SUBSET S)
    OBVIOUS
  <2> HIDE DEF F
  <2> QED BY <2>1, SmallestSet
<1>2. PICK y \in T : Total(T) # y.amount + Total(T \ {y})
  BY <1>1
<1> DEFINE z == First(T)
<1>3. T # {} /\ z \in T /\ Rest(T) = T \ {z} /\ IsFiniteSet(T)
  BY <1>1, <1>2, FS_Subset, RestIsSmaller DEF Rest
<1>4. Total(T) = z.amount + Total(T \ {z})
  BY <1>3, TotalOfRest
<1> HIDE DEF z
<1>5. y # z
  BY <1>2, <1>4
<1>6. Total(T \ {z}) = y.amount + Total((T \ {z}) \ {y})
  <2>1. T \ {z} \in SUBSET S /\ T \ {z} \in SUBSET T /\ T \ {z} # T /\ y \in T \ {z}
    BY <1>1, <1>2, <1>3, <1>5
  <2>2. T \ {z} \notin F
    BY <1>1, <2>1
  <2> QED BY <2>1, <2>2
<1>7. Total(T \ {y}) = z.amount + Total((T \ {y}) \ {z})
  <2>1. T \ {y} \in SUBSET S /\ T \ {y} \in SUBSET T /\ T \ {y} # T /\ z \in T \ {y}
    BY <1>1, <1>2, <1>3, <1>5
  <2>2. T \ {y} \notin F
    BY <1>1, <2>1
  <2> QED BY <2>1, <2>2
<1>8. (T \ {z}) \ {y} = (T \ {y}) \ {z}
  OBVIOUS
<1>9. Total((T \ {z}) \ {y}) \in Int /\ y.amount \in Int /\ z.amount \in Int
  BY <1>1, <1>2, <1>3, FS_Subset, TotalType
<1>10. z.amount + (y.amount + Total((T \ {z}) \ {y}))
       = y.amount + (z.amount + Total((T \ {z}) \ {y}))
  BY <1>9
<1> QED BY <1>2, <1>4, <1>6, <1>7, <1>8, <1>10

LEMMA TotalWith ==
    ASSUME NEW S, IsFiniteSet(S), \A e \in S : e.amount \in Int,
           NEW x, x \notin S, x.amount \in Int
    PROVE  Total(S \cup {x}) = Total(S) + x.amount
<1>1. IsFiniteSet(S \cup {x}) /\ (S \cup {x}) \ {x} = S
  BY FS_AddElement
<1>2. Total(S \cup {x}) = x.amount + Total(S)
  BY <1>1, TotalWithout
<1> QED BY <1>2, TotalType

-----------------------------------------------------------------------------
(***************************************************************************)
(* Types and balances                                                      *)
(***************************************************************************)

Tx == [kind : {"none", "app", "log", "wallet", "entry", "edit"},
       ship : Shipments \cup {Nothing}, key : Keys \cup {Nothing},
       amount : Int, saw : BOOLEAN, consumes : BOOLEAN, posts : BOOLEAN,
       wallet : Nat, no : Nat, total : Int]

Wallet == [active : BOOLEAN, balance : Int]

\* A transaction that opens a wallet holds the row of the wallets' number until
\* the wallet is there; one that has posted holds the row of the entries' number,
\* and nobody has posted since it summed its wallet up.
Accounted(w) ==
    /\ pc[w] \in {"lock", "log", "collect", "open"} => tx[w].wallet = 0
    /\ pc[w] \in {"lock", "log", "collect"} => IsCollection(w)
    /\ pc[w] \in {"take", "open"} /\ tx[w].wallet = 0 =>
          IsCollection(w) \/ tx[w].kind = "wallet"
    /\ pc[w] = "take" => tx[w].wallet \in 0 .. Len(wallets) + 1
    /\ pc[w] \in {"post", "commit"} => tx[w].wallet \in 1 .. Len(wallets) + 1
    /\ pc[w] \in {"take", "post", "commit"} /\ tx[w].wallet > Len(wallets) =>
          number["wallet"] = w
    /\ pc[w] = "edit" => tx[w].wallet \in DOMAIN wallets
    /\ pc[w] \in {"take", "post"} /\ tx[w].wallet # 0 => tx[w].posts
    /\ pc[w] = "commit" /\ tx[w].posts =>
          /\ number["entry"] = w
          /\ tx[w].no = next
          /\ tx[w].total = Total(Of(entries, tx[w].wallet)) + tx[w].amount

Accounts ==
    /\ TypeOK
    /\ tx \in [Workers -> Tx]
    /\ IsFiniteSet(entries) /\ \A e \in entries : e.no < next
    /\ \A w \in Workers : Accounted(w)

LEMMA AccountsInit == Init => Accounts
<1> SUFFICES ASSUME Init PROVE Accounts
  OBVIOUS
<1>1. TypeOK
  BY DEF Init, TypeOK, Places
<1>2. tx \in [Workers -> Tx]
  BY DEF Init, Tx, Idle
<1>3. IsFiniteSet(entries) /\ \A e \in entries : e.no < next
  BY FS_EmptySet DEF Init
<1>4. ASSUME NEW w \in Workers PROVE Accounted(w)
  BY DEF Init, Accounted
<1> QED BY <1>1, <1>2, <1>3, <1>4 DEF Accounts

\* The latest active wallet is one of the wallets.
LEMMA LatestIsActive ==
    ASSUME TypeOK, Active # {}
    PROVE  Latest \in DOMAIN wallets
<1>1. Len(wallets) \in Nat /\ DOMAIN wallets = 1 .. Len(wallets)
  BY LenProperties DEF TypeOK
<1> DEFINE T == {Len(wallets) - v : v \in Active}
<1>2. \A v \in Active : v \in 1 .. Len(wallets)
  BY <1>1 DEF Active
<1>3. T \subseteq Nat /\ T # {}
  BY <1>1, <1>2
<1>4. PICK n \in T : \A k \in T : ~ (<<k, n>> \in OpToRel(<, Nat))
  <2> HIDE DEF T
  <2> QED BY <1>3, NatLessThanWellFounded, WFMin
<1>5. \A k \in T : ~ (k < n)
  BY <1>3, <1>4 DEF OpToRel
<1>6. PICK v \in Active : n = Len(wallets) - v
  OBVIOUS
<1>7. ASSUME NEW u \in Active PROVE v >= u
  <2>1. Len(wallets) - u \in T /\ u \in Int /\ v \in Int
    BY <1>2
  <2>2. ~ (Len(wallets) - u < Len(wallets) - v)
    BY <1>5, <1>6, <2>1
  <2> QED BY <1>1, <2>1, <2>2
<1>8. Latest \in Active
  BY <1>7 DEF Latest, Max
<1> QED BY <1>8 DEF Active

-----------------------------------------------------------------------------

\* A step of others takes no number from v; the wallets only grow in number, and
\* whoever has posted alone changes what its sum rests on.
LEMMA AccountedStays ==
    ASSUME NEW v \in Workers, Accounted(v), pc'[v] = pc[v], tx'[v] = tx[v],
           number["wallet"] = v => number'["wallet"] = v,
           number["entry"] = v =>
               number'["entry"] = v /\ entries' = entries /\ next' = next,
           Len(wallets) \in Nat, DOMAIN wallets = 1 .. Len(wallets),
           Len(wallets') \in Nat, DOMAIN wallets' = 1 .. Len(wallets'),
           Len(wallets) <= Len(wallets'), tx[v].wallet \in Nat
    PROVE  Accounted(v)'
<1>1. IsCollection(v)' <=> IsCollection(v)
  BY DEF IsCollection
<1>2. number["entry"] = v =>
         Total(Of(entries, tx[v].wallet))' = Total(Of(entries, tx[v].wallet))
  BY DEF Of
<1> QED BY <1>1, <1>2 DEF Accounted

\* What the transaction of w holds changes, and nothing is written yet.
LEMMA AccountsGoOn ==
    ASSUME Accounts, NEW w \in Workers, NEW t \in Tx, NEW at \in Places, Work(w),
           tx' = [tx EXCEPT ![w] = t], pc' = [pc EXCEPT ![w] = at],
           row' \in [Shipments -> Workers \cup {Nobody}],
           number' \in [NumberRows -> Workers \cup {Nobody}],
           \A v \in Workers \ {w}, q \in NumberRows : number[q] = v => number'[q] = v,
           Accounted(w)'
    PROVE  Accounts'
<1>1. UNCHANGED <<committed, next, staging>>
  BY DEF Work
<1>2. TypeOK'
  BY <1>1 DEF Accounts, TypeOK, committed
<1>3. tx' \in [Workers -> Tx]
  BY DEF Accounts
<1>4. (IsFiniteSet(entries) /\ \A e \in entries : e.no < next)'
  BY <1>1 DEF Accounts, committed
<1>5. Len(wallets) \in Nat /\ DOMAIN wallets = 1 .. Len(wallets)
  BY LenProperties DEF Accounts, TypeOK
<1>6. ASSUME NEW v \in Workers, v # w PROVE Accounted(v)'
  <2>1. Accounted(v) /\ pc'[v] = pc[v] /\ tx'[v] = tx[v] /\ tx[v].wallet \in Nat
    BY <1>6 DEF Accounts, TypeOK, Tx
  <2> QED BY <1>1, <1>5, <1>6, <2>1, AccountedStays DEF committed, NumberRows
<1> QED BY <1>2, <1>3, <1>4, <1>6 DEF Accounts

LEMMA IdleTx == Idle \in Tx /\ Idle.wallet = 0
BY DEF Idle, Tx

\* A closed transaction has nothing to account for.
LEMMA ClosedIsAccounted ==
    ASSUME Accounts, NEW w \in Workers, Close(w)
    PROVE  /\ tx' = [tx EXCEPT ![w] = Idle] /\ pc' = [pc EXCEPT ![w] = "idle"]
           /\ row' \in [Shipments -> Workers \cup {Nobody}]
           /\ number' \in [NumberRows -> Workers \cup {Nobody}]
           /\ \A v \in Workers \ {w}, q \in NumberRows : number[q] = v => number'[q] = v
           /\ Accounted(w)'
<1>1. tx' = [tx EXCEPT ![w] = Idle] /\ pc' = [pc EXCEPT ![w] = "idle"]
  BY DEF Close, Goto
<1>2. pc'[w] = "idle"
  BY <1>1 DEF Accounts, TypeOK
<1>3. Accounted(w)'
  BY <1>2 DEF Accounted
<1> QED BY <1>1, <1>3 DEF Close, Release, Accounts, TypeOK

LEMMA AccountsRollback ==
    ASSUME Accounts, NEW w \in Workers, Rollback(w)
    PROVE  Accounts'
BY ClosedIsAccounted, AccountsGoOn, IdleTx DEF Rollback, Work, Places

\* A transaction that begins, and takes no number's row.
LEMMA AccountsBegin ==
    ASSUME Accounts, NEW w \in Workers, NEW t \in Tx, NEW at \in Places, Work(w),
           tx' = [tx EXCEPT ![w] = t], Goto(w, at), UNCHANGED locks,
           \/ at \in {"lock", "log"} /\ t.wallet = 0 /\ t.kind \in {"app", "log"}
           \/ at = "take" /\ t.wallet = 0 /\ t.kind = "wallet"
           \/ at = "take" /\ t.wallet \in DOMAIN wallets /\ t.posts
           \/ at = "edit" /\ t.wallet \in DOMAIN wallets
    PROVE  Accounts'
<1>1. tx'[w] = t /\ pc'[w] = at /\ pc' = [pc EXCEPT ![w] = at]
  BY DEF Accounts, TypeOK, Goto
<1>2. UNCHANGED <<wallets, row, number>>
  BY DEF Work, committed, locks
<1>3. Len(wallets) \in Nat /\ DOMAIN wallets = 1 .. Len(wallets)
  BY LenProperties DEF Accounts, TypeOK
<1>4. Accounted(w)'
  BY <1>1, <1>2, <1>3 DEF Accounted, IsCollection
<1>5. /\ row' \in [Shipments -> Workers \cup {Nobody}]
      /\ number' \in [NumberRows -> Workers \cup {Nobody}]
  BY <1>2 DEF Accounts, TypeOK
<1> QED BY <1>1, <1>2, <1>4, <1>5, AccountsGoOn

-----------------------------------------------------------------------------

LEMMA AttachAccounts ==
    ASSUME IInv, Accounts, NEW d \in Drivers, NEW s \in Unloaded, NEW k \in Keys,
           NEW a \in Sent, Attach(d, s, k, a)
    PROVE  Accounts'
<1> DEFINE t == [Idle EXCEPT !.kind = "app", !.ship = s, !.key = k,
                   !.amount = IF bundles[k] = Nothing THEN a ELSE bundles[k].amount]
<1>1. (IF bundles[k] = Nothing THEN a ELSE bundles[k].amount) \in Int
  BY AmountsAssumption DEF IInv, Inv, Funds, Paid, Payment
<1>2. t \in Tx /\ t.wallet = 0 /\ t.kind = "app"
  BY <1>1, IdleTx, ShipmentsAssumption DEF Tx
<1>3. /\ tx' = [tx EXCEPT ![d] = t] /\ Goto(d, "lock")
      /\ Work(d) /\ UNCHANGED locks
  BY DEF Attach
<1> QED BY <1>2, <1>3, AccountsBegin DEF Workers, Places

LEMMA OfficeLogAccounts ==
    ASSUME Accounts, NEW o \in Offices, NEW s \in Unloaded, OfficeLog(o, s)
    PROVE  Accounts'
<1> DEFINE t == [Idle EXCEPT !.kind = "log", !.ship = s, !.amount = Due]
<1>0. Due \in Int /\ s \in Shipments /\ Idle \in Tx
  BY IdleTx, AmountsAssumption, ShipmentsAssumption
<1>1. t \in Tx
  BY <1>0 DEF Tx
<1>2. t.wallet = 0 /\ t.kind = "log"
  BY <1>0, IdleTx DEF Tx
<1> QED BY <1>1, <1>2, AccountsBegin DEF OfficeLog, Workers, Places

LEMMA OfficeWalletAccounts ==
    ASSUME Accounts, NEW o \in Offices, OfficeWallet(o)
    PROVE  Accounts'
<1> DEFINE t == [Idle EXCEPT !.kind = "wallet"]
<1>1. t \in Tx /\ t.wallet = 0 /\ t.kind = "wallet"
  BY IdleTx DEF Tx
<1> QED BY <1>1, AccountsBegin DEF OfficeWallet, Workers, Places

LEMMA OfficeEntryAccounts ==
    ASSUME Accounts, NEW o \in Offices, NEW v \in DOMAIN wallets,
           NEW p \in Postings, OfficeEntry(o, v, p)
    PROVE  Accounts'
<1> DEFINE t == [Idle EXCEPT !.kind = "entry", !.ship = p.ship, !.amount = p.amount,
                             !.wallet = v, !.posts = TRUE]
<1>1. v \in Nat
  BY LenProperties DEF Accounts, TypeOK
<1>2. t \in Tx /\ t.wallet = v /\ t.posts
  BY <1>1, IdleTx, PostingsAssumption DEF Tx
<1> QED BY <1>2, AccountsBegin DEF OfficeEntry, Workers, Places

LEMMA EditLoadAccounts ==
    ASSUME Accounts, NEW o \in Offices, NEW v \in DOMAIN wallets, EditLoad(o, v)
    PROVE  Accounts'
<1> DEFINE t == [Idle EXCEPT !.kind = "edit", !.wallet = v, !.total = wallets[v].balance]
<1>0. wallets \in Seq(Wallet)
  BY DEF Accounts, TypeOK, Wallet
<1>1. v \in Nat /\ wallets[v] \in Wallet
  BY <1>0, LenProperties, ElementOfSeq
<1>2. t \in Tx /\ t.wallet = v
  BY <1>1, IdleTx DEF Tx, Wallet
<1> QED BY <1>2, AccountsBegin DEF EditLoad, Workers, Places

LEMMA LockShipmentAccounts ==
    ASSUME Accounts, NEW d \in Workers, LockShipment(d), Sound(d)
    PROVE  Accounts'
<1>1. CASE Rollback(d)
  BY <1>1, AccountsRollback
<1>2. CASE ~Rollback(d)
  <2> DEFINE t == [tx[d] EXCEPT !.saw = collected[tx[d].ship]]
  <2>1. /\ pc[d] = "lock" /\ row[tx[d].ship] = Nobody
        /\ row' = [row EXCEPT ![tx[d].ship] = d]
        /\ tx' = [tx EXCEPT ![d] = t]
        /\ pc' = [pc EXCEPT ![d] = "log"]
        /\ Work(d) /\ UNCHANGED number
    BY <1>2 DEF LockShipment, Goto
  <2>2. IsCollection(d) /\ tx[d].wallet = 0 /\ tx[d] \in Tx /\ tx[d].ship \in Shipments
    BY <2>1 DEF Accounts, Accounted, Sound
  <2>3. t \in Tx /\ t.wallet = 0 /\ t.kind = tx[d].kind
    BY <2>2 DEF Tx, Accounts, TypeOK
  <2> HIDE DEF t
  <2>4. pc'[d] = "log" /\ tx'[d] = t
    BY <2>1 DEF Accounts, TypeOK
  <2>5. Accounted(d)'
    BY <2>2, <2>3, <2>4 DEF Accounted, IsCollection
  <2>6. /\ row' \in [Shipments -> Workers \cup {Nobody}]
        /\ number' \in [NumberRows -> Workers \cup {Nobody}]
    BY <2>1 DEF Accounts, TypeOK
  <2> QED BY <2>1, <2>3, <2>5, <2>6, AccountsGoOn DEF Places
<1> QED BY <1>1, <1>2

LEMMA InsertLogAccounts ==
    ASSUME Accounts, NEW w \in Workers, InsertLog(w)
    PROVE  Accounts'
<1>1. CASE Rollback(w)
  BY <1>1, AccountsRollback
<1>2. CASE ~Rollback(w)
  <2>1. /\ pc[w] = "log" /\ number["log"] = Nobody
        /\ number' = [number EXCEPT !["log"] = w]
        /\ pc' = [pc EXCEPT ![w] = "collect"]
        /\ Work(w) /\ UNCHANGED <<row, tx>>
    BY <1>2 DEF InsertLog, Goto
  <2>2. IsCollection(w) /\ tx[w].wallet = 0 /\ tx[w] \in Tx
    BY <2>1 DEF Accounts, Accounted
  <2>3. pc'[w] = "collect" /\ tx'[w] = tx[w] /\ tx' = [tx EXCEPT ![w] = tx[w]]
    BY <2>1 DEF Accounts, TypeOK
  <2>4. Accounted(w)'
    BY <2>2, <2>3 DEF Accounted, IsCollection
  <2>5. /\ row' \in [Shipments -> Workers \cup {Nobody}]
        /\ number' \in [NumberRows -> Workers \cup {Nobody}]
        /\ \A v \in Workers \ {w}, q \in NumberRows : number[q] = v => number'[q] = v
    BY <2>1, NobodyAssumption DEF Accounts, TypeOK, Workers
  <2> QED BY <2>1, <2>2, <2>3, <2>4, <2>5, AccountsGoOn DEF Places
<1> QED BY <1>1, <1>2

LEMMA CreditType ==
    ASSUME TypeOK, NEW t \in Tx, t.wallet = 0
    PROVE  LET u == Credit(t)
           IN  /\ u \in Tx /\ u.kind = t.kind
               /\ u.wallet = 0 \/ u.wallet \in DOMAIN wallets
<1>1. Len(wallets) + 1 \in Nat /\ next \in Nat
  BY LenProperties DEF TypeOK
<1>2. Active # {} => Latest \in DOMAIN wallets /\ Latest \in Nat
  BY LatestIsActive, LenProperties DEF TypeOK
<1>3. CASE Active = {}
  BY <1>1, <1>3 DEF Credit, Tx
<1>4. CASE Active # {} /\ CreditedIn(Latest, t.ship)
  BY <1>2, <1>4 DEF Credit, Tx
<1>5. CASE Active # {} /\ ~CreditedIn(Latest, t.ship)
  BY <1>1, <1>2, <1>5 DEF Credit, Tx
<1> QED BY <1>3, <1>4, <1>5

LEMMA CollectAccounts ==
    ASSUME IInv, Accounts, NEW w \in Workers, Collect(w)
    PROVE  Accounts'
<1>1. CASE Rollback(w)
  BY <1>1, AccountsRollback
<1>2. CASE ~Rollback(w)
  <2> DEFINE n == IF Bundle(tx[w]) = Nothing THEN tx[w].amount
                  ELSE Bundle(tx[w]).amount
             c == [tx[w] EXCEPT !.saw = FALSE,
                                !.consumes = Bundle(tx[w]) # Nothing,
                                !.amount = n]
             u == Credit(c)
  <2>1. /\ pc[w] = "collect"
        /\ row' = [row EXCEPT ![tx[w].ship] = w]
        /\ tx' = [tx EXCEPT ![w] = u] /\ pc' = [pc EXCEPT ![w] = AfterCredit(u)]
        /\ Work(w) /\ UNCHANGED number
    BY <1>2 DEF Collect, Goto
  <2>2. IsCollection(w) /\ tx[w].wallet = 0 /\ tx[w] \in Tx
    BY <2>1 DEF Accounts, Accounted
  <2>3. n \in Int
    BY <2>2 DEF Tx, Bundle, IInv, Inv, Sound, Funds, Paid, Payment
  <2> HIDE DEF n
  <2>4. c \in Tx /\ c.wallet = 0 /\ c.kind = tx[w].kind
    BY <2>2, <2>3 DEF Tx
  <2> HIDE DEF c
  <2>5. /\ u \in Tx /\ u.kind = c.kind
        /\ u.wallet = 0 \/ u.wallet \in DOMAIN wallets
    BY <2>4, CreditType DEF Accounts
  <2> HIDE DEF u
  <2>6. tx'[w] = u /\ pc'[w] = AfterCredit(u) /\ UNCHANGED wallets
    BY <2>1 DEF Accounts, TypeOK, Work, committed
  <2>7. Len(wallets) \in Nat /\ DOMAIN wallets = 1 .. Len(wallets)
    BY LenProperties DEF Accounts, TypeOK
  <2>8. Accounted(w)'
    BY <2>2, <2>4, <2>5, <2>6, <2>7 DEF Accounted, IsCollection, AfterCredit
  <2>9. /\ row' \in [Shipments -> Workers \cup {Nobody}]
        /\ number' \in [NumberRows -> Workers \cup {Nobody}]
        /\ AfterCredit(u) \in Places
    BY <2>1 DEF Accounts, TypeOK, AfterCredit, Places
  <2> QED BY <2>1, <2>5, <2>8, <2>9, AccountsGoOn
<1> QED BY <1>1, <1>2

LEMMA ReadNumberAccounts ==
    ASSUME Accounts, NEW w \in Workers, ReadNumber(w)
    PROVE  Accounts'
<1>0. Len(wallets) \in Nat /\ next \in Nat
  BY LenProperties DEF Accounts, TypeOK
<1>1. PICK n \in Nat, at \in {"open", "post"} :
        /\ at = "open" <=> tx[w].wallet = 0
        /\ tx' = [tx EXCEPT ![w].no = n] /\ pc' = [pc EXCEPT ![w] = at]
        /\ pc[w] = "take" /\ Work(w) /\ UNCHANGED <<row, number>>
  BY <1>0 DEF ReadNumber, Goto, locks
<1> DEFINE t == [tx[w] EXCEPT !.no = n]
<1>2. tx' = [tx EXCEPT ![w] = t]
  BY <1>1
<1>3. tx[w] \in Tx
  BY DEF Accounts
<1>4. t \in Tx /\ t.wallet = tx[w].wallet /\ t.posts = tx[w].posts /\ t.kind = tx[w].kind
  BY <1>3 DEF Tx
<1> HIDE DEF t
<1>5. tx'[w] = t /\ pc'[w] = at /\ UNCHANGED <<wallets, number>>
  BY <1>1, <1>2 DEF Accounts, TypeOK, Work, committed
<1>6. t.wallet \in 0 .. Len(wallets) + 1
  BY <1>1, <1>4 DEF Accounts, Accounted
<1>7. Accounted(w)'
  BY <1>0, <1>1, <1>4, <1>5, <1>6 DEF Accounts, Accounted, IsCollection
<1>8. /\ row' \in [Shipments -> Workers \cup {Nobody}]
      /\ number' \in [NumberRows -> Workers \cup {Nobody}]
  BY <1>1 DEF Accounts, TypeOK
<1> QED BY <1>1, <1>2, <1>4, <1>7, <1>8, AccountsGoOn DEF Places

LEMMA OpenWalletAccounts ==
    ASSUME Accounts, NEW w \in Workers, OpenWallet(w)
    PROVE  Accounts'
<1>1. CASE Rollback(w)
  BY <1>1, AccountsRollback
<1>2. CASE ~Rollback(w)
  <2> DEFINE posts == tx[w].kind = "app" \/ tx[w].kind = "log"
             at == IF tx[w].kind = "wallet" THEN "commit" ELSE "take"
             t == [tx[w] EXCEPT !.wallet = tx[w].no, !.posts = posts]
  <2>1. /\ pc[w] = "open" /\ number["wallet"] = Nobody
        /\ tx[w].no = Len(wallets) + 1
        /\ number' = [number EXCEPT !["wallet"] = w]
        /\ tx' = [tx EXCEPT ![w] = t] /\ pc' = [pc EXCEPT ![w] = at]
        /\ Work(w) /\ UNCHANGED row
    BY <1>2 DEF OpenWallet, Goto
  <2>2. tx[w] \in Tx /\ next \in Nat /\ (IsCollection(w) \/ tx[w].kind = "wallet")
    BY <2>1 DEF Accounts, Accounted, TypeOK
  <2>3. /\ t \in Tx /\ t.wallet = tx[w].no /\ t.posts = posts
        /\ t.kind = tx[w].kind
    BY <2>2 DEF Tx
  <2>4. t.posts <=> IsCollection(w)
    BY <2>3 DEF IsCollection
  <2> HIDE DEF t, posts
  <2>5. tx'[w] = t /\ pc'[w] = at /\ UNCHANGED wallets /\ number'["wallet"] = w
    BY <2>1 DEF Accounts, TypeOK, Work, committed, NumberRows
  <2>6. Len(wallets) \in Nat /\ DOMAIN wallets = 1 .. Len(wallets)
    BY LenProperties DEF Accounts, TypeOK
  <2>7. at \in {"take", "commit"} /\ (at = "take" => t.posts) /\ (at = "commit" => ~t.posts)
    BY <2>2, <2>3, <2>4 DEF IsCollection
  <2> HIDE DEF at
  <2>8. Accounted(w)'
    BY <2>1, <2>3, <2>5, <2>6, <2>7 DEF Accounted
  <2>9. /\ row' \in [Shipments -> Workers \cup {Nobody}]
        /\ number' \in [NumberRows -> Workers \cup {Nobody}]
        /\ \A v \in Workers \ {w}, q \in NumberRows : number[q] = v => number'[q] = v
    BY <2>1, NobodyAssumption DEF Accounts, TypeOK, Workers
  <2> QED BY <2>1, <2>3, <2>7, <2>8, <2>9, AccountsGoOn DEF Places
<1> QED BY <1>1, <1>2

LEMMA PostAccounts ==
    ASSUME Accounts, NEW w \in Workers, Post(w)
    PROVE  Accounts'
<1>1. CASE Rollback(w)
  BY <1>1, AccountsRollback
<1>2. CASE ~Rollback(w)
  <2> DEFINE n == Sum(tx[w])
             t == [tx[w] EXCEPT !.total = n]
  <2>1. /\ pc[w] = "post" /\ number["entry"] = Nobody /\ ~Taken(tx[w])
        /\ number' = [number EXCEPT !["entry"] = w]
        /\ tx' = [tx EXCEPT ![w] = t] /\ pc' = [pc EXCEPT ![w] = "commit"]
        /\ Work(w) /\ UNCHANGED row
    BY <1>2 DEF Post, Goto
  <2>2. /\ tx[w] \in Tx /\ tx[w].posts /\ tx[w].wallet \in 1 .. Len(wallets) + 1
        /\ tx[w].wallet > Len(wallets) => number["wallet"] = w
        /\ tx[w].no = next
    BY <2>1 DEF Accounts, Accounted, Taken
  <2>3. Total(Of(entries, tx[w].wallet)) \in Int /\ tx[w].amount \in Int
    <3>1. /\ IsFiniteSet(Of(entries, tx[w].wallet))
          /\ \A e \in Of(entries, tx[w].wallet) : e.amount \in Int
      BY FS_Subset DEF Accounts, TypeOK, Of
    <3> QED BY <2>2, <3>1, TotalType DEF Tx
  <2>4. n = Total(Of(entries, tx[w].wallet)) + tx[w].amount /\ n \in Int
    BY <2>3 DEF Sum
  <2> HIDE DEF n
  <2>5. /\ t \in Tx /\ t.total = n /\ t.wallet = tx[w].wallet
        /\ t.posts = tx[w].posts /\ t.no = tx[w].no /\ t.amount = tx[w].amount
    BY <2>2, <2>4 DEF Tx
  <2> HIDE DEF t
  <2>6. /\ tx'[w] = t /\ pc'[w] = "commit"
        /\ number'["entry"] = w /\ number'["wallet"] = number["wallet"]
        /\ UNCHANGED <<wallets, entries, next>>
    BY <2>1 DEF Accounts, TypeOK, Work, committed, NumberRows
  <2>7. Accounted(w)'
    BY <2>2, <2>4, <2>5, <2>6 DEF Accounted
  <2>8. /\ row' \in [Shipments -> Workers \cup {Nobody}]
        /\ number' \in [NumberRows -> Workers \cup {Nobody}]
        /\ \A v \in Workers \ {w}, q \in NumberRows : number[q] = v => number'[q] = v
    BY <2>1, NobodyAssumption DEF Accounts, TypeOK, Workers
  <2> QED BY <2>1, <2>5, <2>7, <2>8, AccountsGoOn DEF Places
<1> QED BY <1>1, <1>2

-----------------------------------------------------------------------------

\* The transaction of w ends.
LEMMA AccountsClose ==
    ASSUME Accounts, NEW w \in Workers, Close(w), TypeOK',
           IsFiniteSet(entries'), \A e \in entries' : e.no < next',
           Len(wallets) <= Len(wallets'),
           number["entry"] # w => entries' = entries /\ next' = next
    PROVE  Accounts'
<1>1. /\ tx' = [tx EXCEPT ![w] = Idle] /\ pc' = [pc EXCEPT ![w] = "idle"]
      /\ \A v \in Workers \ {w}, q \in NumberRows : number[q] = v => number'[q] = v
      /\ Accounted(w)'
  BY ClosedIsAccounted
<1>2. tx' \in [Workers -> Tx]
  BY <1>1, IdleTx DEF Accounts
<1>3. /\ Len(wallets) \in Nat /\ DOMAIN wallets = 1 .. Len(wallets)
      /\ Len(wallets') \in Nat /\ DOMAIN wallets' = 1 .. Len(wallets')
  BY LenProperties DEF Accounts, TypeOK
<1>4. ASSUME NEW v \in Workers, v # w PROVE Accounted(v)'
  <2>1. Accounted(v) /\ pc'[v] = pc[v] /\ tx'[v] = tx[v] /\ tx[v].wallet \in Nat
    BY <1>1, <1>4 DEF Accounts, TypeOK, Tx
  <2>2. /\ number["wallet"] = v => number'["wallet"] = v
        /\ number["entry"] = v =>
              number'["entry"] = v /\ entries' = entries /\ next' = next
    BY <1>1, <1>4 DEF NumberRows
  <2> QED BY <1>3, <2>1, <2>2, AccountedStays
<1> QED BY <1>1, <1>2, <1>4 DEF Accounts

\* A wallet that is written stays a wallet; a new one is the last.
LEMMA WrittenWallets ==
    ASSUME wallets \in Seq(Wallet), NEW t \in Tx, t.wallet \in 1 .. Len(wallets) + 1
    PROVE  LET after == WalletsAfter(t)
           IN  /\ after \in Seq(Wallet)
               /\ Len(wallets) <= Len(after)
               /\ t.wallet <= Len(after)
               /\ t.posts => after[t.wallet].balance = t.total
<1>0. Len(wallets) \in Nat /\ t.total \in Int /\ t.posts \in BOOLEAN
  BY LenProperties DEF Tx
<1>1. CASE t.wallet > Len(wallets)
  <2> DEFINE new == [active |-> TRUE, balance |-> t.total]
  <2>1. new \in Wallet /\ new.balance = t.total
    BY <1>0 DEF Wallet
  <2>2. t.wallet = Len(wallets) + 1 /\ WalletsAfter(t) = Append(wallets, new)
    BY <1>0, <1>1 DEF WalletsAfter
  <2> HIDE DEF new
  <2>3. /\ Append(wallets, new) \in Seq(Wallet)
        /\ Len(Append(wallets, new)) = Len(wallets) + 1
        /\ Append(wallets, new)[Len(wallets) + 1] = new
    BY <2>1, AppendProperties
  <2> QED BY <1>0, <2>1, <2>2, <2>3
<1>2. CASE ~(t.wallet > Len(wallets)) /\ t.posts
  <2> DEFINE new == [wallets[t.wallet] EXCEPT !.balance = t.total]
  <2>1. t.wallet \in 1 .. Len(wallets)
    BY <1>0, <1>2
  <2>2. wallets[t.wallet] \in Wallet
    BY <2>1, ElementOfSeq
  <2>3. new \in Wallet /\ new.balance = t.total
    BY <1>0, <2>2 DEF Wallet
  <2>4. WalletsAfter(t) = [wallets EXCEPT ![t.wallet] = new]
    BY <1>0, <1>2 DEF WalletsAfter
  <2> HIDE DEF new
  <2>5. /\ [wallets EXCEPT ![t.wallet] = new] \in Seq(Wallet)
        /\ Len([wallets EXCEPT ![t.wallet] = new]) = Len(wallets)
        /\ [wallets EXCEPT ![t.wallet] = new][t.wallet] = new
    BY <2>1, <2>3, ExceptSeq, LenProperties
  <2> QED BY <1>0, <2>1, <2>3, <2>4, <2>5
<1>3. CASE ~(t.wallet > Len(wallets)) /\ ~t.posts
  BY <1>0, <1>3 DEF WalletsAfter
<1> QED BY <1>0, <1>1, <1>2, <1>3

\* What a commit writes to the wallets and numbers.
LEMMA CommitPosts ==
    ASSUME NEW w \in Workers, Commit(w)
    PROVE  /\ wallets' = WalletsAfter(tx[w])
           /\ next' = IF tx[w].posts THEN next + 1 ELSE next
           /\ collected' = IF IsCollection(w)
                           THEN [collected EXCEPT ![tx[w].ship] = TRUE]
                           ELSE collected
BY DEF Commit

LEMMA CommitAccounts ==
    ASSUME IInv, Accounts, NEW w \in Workers, Commit(w)
    PROVE  Accounts'
<1> DEFINE t == tx[w]
           n == LogNo(w)
           e == EntryOf(t, n)
<1>1. /\ pc[w] = "commit" /\ Close(w) /\ UNCHANGED staging
      /\ logs' = IF IsCollection(w) THEN logs \cup {LogOf(w)} ELSE logs
      /\ entries' = IF t.posts THEN entries \cup {e} ELSE entries
      /\ bundles' = IF t.consumes THEN [bundles EXCEPT ![t.key].log = n] ELSE bundles
      /\ wallets' = WalletsAfter(t)
      /\ next' = IF t.posts THEN next + 1 ELSE next
      /\ collected' = IF IsCollection(w) THEN [collected EXCEPT ![t.ship] = TRUE]
                      ELSE collected
  BY CommitWrites, CommitPosts
<1>2. n \in Nat
  BY CommitNumbers DEF IInv, Ledger
<1>3. t \in Tx /\ Accounted(w) /\ Sound(w) /\ Matches(w)
  BY DEF Accounts, IInv, Inv, Ledger
<1>4. /\ LogOf(w) = [no |-> n, ship |-> t.ship, key |-> t.key]
      /\ e = [no |-> t.no, wallet |-> t.wallet, ship |-> t.ship,
              amount |-> t.amount, log |-> n]
  BY DEF LogOf, EntryOf
<1> HIDE DEF n, e
<1>5. /\ wallets \in Seq(Wallet) /\ next \in Nat
      /\ Len(wallets) \in Nat /\ DOMAIN wallets = 1 .. Len(wallets)
  BY LenProperties DEF Accounts, TypeOK, Wallet
<1>6. t.wallet \in 1 .. Len(wallets) + 1 /\ (t.posts => number["entry"] = w /\ t.no = next)
  BY <1>1, <1>3 DEF Accounted
<1>7. /\ wallets' \in Seq(Wallet) /\ Len(wallets) <= Len(wallets')
      /\ t.wallet <= Len(wallets')
  BY <1>1, <1>3, <1>5, <1>6, WrittenWallets
<1>8. /\ Len(wallets') \in Nat /\ DOMAIN wallets' = 1 .. Len(wallets')
  BY <1>7, LenProperties
<1>9. TypeOK'
  <2>1. collected' \in [Shipments -> BOOLEAN]
    BY <1>1, <1>3 DEF Accounts, TypeOK, Sound
  <2>2. (logs \subseteq [no : Nat, ship : Shipments, key : Keys \cup {Nothing}])'
    <3>1. IsCollection(w) =>
             LogOf(w) \in [no : Nat, ship : Shipments, key : Keys \cup {Nothing}]
      BY <1>2, <1>3, <1>4 DEF Sound, Tx
    <3> QED BY <1>1, <3>1 DEF Accounts, TypeOK
  <2>3. (bundles \in [Keys -> [ship : Shipments, amount : Staged, log : Nat]
                               \cup {Nothing}])'
    <3>1. CASE t.consumes
      <4>1. t.key \in Keys /\ bundles[t.key] # Nothing
        BY <1>3, <3>1 DEF Sound, Matches
      <4>2. bundles[t.key] \in [ship : Shipments, amount : Staged, log : Nat]
        BY <4>1 DEF Accounts, TypeOK
      <4>3. [bundles[t.key] EXCEPT !.log = n]
               \in [ship : Shipments, amount : Staged, log : Nat]
        BY <1>2, <4>2
      <4> QED BY <1>1, <3>1, <4>1, <4>3 DEF Accounts, TypeOK
    <3>2. CASE ~t.consumes
      BY <1>1, <3>2 DEF Accounts, TypeOK
    <3> QED BY <3>1, <3>2
  <2>4. (staging \subseteq [key : Keys, ship : Shipments, amount : Staged])'
    BY <1>1 DEF Accounts, TypeOK
  <2>5. (entries \subseteq [no : Nat, wallet : DOMAIN wallets,
                            ship : Shipments \cup {Nothing}, amount : Int, log : Nat])'
    <3>1. t.wallet \in DOMAIN wallets' /\ DOMAIN wallets \subseteq DOMAIN wallets'
      BY <1>5, <1>6, <1>7, <1>8
    <3>2. e \in [no : Nat, wallet : DOMAIN wallets',
                 ship : Shipments \cup {Nothing}, amount : Int, log : Nat]
      BY <1>2, <1>3, <1>4, <3>1 DEF Tx
    <3>3. entries \subseteq [no : Nat, wallet : DOMAIN wallets',
                             ship : Shipments \cup {Nothing}, amount : Int, log : Nat]
      BY <3>1 DEF Accounts, TypeOK
    <3> QED BY <1>1, <3>2, <3>3
  <2>6. next' \in Nat
    BY <1>1, <1>5
  <2>7. /\ row' \in [Shipments -> Workers \cup {Nobody}]
        /\ number' \in [NumberRows -> Workers \cup {Nobody}]
        /\ pc' \in [Workers -> Places]
    BY <1>1, ClosedIsAccounted DEF Accounts, TypeOK, Places
  <2> QED BY <1>7, <2>1, <2>2, <2>3, <2>4, <2>5, <2>6, <2>7 DEF TypeOK, Wallet
<1>10. IsFiniteSet(entries')
  BY <1>1, FS_AddElement DEF Accounts
<1>11. ASSUME NEW c \in entries' PROVE c.no < next'
  BY <1>1, <1>3, <1>4, <1>5, <1>6 DEF Accounts, TypeOK
<1>12. number["entry"] # w => entries' = entries /\ next' = next
  BY <1>1, <1>6
<1> QED BY <1>1, <1>7, <1>9, <1>10, <1>11, <1>12, AccountsClose

LEMMA EditSaveAccounts ==
    ASSUME Accounts, NEW o \in Workers, NEW active \in BOOLEAN, EditSave(o, active)
    PROVE  Accounts'
<1> DEFINE v == tx[o].wallet
           new == [active |-> active, balance |-> tx[o].total]
<1>1. /\ pc[o] = "edit" /\ Close(o) /\ wallets' = [wallets EXCEPT ![v] = new]
      /\ UNCHANGED <<collected, logs, bundles, entries, next, staging>>
  BY DEF EditSave
<1>2. new \in Wallet
  BY DEF Accounts, Tx, Wallet
<1>3. wallets \in Seq(Wallet) /\ v \in 1 .. Len(wallets)
  BY <1>1, LenProperties DEF Accounts, TypeOK, Accounted, Wallet
<1> HIDE DEF new, v
<1>4. wallets' \in Seq(Wallet) /\ Len(wallets') = Len(wallets)
  BY <1>1, <1>2, <1>3, ExceptSeq
<1>5. DOMAIN wallets' = DOMAIN wallets /\ Len(wallets) \in Nat
  BY <1>3, <1>4, LenProperties
<1>6. /\ row' \in [Shipments -> Workers \cup {Nobody}]
      /\ number' \in [NumberRows -> Workers \cup {Nobody}]
      /\ pc' \in [Workers -> Places]
  BY <1>1, ClosedIsAccounted DEF Accounts, TypeOK, Places
<1>7. TypeOK'
  BY <1>1, <1>4, <1>5, <1>6 DEF Accounts, TypeOK, Wallet
<1> QED BY <1>1, <1>4, <1>5, <1>7, AccountsClose DEF Accounts

\* Shipments, bundles and what is being staged are no part of an account.
LEMMA AccountsStay ==
    ASSUME Accounts, TypeOK', UNCHANGED <<wallets, entries, next, number, pc, tx>>
    PROVE  Accounts'
<1>1. Len(wallets) \in Nat /\ DOMAIN wallets = 1 .. Len(wallets)
  BY LenProperties DEF Accounts, TypeOK
<1>2. ASSUME NEW v \in Workers PROVE Accounted(v)'
  <2>1. Accounted(v) /\ tx[v].wallet \in Nat
    BY DEF Accounts, Tx
  <2> QED BY <1>1, <2>1, AccountedStays
<1> QED BY <1>2 DEF Accounts

LEMMA StageAccounts ==
    ASSUME Accounts, NEW s \in Shipments, NEW k \in Keys, NEW a \in Staged, Stage(s, k, a)
    PROVE  Accounts'
<1>1. TypeOK'
  BY DEF Accounts, TypeOK, Stage, committed, locks
<1> QED BY <1>1, AccountsStay DEF Stage, committed, locks

LEMMA StageSaveAccounts ==
    ASSUME Accounts, NEW p \in staging, StageSave(p)
    PROVE  Accounts'
<1>1. TypeOK'
  BY DEF Accounts, TypeOK, StageSave, locks
<1> QED BY <1>1, AccountsStay DEF StageSave, locks

LEMMA ShipmentSavedAccounts ==
    ASSUME Accounts, NEW s \in Unloaded,
           FollowLog(s) \/ \E c \in BOOLEAN : ShipmentEdit(s, c)
    PROVE  Accounts'
<1>1. TypeOK'
  BY DEF Accounts, TypeOK, FollowLog, ShipmentEdit, locks
<1> QED BY <1>1, AccountsStay DEF FollowLog, ShipmentEdit, locks

LEMMA AccountsNext ==
    ASSUME IInv, Accounts, [Next]_vars
    PROVE  Accounts'
<1>0. \A w \in Drivers \cup Offices : w \in Workers
  BY DEF Workers
<1>1. ASSUME NEW s \in Shipments, NEW k \in Keys, NEW a \in Staged, Stage(s, k, a)
      PROVE  Accounts'
  BY <1>1, StageAccounts
<1>2. ASSUME NEW p \in staging, StageSave(p) PROVE Accounts'
  BY <1>2, StageSaveAccounts
<1>3. ASSUME NEW d \in Drivers, NEW s \in Unloaded, NEW k \in Keys, NEW a \in Sent,
             Attach(d, s, k, a)
      PROVE  Accounts'
  BY <1>3, AttachAccounts
<1>4. ASSUME NEW o \in Offices, NEW s \in Unloaded, OfficeLog(o, s) PROVE Accounts'
  BY <1>4, OfficeLogAccounts
<1>5. ASSUME NEW o \in Offices, OfficeWallet(o) PROVE Accounts'
  BY <1>5, OfficeWalletAccounts
<1>6. ASSUME NEW o \in Offices, NEW v \in DOMAIN wallets,
             NEW p \in Postings, OfficeEntry(o, v, p)
      PROVE  Accounts'
  BY <1>6, OfficeEntryAccounts
<1>7. ASSUME NEW o \in Offices, NEW v \in DOMAIN wallets, EditLoad(o, v) PROVE Accounts'
  BY <1>7, EditLoadAccounts
<1>8. ASSUME NEW s \in Unloaded, FollowLog(s) \/ \E c \in BOOLEAN : ShipmentEdit(s, c)
      PROVE  Accounts'
  BY <1>8, ShipmentSavedAccounts
<1>9. ASSUME NEW w \in Workers, Step(w) \/ Crash(w) PROVE Accounts'
  <2>1. CASE Rollback(w)
    BY <2>1, AccountsRollback
  <2>2. CASE LockShipment(w)
    BY <2>2, LockShipmentAccounts DEF IInv, Inv
  <2>3. CASE InsertLog(w)
    BY <2>3, InsertLogAccounts
  <2>4. CASE Collect(w)
    BY <2>4, CollectAccounts
  <2>5. CASE OpenWallet(w)
    BY <2>5, OpenWalletAccounts
  <2>6. CASE Post(w)
    BY <2>6, PostAccounts
  <2>7. CASE Commit(w)
    BY <2>7, CommitAccounts
  <2>8. ASSUME NEW active \in BOOLEAN, EditSave(w, active) PROVE Accounts'
    BY <2>8, EditSaveAccounts
  <2>9. CASE ReadNumber(w)
    BY <2>9, ReadNumberAccounts
  <2> QED BY <1>9, <2>1, <2>2, <2>3, <2>4, <2>5, <2>6, <2>7, <2>8, <2>9
          DEF Step, Crash, BreakDeadlock
<1>10. CASE UNCHANGED vars
  <2>1. TypeOK'
    BY <1>10 DEF Accounts, TypeOK, vars, committed, locks
  <2> QED BY <1>10, <2>1, AccountsStay DEF vars, committed, locks
<1> QED BY <1>1, <1>2, <1>3, <1>4, <1>5, <1>6, <1>7, <1>8, <1>9, <1>10 DEF Next

\* Entries are written by commits alone.
LEMMA OnlyCommitsPost ==
    ASSUME [Next]_vars, entries' # entries
    PROVE  \E w \in Workers : Commit(w)
<1>1. ASSUME NEW w, Step(w) \/ Crash(w) PROVE Commit(w)
  BY <1>1 DEF Step, Crash, LockShipment, InsertLog, Collect, ReadNumber, OpenWallet, Post,
              BreakDeadlock, EditSave, Rollback, Work, committed
<1> QED BY <1>1 DEF Next, Stage, StageSave, Attach, OfficeLog, OfficeWallet, OfficeEntry,
                    EditLoad, FollowLog, ShipmentEdit, Work, committed, vars

LEMMA CommitSums ==
    ASSUME Accounts, NEW w \in Workers, Commit(w),
           NEW v \in DOMAIN wallets, Of(entries', v) # Of(entries, v)
    PROVE  wallets'[v].balance = Total(Of(entries', v))
<1> DEFINE t == tx[w]
           e == EntryOf(t, LogNo(w))
<1>1. /\ pc[w] = "commit" /\ wallets' = WalletsAfter(t)
      /\ entries' = IF t.posts THEN entries \cup {e} ELSE entries
  BY CommitWrites, CommitPosts
<1>2. e.no = t.no /\ e.wallet = t.wallet /\ e.amount = t.amount
  BY DEF EntryOf
<1> HIDE DEF e
<1>3. t.posts /\ e.wallet = v
  BY <1>1 DEF Of
<1>4. /\ t \in Tx /\ t.wallet \in 1 .. Len(wallets) + 1
      /\ t.no = next
      /\ t.total = Total(Of(entries, v)) + t.amount
  BY <1>1, <1>2, <1>3 DEF Accounts, Accounted
<1>5. e \notin Of(entries, v) /\ Of(entries', v) = Of(entries, v) \cup {e}
  <2>1. next \in Nat /\ \A c \in entries : c.no # next
    BY DEF Accounts, TypeOK
  <2> QED BY <1>1, <1>2, <1>3, <1>4, <2>1 DEF Of
<1>6. IsFiniteSet(Of(entries, v)) /\ \A c \in Of(entries, v) : c.amount \in Int
  BY FS_Subset DEF Accounts, TypeOK, Of
<1>7. Total(Of(entries, v) \cup {e}) = Total(Of(entries, v)) + e.amount
  BY <1>2, <1>4, <1>5, <1>6, TotalWith DEF Tx
<1>8. wallets'[v].balance = t.total
  BY <1>1, <1>2, <1>3, <1>4, WrittenWallets DEF Accounts, TypeOK, Wallet
<1> QED BY <1>2, <1>4, <1>5, <1>7, <1>8

LEMMA AccountsAlways == Spec => [](IInv /\ Accounts)
<1>1. Init => IInv /\ Accounts
  BY InvInit, LedgerInit, AccountsInit DEF IInv
<1>2. IInv /\ Accounts /\ [Next]_vars => (IInv /\ Accounts)'
  BY IInvNext, AccountsNext
<1> QED BY <1>1, <1>2, PTL DEF Spec

\* Rows, locks and places have their types: what an action reads of a wallet, a
\* bundle or a number is there, whatever was rolled back or died before.
THEOREM CodTypeCorrect == Spec => []TypeOK
<1>1. Accounts => TypeOK
  BY DEF Accounts
<1> QED BY <1>1, AccountsAlways, PTL

\* Whoever posts a transaction leaves the wallet with the sum of all of them: the
\* row of the entries' number, taken before the sum and held to the commit, keeps
\* any other transaction from posting in between.
THEOREM PostedBalancesAreSums == Spec => PostingSums
<1>1. ASSUME Accounts, [Next]_vars
      PROVE  [\A v \in DOMAIN wallets :
                 Of(entries', v) # Of(entries, v) =>
                     wallets'[v].balance = Total(Of(entries', v))]_vars
  <2> SUFFICES ASSUME NEW v \in DOMAIN wallets, Of(entries', v) # Of(entries, v)
               PROVE  wallets'[v].balance = Total(Of(entries', v))
    OBVIOUS
  <2>1. entries' # entries
    OBVIOUS
  <2>2. PICK w \in Workers : Commit(w)
    BY <1>1, <2>1, OnlyCommitsPost
  <2> QED BY <1>1, <2>2, CommitSums
<1> QED BY <1>1, AccountsAlways, PTL DEF Spec, PostingSums
=============================================================================
