----------------------------- MODULE AutoNumber -----------------------------
(***************************************************************************)
(* How records get their reference numbers: one row per form holds the     *)
(* next number, and each transaction that saves a record reads it, writes  *)
(* it back increased, and saves its record under the number it read.       *)
(*                                                                         *)
(* PostgreSQL runs these transactions READ COMMITTED.  The read takes no   *)
(* lock, so the number may be stale by the time it is written back; the    *)
(* write takes the row lock and keeps it to the end of the transaction.    *)
(* Most writers look whether a record has their number and take the next   *)
(* one if so; the driver app's creation of a movement does not look.       *)
(*                                                                         *)
(* A writer may also need the row of a movement: the execute endpoint      *)
(* locks it before it takes a number, the portal's action log form when it *)
(* saves its log.  The two can wait for each other, until PostgreSQL ends  *)
(* one of them.                                                            *)
(***************************************************************************)
EXTENDS Naturals, FiniteSets

CONSTANTS
    Writers,       \* web workers that save a record of the form
    Checking,      \* those that look whether their number is taken
    RowFirst,      \* those that lock the movement before they take a number
    RowLast,       \* those that lock it when they save their record, which
                   \* refers to the movement, and its side effects
    Free,          \* no writer holds the row
    Ref(_),        \* a number as it is written in a record
    PageNumbers,   \* the numbers the configuration page sets the counter to
    MaxTries,      \* the numbers tried before a writer gives up, 10 in the code
    MaxRecords     \* bound: the records saved

ASSUME AutoNumberAssumption ==
    /\ Checking \subseteq Writers
    /\ RowFirst \subseteq Writers
    /\ RowLast \subseteq Writers
    /\ RowFirst \cap RowLast = {}
    /\ Free \notin Writers
    /\ PageNumbers \subseteq Nat \ {0}
    /\ MaxTries \in Nat \ {0}
    /\ MaxRecords \in Nat

VARIABLES
    next,      \* AutoNumberSequence.next_number as committed; 0: no row yet
    records,   \* the numbers of the committed records
    lock,      \* the writer that holds the row of the sequence
    row,       \* the writer that holds the row of the movement
    mine,      \* the counter as the transaction that holds its row sees it
    pc,        \* where each writer is
    took,      \* the number each writer has read
    tries,     \* how many numbers each writer has found taken
    late,      \* how many records were saved since it first read (history)
    byHand     \* whether the configuration page has set the counter (history)

vars == <<next, records, lock, row, mine, pc, took, tries, late, byHand>>

NoRow == 0

Init ==
    /\ next = NoRow
    /\ records = {}
    /\ lock = Free
    /\ row = Free
    /\ mine = NoRow
    /\ pc = [w \in Writers |-> "idle"]
    /\ took = [w \in Writers |-> 0]
    /\ tries = [w \in Writers |-> 0]
    /\ late = [w \in Writers |-> 0]
    /\ byHand = FALSE

-----------------------------------------------------------------------------

\* Not in a transaction; "refused" is the answer of one that has given up.
AtRest == {"idle", "refused"}

\* Writer w is at work on a number, or has found that there is no counter yet.
HasRead(w) == took[w] # 0 \/ pc[w] = "create"

Goto(w, step) == pc' = [pc EXCEPT ![w] = step]

\* Does a committed record bear number n?
Taken(n) == \E r \in records : Ref(r) = Ref(n)

\* Mutant: a writer that gives up does not end its transaction.
ReleaseRowOnly(w) ==
    /\ lock' = lock
    /\ row' = IF row = w THEN Free ELSE row

\* The transaction of w is over, and so are its row locks.
Release(w) ==
    /\ lock' = IF lock = w THEN Free ELSE lock
    /\ row' = IF row = w THEN Free ELSE row

\* What the worker held in memory is gone with the request.
Forget(w) ==
    /\ took' = [took EXCEPT ![w] = 0]
    /\ tries' = [tries EXCEPT ![w] = 0]

\* It is rolled back: what it wrote is forgotten too.
Rollback(w) ==
    /\ Goto(w, "idle")
    /\ Release(w)
    /\ Forget(w)
    /\ late' = [late EXCEPT ![w] = 0]
    /\ UNCHANGED <<next, records, mine, byHand>>

\* The tries are used up: the request is refused, and rolled back.
GiveUp(w) ==
    /\ Goto(w, "refused")
    /\ Release(w)
    /\ Forget(w)
    /\ UNCHANGED <<next, records, mine, late, byHand>>

Begin(w) ==
    /\ pc[w] \in AtRest
    /\ Cardinality(records) < MaxRecords
    /\ late' = [late EXCEPT ![w] = 0]
    /\ Goto(w, IF w \in RowFirst THEN "row" ELSE "read")
    /\ UNCHANGED <<next, records, lock, row, mine, took, tries, byHand>>

\* SELECT ... FOR UPDATE of the movement.
LockRow(w) ==
    /\ pc[w] = "row"
    /\ row = Free
    /\ row' = w
    /\ Goto(w, "read")
    /\ UNCHANGED <<next, records, lock, mine, took, tries, late, byHand>>

\* get_or_create, the get.
Read(w) ==
    /\ pc[w] = "read"
    /\ LET n == IF lock = w THEN mine ELSE next
       IN  /\ took' = [took EXCEPT ![w] = n]
           /\ Goto(w, IF n = NoRow THEN "create" ELSE "save")
    /\ UNCHANGED <<next, records, lock, row, mine, tries, late, byHand>>

\* get_or_create, the create: it waits for another creation to end, and gets
\* that row if it was committed.
Create(w) ==
    /\ pc[w] = "create"
    /\ lock = Free
    /\ \/ /\ next = NoRow
          /\ lock' = w
          /\ mine' = 1
          /\ took' = [took EXCEPT ![w] = 1]
       \/ /\ next # NoRow
          /\ took' = [took EXCEPT ![w] = next]
          /\ UNCHANGED <<lock, mine>>
    /\ Goto(w, "save")
    /\ UNCHANGED <<next, records, row, tries, late, byHand>>

\* Mutant: the counter is saved in a transaction of its own.
SaveCommitted(w) ==
    /\ pc[w] = "save"
    /\ lock \in {Free, w}
    /\ next' = took[w] + 1
    /\ mine' = took[w] + 1
    /\ Goto(w, IF w \in Checking THEN "check" ELSE "insert")
    /\ UNCHANGED <<records, lock, row, took, tries, late, byHand>>

\* The number read plus one is written back, whatever the row holds by now.
Save(w) ==
    /\ pc[w] = "save"
    /\ lock \in {Free, w}
    /\ lock' = w
    /\ mine' = took[w] + 1
    /\ Goto(w, IF w \in Checking THEN "check" ELSE "insert")
    /\ UNCHANGED <<next, records, row, took, tries, late, byHand>>

\* Mutant: one try too many.
CheckOnceMore(w) ==
    /\ pc[w] = "check"
    /\ \/ /\ ~Taken(took[w])
          /\ Goto(w, "insert")
          /\ UNCHANGED <<next, records, lock, row, mine, took, tries, late, byHand>>
       \/ /\ Taken(took[w])
          /\ tries[w] < MaxTries
          /\ tries' = [tries EXCEPT ![w] = @ + 1]
          /\ Goto(w, "read")
          /\ UNCHANGED <<next, records, lock, row, mine, took, late, byHand>>
       \/ /\ Taken(took[w])
          /\ tries[w] >= MaxTries
          /\ GiveUp(w)

\* Mutant: the last try is not made.
CheckHasty(w) ==
    /\ pc[w] = "check"
    /\ \/ /\ ~Taken(took[w])
          /\ Goto(w, "insert")
          /\ UNCHANGED <<next, records, lock, row, mine, took, tries, late, byHand>>
       \/ /\ Taken(took[w])
          /\ tries[w] + 2 < MaxTries
          /\ tries' = [tries EXCEPT ![w] = @ + 1]
          /\ Goto(w, "read")
          /\ UNCHANGED <<next, records, lock, row, mine, took, late, byHand>>
       \/ /\ Taken(took[w])
          /\ tries[w] + 2 >= MaxTries
          /\ GiveUp(w)

\* Look for a record with this number; after MaxTries of them give up.
Check(w) ==
    /\ pc[w] = "check"
    /\ \/ /\ ~Taken(took[w])
          /\ Goto(w, "insert")
          /\ UNCHANGED <<next, records, lock, row, mine, took, tries, late, byHand>>
       \/ /\ Taken(took[w])
          /\ tries[w] + 1 < MaxTries
          /\ tries' = [tries EXCEPT ![w] = @ + 1]
          /\ Goto(w, "read")
          /\ UNCHANGED <<next, records, lock, row, mine, took, late, byHand>>
       \/ /\ Taken(took[w])
          /\ tries[w] + 1 >= MaxTries
          /\ GiveUp(w)

\* The record is saved; a number that is taken violates the unique column.
Insert(w) ==
    /\ pc[w] = "insert"
    /\ \/ /\ Taken(took[w])
          /\ Rollback(w)
       \/ /\ ~Taken(took[w])
          /\ Goto(w, IF w \in RowLast THEN "effects" ELSE "commit")
          /\ UNCHANGED <<next, records, lock, row, mine, took, tries, late, byHand>>

\* The reference to the movement and the side effects need its row.
Effects(w) ==
    /\ pc[w] = "effects"
    /\ row = Free
    /\ row' = w
    /\ Goto(w, "commit")
    /\ UNCHANGED <<next, records, lock, mine, took, tries, late, byHand>>

Commit(w) ==
    /\ pc[w] = "commit"
    /\ next' = mine
    /\ records' = records \cup {took[w]}
    /\ late' = [x \in Writers |->
                   IF x = w THEN 0
                   ELSE IF HasRead(x) THEN late[x] + 1 ELSE late[x]]
    /\ Release(w)
    /\ Forget(w)
    /\ Goto(w, "idle")
    /\ UNCHANGED <<mine, byHand>>

\* The transaction fails for a reason of its own, or its worker dies.
Fail(w) == pc[w] \notin AtRest /\ Rollback(w)

WaitsForSequence(w) == pc[w] \in {"create", "save"} /\ lock \notin {Free, w}
WaitsForRow(w)      == pc[w] \in {"row", "effects"} /\ row # Free

\* PostgreSQL finds two transactions waiting for each other and ends one.
Deadlock(w) ==
    /\ \/ WaitsForSequence(w) /\ row = w /\ WaitsForRow(lock)
       \/ WaitsForRow(w) /\ lock = w /\ WaitsForSequence(row)
    /\ Rollback(w)

\* The configuration page sets the counter.
SetNext(n) ==
    /\ lock = Free
    /\ next' = n
    /\ byHand' = TRUE
    /\ UNCHANGED <<records, lock, row, mine, pc, took, tries, late>>

Work(w) ==
    \/ LockRow(w) \/ Read(w) \/ Create(w) \/ Save(w) \/ Check(w)
    \/ Insert(w) \/ Effects(w) \/ Commit(w) \/ Deadlock(w)

Next ==
    \/ \E w \in Writers : Begin(w) \/ Work(w) \/ Fail(w)
    \/ \E n \in PageNumbers : SetNext(n)

Spec == Init /\ [][Next]_vars

\* A worker goes on with its transaction; PostgreSQL grants a row lock to each
\* of its waiters in turn, and ends a deadlock.
FairSpec ==
    /\ Spec
    /\ \A w \in Writers : WF_vars(Work(w)) /\ SF_vars(LockRow(w) \/ Effects(w))
                          /\ SF_vars(Create(w) \/ Save(w))

-----------------------------------------------------------------------------

Steps == {"idle", "refused", "row", "read", "create", "save", "check", "insert",
          "effects", "commit"}

TypeOK ==
    /\ next \in Nat
    /\ records \in SUBSET Nat
    /\ lock \in Writers \cup {Free}
    /\ row \in Writers \cup {Free}
    /\ mine \in Nat
    /\ pc \in [Writers -> Steps]
    /\ took \in [Writers -> Nat]
    /\ tries \in [Writers -> 0 .. MaxTries - 1]
    /\ late \in [Writers -> Nat]
    /\ byHand \in BOOLEAN

\* The numbers of the records are 1, 2, 3, ... up to the counter.
Gapless ==
    \/ next = NoRow /\ records = {}
    \/ next # NoRow /\ records = 1 .. next - 1

\* As long as nobody sets the counter by hand, whatever stale numbers are
\* written back, and whatever transactions fail or give up, no number is left
\* out and the counter never falls behind or runs ahead.
NoGaps == byHand \/ Gapless

\* A writer that has looked does not run into the unique column: between its
\* look and its commit no other transaction saves a record under its number,
\* wherever the configuration page has put the counter.
CheckedIsFresh ==
    \A w \in Checking : pc[w] \in {"insert", "effects", "commit"} => ~Taken(took[w])

\* As long as nobody sets the counter by hand, a writer gives up only if at least
\* MaxTries records were saved since it first read the counter: whatever stale
\* number it began with, the tries last for fewer others than there are tries.
GivesUpOnlyIfOutrun ==
    \A w \in Writers : pc[w] = "refused" /\ ~byHand => late[w] >= MaxTries

\* Every transaction comes to an end, those that wait for each other too.
EveryWriterIsAnswered ==
    \A w \in Writers : pc[w] \notin AtRest ~> pc[w] \in AtRest
=============================================================================
