-------------------------- MODULE AutoNumberProofs --------------------------
(***************************************************************************)
(* Proofs about AutoNumber, for any number of writers, tries and records.  *)
(*                                                                         *)
(* A writer that has saved the counter holds its row until it commits, so  *)
(* it is the only one that can add a record (Held).  Hence a number that   *)
(* was not taken when it looked is not taken when it commits (Fresh).      *)
(* If no two numbers are written alike, and until the counter is set by    *)
(* hand, every number read is at most the counter (Bounded), and the one   *)
(* that is committed is the counter itself (NoGaps).  And however far the  *)
(* counter has moved past the number a writer began with, as many records  *)
(* were saved since (Overtaken): the tries are used up by nothing else.    *)
(***************************************************************************)
EXTENDS AutoNumber, TLAPS

Saved == {"check", "insert", "effects", "commit"}

\* Who is past the save holds the row, and who holds it is past the save or
\* on the way to the next try.
Held ==
    \A w \in Writers :
        /\ pc[w] \in Saved => lock = w /\ mine = took[w] + 1
        /\ lock = w => pc[w] \in Saved \cup {"read", "save"} /\ mine # NoRow

Fresh ==
    \A w \in Writers :
        pc[w] \in {"effects", "commit"}
            \/ (pc[w] = "insert" /\ w \in Checking) => ~Taken(took[w])

SafeInv == TypeOK /\ Held /\ Fresh

-----------------------------------------------------------------------------

LEMMA SafeInit == Init => SafeInv
<1>1. Init => TypeOK
  <2> SUFFICES ASSUME Init PROVE TypeOK
    OBVIOUS
  <2>1. byHand \in BOOLEAN
    BY DEF Init
  <2> QED BY <2>1, AutoNumberAssumption DEF Init, TypeOK, Steps, NoRow
<1>2. Init => Held /\ Fresh
  BY AutoNumberAssumption DEF Init, Held, Fresh, Saved
<1> QED
  BY <1>1, <1>2 DEF SafeInv

LEMMA TypeNext == TypeOK /\ [Next]_vars => TypeOK'
<1> SUFFICES ASSUME TypeOK, [Next]_vars PROVE TypeOK'
  OBVIOUS
<1> USE AutoNumberAssumption DEF TypeOK, Steps, Goto, NoRow
<1>1. ASSUME NEW w \in Writers, Rollback(w) \/ GiveUp(w) PROVE TypeOK'
  <2>1. CASE Rollback(w)
    BY <2>1 DEF Rollback, Release, Forget
  <2>2. CASE GiveUp(w)
    BY <2>2 DEF GiveUp, Release, Forget
  <2> QED BY <1>1, <2>1, <2>2
<1>2. ASSUME NEW w \in Writers, Begin(w) PROVE TypeOK'
  BY <1>2 DEF Begin, AtRest
<1>3. ASSUME NEW w \in Writers, LockRow(w) \/ Effects(w) PROVE TypeOK'
  BY <1>3 DEF LockRow, Effects
<1>4. ASSUME NEW w \in Writers, Read(w) PROVE TypeOK'
  BY <1>4 DEF Read
<1>5. ASSUME NEW w \in Writers, Create(w) PROVE TypeOK'
  BY <1>5 DEF Create
<1>6. ASSUME NEW w \in Writers, Save(w) PROVE TypeOK'
  BY <1>6 DEF Save
<1>7. ASSUME NEW w \in Writers, Check(w) PROVE TypeOK'
  <2>1. CASE GiveUp(w)
    BY <2>1, <1>1
  <2>2. CASE /\ pc[w] = "check" /\ ~Taken(took[w]) /\ Goto(w, "insert")
             /\ UNCHANGED <<next, records, lock, row, mine, took, tries, late, byHand>>
    BY <2>2
  <2>3. CASE /\ pc[w] = "check" /\ tries[w] + 1 < MaxTries
             /\ tries' = [tries EXCEPT ![w] = @ + 1] /\ Goto(w, "read")
             /\ UNCHANGED <<next, records, lock, row, mine, took, late, byHand>>
    BY <2>3
  <2> QED BY <1>7, <2>1, <2>2, <2>3 DEF Check
<1>8. ASSUME NEW w \in Writers, Insert(w) PROVE TypeOK'
  <2>1. CASE Rollback(w)
    BY <2>1, <1>1
  <2>2. CASE ~Rollback(w)
    BY <1>8, <2>2 DEF Insert
  <2> QED BY <2>1, <2>2
<1>9. ASSUME NEW w \in Writers, Commit(w) PROVE TypeOK'
  <2>1. late' \in [Writers -> Nat]
    BY <1>9 DEF Commit
  <2>2. took' \in [Writers -> Nat] /\ tries' \in [Writers -> 0 .. MaxTries - 1]
    BY <1>9 DEF Commit, Forget
  <2>3. next' \in Nat /\ records' \in SUBSET Nat
    BY <1>9 DEF Commit
  <2>4. /\ lock' \in Writers \cup {Free} /\ row' \in Writers \cup {Free}
        /\ pc' \in [Writers -> Steps] /\ UNCHANGED <<mine, byHand>>
    BY <1>9 DEF Commit, Release
  <2> QED BY <2>1, <2>2, <2>3, <2>4
<1>10. ASSUME NEW n \in PageNumbers, SetNext(n) PROVE TypeOK'
  BY <1>10 DEF SetNext
<1>11. CASE UNCHANGED vars
  BY <1>11 DEF vars
<1> QED
  BY <1>1, <1>2, <1>3, <1>4, <1>5, <1>6, <1>7, <1>8, <1>9, <1>10, <1>11
     DEF Next, Work, Fail, Deadlock

LEMMA SafeNext == SafeInv /\ [Next]_vars => SafeInv'
<1> SUFFICES ASSUME SafeInv, [Next]_vars PROVE (Held /\ Fresh)'
  BY TypeNext DEF SafeInv
<1> USE AutoNumberAssumption
    DEF SafeInv, TypeOK, Held, Fresh, Saved, Steps, Goto, NoRow, Taken
<1>1. ASSUME NEW w \in Writers, Rollback(w) \/ GiveUp(w) PROVE (Held /\ Fresh)'
  <2>1. CASE Rollback(w)
    BY <2>1 DEF Rollback, Release, Forget
  <2>2. CASE GiveUp(w)
    BY <2>2 DEF GiveUp, Release, Forget
  <2> QED BY <1>1, <2>1, <2>2
<1>2. ASSUME NEW w \in Writers, Begin(w) PROVE (Held /\ Fresh)'
  BY <1>2 DEF Begin, AtRest
<1>3. ASSUME NEW w \in Writers, LockRow(w) \/ Effects(w) PROVE (Held /\ Fresh)'
  BY <1>3 DEF LockRow, Effects
<1>4. ASSUME NEW w \in Writers, Read(w) PROVE (Held /\ Fresh)'
  BY <1>4 DEF Read
<1>5. ASSUME NEW w \in Writers, Create(w) PROVE (Held /\ Fresh)'
  BY <1>5 DEF Create
<1>6. ASSUME NEW w \in Writers, Save(w) PROVE (Held /\ Fresh)'
  BY <1>6 DEF Save
<1>7. ASSUME NEW w \in Writers, Check(w) PROVE (Held /\ Fresh)'
  <2>1. CASE GiveUp(w)
    BY <2>1, <1>1
  <2>2. CASE /\ pc[w] = "check" /\ ~Taken(took[w]) /\ Goto(w, "insert")
             /\ UNCHANGED <<next, records, lock, row, mine, took, tries, late, byHand>>
    BY <2>2
  <2>3. CASE /\ pc[w] = "check" /\ tries[w] + 1 < MaxTries
             /\ tries' = [tries EXCEPT ![w] = @ + 1] /\ Goto(w, "read")
             /\ UNCHANGED <<next, records, lock, row, mine, took, late, byHand>>
    BY <2>3
  <2> QED BY <1>7, <2>1, <2>2, <2>3 DEF Check
<1>8. ASSUME NEW w \in Writers, Insert(w) PROVE (Held /\ Fresh)'
  <2>1. CASE Rollback(w)
    BY <2>1, <1>1
  <2>2. CASE ~Rollback(w)
    BY <1>8, <2>2 DEF Insert
  <2> QED BY <2>1, <2>2
<1>9. ASSUME NEW w \in Writers, Commit(w) PROVE (Held /\ Fresh)'
  BY <1>9 DEF Commit, Release, Forget
<1>10. ASSUME NEW n \in PageNumbers, SetNext(n) PROVE (Held /\ Fresh)'
  BY <1>10 DEF SetNext
<1>11. CASE UNCHANGED vars
  BY <1>11 DEF vars
<1> QED
  BY <1>1, <1>2, <1>3, <1>4, <1>5, <1>6, <1>7, <1>8, <1>9, <1>10, <1>11
     DEF Next, Work, Fail, Deadlock

LEMMA Safe == Spec => []SafeInv
  BY SafeInit, SafeNext, PTL DEF Spec

\* The counter, the records and what the writers hold keep their types; in
\* particular no writer ever tries more than MaxTries numbers.
THEOREM NumberingTypeCorrect == Spec => []TypeOK
<1>1. SafeInv => TypeOK
  BY DEF SafeInv
<1> QED
  BY <1>1, Safe, PTL

\* Whatever the writers and the configuration page do, a writer that has found
\* its number free can commit its record under it.
THEOREM CheckedNumbersAreFresh == Spec => []CheckedIsFresh
<1>1. SafeInv => CheckedIsFresh
  BY AutoNumberAssumption DEF SafeInv, Fresh, CheckedIsFresh
<1> QED
  BY <1>1, Safe, PTL

-----------------------------------------------------------------------------

\* No two numbers are written alike.
Distinct == \A i, j \in Nat : Ref(i) = Ref(j) => i = j

\* The counter as the next reader finds it.
Counter == IF next = NoRow THEN 1 ELSE next

\* No number that has been read is ahead of the counter.
Bounded ==
    \A w \in Writers :
        /\ pc[w] \in Saved \cup {"save"} => took[w] \in 1 .. Counter
        /\ lock = w /\ pc[w] = "read" => mine \in 1 .. next

SerialInv == SafeInv /\ (byHand \/ (Bounded /\ Gapless))

LEMMA SerialInit == Init => SerialInv
  BY SafeInit, AutoNumberAssumption
     DEF Init, SerialInv, Bounded, Gapless, Saved, NoRow

\* Below the counter, and only there, numbers are taken.
LEMMA TakenBelow ==
  ASSUME Distinct, TypeOK, Gapless, NEW n \in Nat, Taken(n)
  PROVE  n \in 1 .. next - 1
  BY DEF Distinct, TypeOK, Gapless, Taken

LEMMA NotTakenAbove ==
  ASSUME TypeOK, Gapless, NEW n \in 1 .. Counter, ~Taken(n)
  PROVE  n = Counter
  BY DEF TypeOK, Gapless, Taken, Counter, NoRow

LEMMA SerialNext ==
  ASSUME Distinct
  PROVE  SerialInv /\ [Next]_vars => SerialInv'
<1>11. ASSUME [Next]_vars, ~byHand' PROVE ~byHand
  BY <1>11 DEF Next, Work, Fail, Deadlock, Rollback, GiveUp, Begin, LockRow, Read, Create,
              Save,
              Check, Insert, Effects, Commit, SetNext, vars
<1> SUFFICES ASSUME SerialInv, [Next]_vars, ~byHand' PROVE (Bounded /\ Gapless)'
  BY SafeNext DEF SerialInv
<1>0. ASSUME NEW n \in PageNumbers, SetNext(n) PROVE FALSE
  BY <1>0 DEF SetNext
<1>12. ~byHand /\ Bounded /\ Gapless
  BY <1>11 DEF SerialInv
<1> USE AutoNumberAssumption
    DEF SerialInv, SafeInv, TypeOK, Held, Bounded, Gapless, Counter, Saved, Steps,
        Goto, NoRow
<1>1. ASSUME NEW w \in Writers, Rollback(w) \/ GiveUp(w) PROVE (Bounded /\ Gapless)'
  <2>1. CASE Rollback(w)
    BY <1>12, <2>1 DEF Rollback, Release, Forget
  <2>2. CASE GiveUp(w)
    BY <1>12, <2>2 DEF GiveUp, Release, Forget
  <2> QED BY <1>1, <2>1, <2>2
<1>2. ASSUME NEW w \in Writers, Begin(w) PROVE (Bounded /\ Gapless)'
  BY <1>12, <1>2 DEF Begin, AtRest
<1>3. ASSUME NEW w \in Writers, LockRow(w) \/ Effects(w) PROVE (Bounded /\ Gapless)'
  BY <1>12, <1>3 DEF LockRow, Effects
<1>4. ASSUME NEW w \in Writers, Read(w) PROVE (Bounded /\ Gapless)'
  BY <1>12, <1>4 DEF Read
<1>5. ASSUME NEW w \in Writers, Create(w) PROVE (Bounded /\ Gapless)'
  BY <1>12, <1>5 DEF Create
<1>6. ASSUME NEW w \in Writers, Save(w) PROVE (Bounded /\ Gapless)'
  BY <1>12, <1>6 DEF Save
<1>7. ASSUME NEW w \in Writers, Check(w) PROVE (Bounded /\ Gapless)'
  <2>1. CASE GiveUp(w)
    BY <2>1, <1>1
  <2>2. CASE /\ pc[w] = "check" /\ ~Taken(took[w]) /\ Goto(w, "insert")
             /\ UNCHANGED <<next, records, lock, row, mine, took, tries, late, byHand>>
    BY <2>2
  <2>3. CASE /\ pc[w] = "check" /\ Taken(took[w]) /\ Goto(w, "read")
             /\ UNCHANGED <<next, records, lock, row, mine, took, late, byHand>>
    <3>1. took[w] \in 1 .. next - 1
      BY <2>3, TakenBelow
    <3> QED BY <2>3, <3>1
  <2> QED BY <1>7, <2>1, <2>2, <2>3 DEF Check
<1>8. ASSUME NEW w \in Writers, Insert(w) PROVE (Bounded /\ Gapless)'
  <2>1. CASE Rollback(w)
    BY <2>1, <1>1
  <2>2. CASE ~Rollback(w)
    BY <1>12, <1>8, <2>2 DEF Insert
  <2> QED BY <2>1, <2>2
<1>9. ASSUME NEW w \in Writers, Commit(w) PROVE (Bounded /\ Gapless)'
  <2>0. /\ pc[w] = "commit" /\ lock = w /\ mine = took[w] + 1
        /\ took[w] \in 1 .. Counter
    BY <1>12, <1>9 DEF Commit
  <2>1. took[w] = Counter
    <3>1. ~Taken(took[w])
      BY <1>12, <2>0 DEF Fresh
    <3> QED BY <1>12, <2>0, <3>1, NotTakenAbove
  <2>2. next' = Counter + 1 /\ records' = 1 .. Counter
    <3>0. next' = mine /\ records' = records \cup {took[w]}
      BY <1>12, <1>9 DEF Commit
    <3>1. next' = Counter + 1 /\ records' = records \cup {Counter}
      BY <2>0, <2>1, <3>0
    <3>2. CASE next = NoRow
      <4>1. records' = {1} /\ Counter = 1
        BY <1>12, <3>1, <3>2
      <4>2. {1} = 1 .. 1
        OBVIOUS
      <4> QED BY <3>1, <4>1, <4>2
    <3>3. CASE next # NoRow
      <4>1. records' = (1 .. next - 1) \cup {next} /\ Counter = next
        BY <1>12, <3>1, <3>3
      <4>2. (1 .. next - 1) \cup {next} = 1 .. next
        BY <3>3
      <4> QED BY <3>1, <4>1, <4>2
    <3> QED BY <3>1, <3>2, <3>3
  <2> QED BY <1>9, <2>0, <2>1, <2>2 DEF Commit, Release, Forget
<1>10. CASE UNCHANGED vars
  BY <1>12, <1>10 DEF vars
<1> QED
  BY <1>1, <1>2, <1>3, <1>4, <1>5, <1>6, <1>7, <1>8, <1>9, <1>10, <1>0
     DEF Next, Work, Fail, Deadlock

\* If no two numbers are written alike the records are numbered 1, 2, 3, ...
\* without a gap, as long as the counter is left to the writers.
THEOREM RecordsAreNumberedWithoutGaps ==
  ASSUME Distinct
  PROVE  Spec => []NoGaps
<1>1. SerialInv => NoGaps
  BY DEF SerialInv, NoGaps
<1> QED
  BY <1>1, SerialInit, SerialNext, PTL DEF Spec

\* A writer that has not found a number taken starts from nothing.
Tried ==
    \A w \in Writers :
        \/ pc[w] \in AtRest \cup {"row", "create"}
        \/ pc[w] = "read" /\ lock # w
        => tries[w] = 0

\* The counter is past the number a writer began with, which is tries[w] below
\* the one it holds, by no more than the records saved since.
Overtaken ==
    \A w \in Writers :
        /\ pc[w] = "create" => Counter <= 1 + late[w]
        /\ pc[w] \in Saved \cup {"save"} => Counter <= took[w] - tries[w] + late[w]
        /\ pc[w] = "read" /\ lock = w => Counter <= mine - tries[w] + late[w]

RaceInv == SerialInv /\ Tried /\ (byHand \/ (Overtaken /\ GivesUpOnlyIfOutrun))

LEMMA RaceInit == Init => RaceInv
  BY SerialInit, AutoNumberAssumption
     DEF Init, RaceInv, Tried, Overtaken, GivesUpOnlyIfOutrun, AtRest, Saved, NoRow

LEMMA TriedNext == SafeInv /\ Tried /\ [Next]_vars => Tried'
<1> SUFFICES ASSUME SafeInv, Tried, [Next]_vars PROVE Tried'
  OBVIOUS
<1> USE AutoNumberAssumption
    DEF SafeInv, TypeOK, Held, Tried, AtRest, Saved, Steps, Goto, NoRow
<1>1. ASSUME NEW w \in Writers, Rollback(w) \/ GiveUp(w) PROVE Tried'
  <2>1. CASE Rollback(w)
    BY <2>1 DEF Rollback, Release, Forget
  <2>2. CASE GiveUp(w)
    BY <2>2 DEF GiveUp, Release, Forget
  <2> QED BY <1>1, <2>1, <2>2
<1>2. ASSUME NEW w \in Writers, Begin(w) PROVE Tried'
  BY <1>2 DEF Begin
<1>3. ASSUME NEW w \in Writers, LockRow(w) \/ Effects(w) PROVE Tried'
  BY <1>3 DEF LockRow, Effects
<1>4. ASSUME NEW w \in Writers, Read(w) PROVE Tried'
  BY <1>4 DEF Read
<1>5. ASSUME NEW w \in Writers, Create(w) PROVE Tried'
  BY <1>5 DEF Create
<1>6. ASSUME NEW w \in Writers, Save(w) PROVE Tried'
  BY <1>6 DEF Save
<1>7. ASSUME NEW w \in Writers, Check(w) PROVE Tried'
  <2>1. CASE GiveUp(w)
    BY <2>1, <1>1
  <2>2. CASE ~GiveUp(w)
    BY <1>7, <2>2 DEF Check
  <2> QED BY <2>1, <2>2
<1>8. ASSUME NEW w \in Writers, Insert(w) PROVE Tried'
  <2>1. CASE Rollback(w)
    BY <2>1, <1>1
  <2>2. CASE ~Rollback(w)
    BY <1>8, <2>2 DEF Insert
  <2> QED BY <2>1, <2>2
<1>9. ASSUME NEW w \in Writers, Commit(w) PROVE Tried'
  BY <1>9 DEF Commit, Release, Forget
<1>10. ASSUME NEW n \in PageNumbers, SetNext(n) PROVE Tried'
  BY <1>10 DEF SetNext
<1>11. CASE UNCHANGED vars
  BY <1>11 DEF vars
<1> QED
  BY <1>1, <1>2, <1>3, <1>4, <1>5, <1>6, <1>7, <1>8, <1>9, <1>10, <1>11
     DEF Next, Work, Fail, Deadlock

\* A commit moves the counter by one, for all who are still to save it.
LEMMA CommitCounts ==
  ASSUME SerialInv, ~byHand, NEW w \in Writers, Commit(w), Distinct
  PROVE  Counter' = Counter + 1
<1>1. /\ pc[w] = "commit" /\ lock = w /\ mine = took[w] + 1
      /\ took[w] \in 1 .. Counter /\ next' = mine
  BY DEF SerialInv, SafeInv, Held, Bounded, Saved, Commit
<1>2. ~Taken(took[w])
  BY <1>1 DEF SerialInv, SafeInv, Fresh
<1>3. took[w] = Counter
  BY <1>1, <1>2, NotTakenAbove DEF SerialInv, SafeInv
<1>4. Counter \in Nat \ {0}
  BY DEF Counter, NoRow, SerialInv, SafeInv, TypeOK
<1> QED BY <1>1, <1>3, <1>4 DEF Counter, NoRow

LEMMA RaceNext ==
  ASSUME Distinct
  PROVE  RaceInv /\ [Next]_vars => RaceInv'
<1>11. ASSUME [Next]_vars, ~byHand' PROVE ~byHand
  BY <1>11 DEF Next, Work, Fail, Deadlock, Rollback, GiveUp, Begin, LockRow, Read,
              Create, Save, Check, Insert, Effects, Commit, SetNext, vars
<1>14. SerialInv /\ Tried /\ [Next]_vars => SerialInv' /\ Tried'
  BY SerialNext, TriedNext DEF SerialInv
<1> SUFFICES ASSUME RaceInv, [Next]_vars, ~byHand'
             PROVE  (Overtaken /\ GivesUpOnlyIfOutrun)'
  BY <1>14 DEF RaceInv
<1>0. ASSUME NEW n \in PageNumbers, SetNext(n) PROVE FALSE
  BY <1>0 DEF SetNext
<1>12. /\ ~byHand /\ Overtaken /\ GivesUpOnlyIfOutrun /\ Tried
       /\ SafeInv /\ Bounded /\ Gapless
  BY <1>11 DEF RaceInv, SerialInv
<1>13. Counter \in Nat \ {0} /\ \A w \in Writers : late[w] \in Nat /\ tries[w] \in Nat
  BY <1>12, AutoNumberAssumption DEF Counter, NoRow, SafeInv, TypeOK
<1> USE AutoNumberAssumption
    DEF SafeInv, TypeOK, Held, Tried, Overtaken, GivesUpOnlyIfOutrun, AtRest, Saved,
        Steps, Goto, NoRow
<1>1. ASSUME NEW w \in Writers, Rollback(w) PROVE (Overtaken /\ GivesUpOnlyIfOutrun)'
  BY <1>12, <1>13, <1>1 DEF Rollback, Release, Forget, Counter
<1>2. ASSUME NEW w \in Writers, Begin(w) PROVE (Overtaken /\ GivesUpOnlyIfOutrun)'
  BY <1>12, <1>13, <1>2 DEF Begin, Counter
<1>3. ASSUME NEW w \in Writers, LockRow(w) \/ Effects(w)
      PROVE  (Overtaken /\ GivesUpOnlyIfOutrun)'
  BY <1>12, <1>13, <1>3 DEF LockRow, Effects, Counter
<1>4. ASSUME NEW w \in Writers, Read(w) PROVE (Overtaken /\ GivesUpOnlyIfOutrun)'
  BY <1>12, <1>13, <1>4 DEF Read, Counter
<1>5. ASSUME NEW w \in Writers, Create(w) PROVE (Overtaken /\ GivesUpOnlyIfOutrun)'
  BY <1>12, <1>13, <1>5 DEF Create, Counter
<1>6. ASSUME NEW w \in Writers, Save(w) PROVE (Overtaken /\ GivesUpOnlyIfOutrun)'
  BY <1>12, <1>13, <1>6 DEF Save, Counter
<1>7. ASSUME NEW w \in Writers, Check(w) PROVE (Overtaken /\ GivesUpOnlyIfOutrun)'
  <2>1. CASE /\ pc[w] = "check" /\ Taken(took[w]) /\ tries[w] + 1 >= MaxTries
             /\ GiveUp(w)
    <3>1. took[w] \in 1 .. next - 1
      BY <1>12, <2>1, TakenBelow
    <3>2. Counter <= took[w] - tries[w] + late[w] /\ Counter = next
      BY <1>12, <2>1, <3>1 DEF Counter
    <3>3. late[w] >= MaxTries
      BY <1>12, <1>13, <2>1, <3>1, <3>2
    <3> QED BY <1>12, <1>13, <2>1, <3>3 DEF GiveUp, Release, Forget, Counter
  <2>2. CASE /\ pc[w] = "check" /\ ~Taken(took[w]) /\ Goto(w, "insert")
             /\ UNCHANGED <<next, records, lock, row, mine, took, tries, late, byHand>>
    BY <1>12, <1>13, <2>2 DEF Counter
  <2>3. CASE /\ pc[w] = "check" /\ Goto(w, "read")
             /\ tries' = [tries EXCEPT ![w] = @ + 1]
             /\ UNCHANGED <<next, records, lock, row, mine, took, late, byHand>>
    BY <1>12, <1>13, <2>3 DEF Counter
  <2> QED BY <1>7, <2>1, <2>2, <2>3 DEF Check
<1>8. ASSUME NEW w \in Writers, Insert(w) PROVE (Overtaken /\ GivesUpOnlyIfOutrun)'
  <2>1. CASE Rollback(w)
    BY <2>1, <1>1
  <2>2. CASE ~Rollback(w)
    BY <1>12, <1>13, <1>8, <2>2 DEF Insert, Counter
  <2> QED BY <2>1, <2>2
<1>9. ASSUME NEW w \in Writers, Commit(w) PROVE (Overtaken /\ GivesUpOnlyIfOutrun)'
  <2>1. Counter' = Counter + 1
    BY <1>9, <1>12, CommitCounts DEF RaceInv
  <2>2. lock = w /\ lock' = Free
    BY <1>9, <1>12 DEF Commit, Release
  <2>3. ASSUME NEW x \in Writers \ {w}
        PROVE  /\ pc'[x] = pc[x] /\ took'[x] = took[x] /\ tries'[x] = tries[x]
               /\ pc[x] \notin Saved /\ late'[x] \in {late[x], late[x] + 1}
               /\ pc[x] \in {"create", "save"} => late'[x] = late[x] + 1
    BY <1>9, <1>12, <1>13, <2>2 DEF Commit, Forget, HasRead, Bounded
  <2>4. pc'[w] = "idle"
    BY <1>9, <1>12 DEF Commit
  <2> HIDE DEF SafeInv, TypeOK, Held, Tried, Goto, Steps
  <2>5. Overtaken'
    <3> SUFFICES ASSUME NEW x \in Writers
                 PROVE  /\ pc'[x] = "create" => Counter' <= 1 + late'[x]
                        /\ pc'[x] \in Saved \cup {"save"} =>
                              Counter' <= took'[x] - tries'[x] + late'[x]
                        /\ pc'[x] = "read" /\ lock' = x =>
                              Counter' <= mine' - tries'[x] + late'[x]
      BY DEF Overtaken
    <3>1. CASE x = w
      BY <2>2, <2>4, <3>1
    <3>2. CASE x # w
      <4>1. took[x] \in Nat
        BY <1>12 DEF SafeInv, TypeOK
      <4> QED BY <1>12, <1>13, <2>1, <2>2, <2>3, <3>2, <4>1
    <3> QED BY <3>1, <3>2
  <2>6. GivesUpOnlyIfOutrun'
    <3> SUFFICES ASSUME NEW x \in Writers, pc'[x] = "refused", ~byHand'
                 PROVE  late'[x] >= MaxTries
      BY DEF GivesUpOnlyIfOutrun
    <3>1. x # w
      BY <2>4
    <3> QED BY <1>12, <1>13, <2>3, <3>1
  <2> QED BY <2>5, <2>6
<1>10. CASE UNCHANGED vars
  BY <1>12, <1>13, <1>10 DEF vars, Counter
<1> QED
  BY <1>1, <1>2, <1>3, <1>4, <1>5, <1>6, <1>7, <1>8, <1>9, <1>10, <1>0
     DEF Next, Work, Fail, Deadlock

\* Under the same conditions a writer runs out of tries only if as many records
\* as it has tries were saved since it first read the counter.
THEOREM OnlyTheOutrunGiveUp ==
  ASSUME Distinct
  PROVE  Spec => []GivesUpOnlyIfOutrun
<1>1. RaceInv => GivesUpOnlyIfOutrun
  BY DEF RaceInv, GivesUpOnlyIfOutrun
<1> QED
  BY <1>1, RaceInit, RaceNext, PTL DEF Spec
=============================================================================
