------------------------ MODULE ExecuteActionProofs ------------------------
(***************************************************************************)
(* Theorems about ExecuteAction, for any number of movements, workers,     *)
(* portal workers, keys and requests: types, locks, and what answers say.  *)
(***************************************************************************)
EXTENDS ExecuteAction, TLAPS

USE DEF Milestones, Cancel, Actions, Statuses, NoStatus

-----------------------------------------------------------------------------
(***************************************************************************)
(* The policy's operators                                                  *)
(***************************************************************************)

LEMMA CatalogFacts ==
    /\ Catalog \subseteq Milestones
    /\ {"start", "transit", "complete"} \subseteq Catalog
    /\ DriverActions \subseteq Actions
    /\ AdminActions \subseteq Actions
BY CatalogAssumption, ExecuteAssumption

LEMMA OrderValues ==
    /\ Order["start"] = 1 /\ Order["transit"] = 2
    /\ Order["arrived"] = 3 /\ Order["complete"] = 4
BY DEF Order

LEMMA RankValues ==
    /\ Rank["Scheduled"] = 10 /\ Rank["InProgress"] = 20
    /\ Rank["Completed"] = 70 /\ Rank["Cancelled"] = 99
BY DEF Rank

LEMMA ImpactValues ==
    /\ Impact["start"] = "InProgress" /\ Impact["complete"] = "Completed"
    /\ Impact["cancel"] = "Cancelled"
    /\ Impact["transit"] = NoStatus /\ Impact["arrived"] = NoStatus
BY DEF Impact

LEMMA FlagsType == ASSUME NEW done PROVE Flags(done) \subseteq Milestones
BY DEF Flags

\* Among some milestones one is the furthest.
LEMMA StageType ==
    ASSUME NEW flags \in SUBSET Milestones
    PROVE  StageOfFlags(flags) \in IF flags = {} THEN {"created"} ELSE flags
<1>1. CASE flags = {}
  BY <1>1 DEF StageOfFlags
<1>2. CASE flags # {}
  <2>1. \E a \in flags : \A b \in flags : Order[b] <= Order[a]
    <3>1. CASE "complete" \in flags BY <3>1, OrderValues
    <3>2. CASE "complete" \notin flags /\ "arrived" \in flags
      BY <3>2, OrderValues
    <3>3. CASE /\ "complete" \notin flags /\ "arrived" \notin flags
               /\ "transit" \in flags
      BY <3>3, OrderValues
    <3>4. CASE flags = {"start"} BY <3>4, OrderValues
    <3> QED BY <1>2, <3>1, <3>2, <3>3, <3>4
  <2>2. (CHOOSE a \in flags : \A b \in flags : Order[b] <= Order[a]) \in flags
    BY <2>1
  <2> QED BY <1>2, <2>2 DEF StageOfFlags
<1> QED BY <1>1, <1>2

\* Among some impacts one is of the highest rank.
LEMMA HighestImpact ==
    ASSUME NEW hit \in SUBSET {"InProgress", "Completed", "Cancelled"},
           hit # {}
    PROVE  \E s \in hit : \A t \in hit : Rank[t] <= Rank[s]
<1>1. /\ Rank["InProgress"] <= Rank["Completed"]
      /\ Rank["Completed"] <= Rank["Cancelled"]
      /\ Rank["InProgress"] <= Rank["Cancelled"]
      /\ \A s \in Statuses : Rank[s] <= Rank[s]
  BY RankValues
<1>2. \A t \in hit : t = "InProgress" \/ t = "Completed" \/ t = "Cancelled"
  OBVIOUS
<1>3. CASE "Cancelled" \in hit
  <2>1. \A t \in hit : Rank[t] <= Rank["Cancelled"]
    BY <1>1, <1>2
  <2> QED BY <1>3, <2>1
<1>4. CASE "Cancelled" \notin hit /\ "Completed" \in hit
  <2>1. \A t \in hit : Rank[t] <= Rank["Completed"]
    BY <1>1, <1>2, <1>4
  <2> QED BY <1>4, <2>1
<1>5. CASE "Cancelled" \notin hit /\ "Completed" \notin hit
  <2>1. \A t \in hit : t = "InProgress"
    BY <1>2, <1>5
  <2>2. "InProgress" \in hit /\ \A t \in hit : Rank[t] <= Rank["InProgress"]
    BY <1>1, <2>1
  <2> QED BY <2>2
<1> QED BY <1>3, <1>4, <1>5

LEMMA PeakType ==
    ASSUME NEW done \in SUBSET Actions
    PROVE  PeakImpact(done) \in Statuses \cup {NoStatus}
<1> DEFINE hit == {Impact[a] : a \in done} \ {NoStatus}
<1>1. hit \in SUBSET {"InProgress", "Completed", "Cancelled"}
  BY ImpactValues
<1>2. CASE hit = {}
  BY <1>2 DEF PeakImpact
<1>3. CASE hit # {}
  <2>1. \E s \in hit : \A t \in hit : Rank[t] <= Rank[s]
    <3> HIDE DEF hit
    <3> QED BY <1>1, <1>3, HighestImpact
  <2>2. (CHOOSE s \in hit : \A t \in hit : Rank[t] <= Rank[s]) \in hit
    BY <2>1
  <2>3. PeakImpact(done) \in hit
    BY <1>3, <2>2 DEF PeakImpact
  <2> QED BY <1>1, <2>3
<1> QED BY <1>2, <1>3

LEMMA ViewType ==
    ASSUME NEW c \in Statuses, NEW done \in SUBSET Actions
    PROVE  View(c, done) \in Views
<1> DEFINE auth == Authoritative(c, done)
<1>1. auth \in Statuses
  BY PeakType DEF Authoritative
<1>2. Drift(c, done) \in BOOLEAN
  BY DEF Drift
<1>3. Stage(auth, done) \in Stages
  BY FlagsType, StageType DEF Stage, Stages
<1> QED
  BY <1>1, <1>2, <1>3 DEF View, Views

-----------------------------------------------------------------------------
(***************************************************************************)
(* Types                                                                   *)
(***************************************************************************)

\* What a worker holds at each point of its pipeline.
Holds ==
    \A w \in Workers :
        /\ pc[w] # "idle" => req[w] \in Requests
        /\ pc[w] = "reconcile" => seen[w] \in Statuses
        /\ pc[w] \in {"detect", "validate", "lock", "kernel", "commit"} =>
              snap[w] \in Views

TypeInv == TypeOK /\ Holds

LEMMA DoneType ==
    ASSUME TypeOK, NEW mv PROVE Done(mv) \in SUBSET Actions
BY DEF TypeOK, Done

LEMMA TypeInit == Init => TypeInv
BY DEF Init, TypeInv, TypeOK, Holds

LEMMA AnswerType ==
    ASSUME TypeOK, NEW w \in Workers, NEW outcome \in Outcomes,
           NEW no \in Nat \cup {Nothing}, Answer(w, outcome, no)
    PROVE  /\ pc' = [pc EXCEPT ![w] = "answer"]
           /\ pc' \in [Workers -> {"idle", "reconcile", "detect", "validate",
                                   "lock", "kernel", "commit", "answer"}]
           /\ out' \in [Workers -> Outcomes \cup {Nothing}]
           /\ named' \in [Workers -> Nat \cup {Nothing}]
           /\ lock' \in [Movements -> Workers \cup {Nobody}]
BY DEF Answer, TypeOK

\* How an action changes what the worker holds, when it only proceeds.
LEMMA TypeNext == TypeInv /\ [Next]_vars => TypeInv'
<1> SUFFICES ASSUME TypeInv, [Next]_vars PROVE TypeInv'
  OBVIOUS
<1> USE DEF TypeInv
<1>1. ASSUME NEW m \in Movements, NEW a \in DriverActions, NEW k \in Keys,
             Compose(m, a, k)
      PROVE  TypeInv'
  <2> DEFINE version == Version(View(status[m], Done(m)))
  <2>1. version \in Versions
    BY DoneType, ViewType DEF TypeOK, Version, Versions, Views
  <2>2. [mv |-> m, act |-> a, key |-> k, version |-> version] \in Requests
    BY <2>1 DEF Requests
  <2>3. sent' \in SUBSET Requests
    BY <1>1, <2>2 DEF Compose, TypeOK
  <2> QED
    BY <1>1, <2>3 DEF Compose, TypeOK, Holds, database, local
<1>2. ASSUME NEW r \in sent, Forget(r) PROVE TypeInv'
  BY <1>2 DEF Forget, TypeOK, Holds, database, local
<1>3. ASSUME NEW w \in Workers, NEW r \in sent, Receive(w, r) PROVE TypeInv'
  <2>1. r \in Requests /\ status[r.mv] \in Statuses
    BY DEF TypeOK, Requests
  <2>2. CASE Answer(w, "job_inactive", Nothing) /\ UNCHANGED seen
    BY <1>3, <2>1, <2>2, AnswerType
       DEF Receive, TypeOK, Holds, database, Outcomes, Refusals
  <2>3. CASE /\ seen' = [seen EXCEPT ![w] = status[r.mv]]
             /\ Proceed(w, "reconcile")
             /\ UNCHANGED lock
    BY <1>3, <2>1, <2>3 DEF Receive, Proceed, TypeOK, Holds, database
  <2> QED BY <1>3, <2>2, <2>3 DEF Receive
<1>4. ASSUME NEW w \in Workers, Reconcile(w) PROVE TypeInv'
  <2>1. View(seen[w], Done(req[w].mv)) \in Views
    BY <1>4, DoneType, ViewType DEF Reconcile, Holds
  <2> QED
    BY <1>4, <2>1 DEF Reconcile, Proceed, TypeOK, Holds, database
<1>5. ASSUME NEW w \in Workers, NEW refusal \in Refusals, Refuse(w, refusal),
             pc[w] # "idle"
      PROVE  TypeInv'
  BY <1>5, AnswerType DEF Refuse, TypeOK, Holds, database, Outcomes
<1>6. ASSUME NEW w \in Workers, NEW l \in logs, Answer(w, "replayed", l.no),
             UNCHANGED <<database, sent, req, seen, snap, entry>>, pc[w] # "idle"
      PROVE  TypeInv'
  <2>1. l.no \in Nat
    BY DEF TypeOK
  <2> QED
    BY <1>6, <2>1, AnswerType DEF TypeOK, Holds, database, Outcomes
<1>7. ASSUME NEW w \in Workers, NEW step \in {"validate", "lock", "kernel", "commit"},
             Proceed(w, step),
             pc[w] \in {"detect", "validate", "lock", "kernel", "commit"},
             lock' \in [Movements -> Workers \cup {Nobody}],
             UNCHANGED <<database, sent, req, seen, snap, entry>>
      PROVE  TypeInv'
  BY <1>7 DEF Proceed, TypeOK, Holds, database
<1>8. ASSUME NEW w \in Workers, Detect(w) PROVE TypeInv'
  <2>1. lock' = lock => lock' \in [Movements -> Workers \cup {Nobody}]
    BY DEF TypeOK
  <2> QED
    BY <1>5, <1>6, <1>7, <1>8, <2>1 DEF Detect, Refusals, Replay
<1>9. ASSUME NEW w \in Workers, Validate(w) PROVE TypeInv'
  <2>1. lock' = lock => lock' \in [Movements -> Workers \cup {Nobody}]
    BY DEF TypeOK
  <2> QED
    BY <1>5, <1>7, <1>9, <2>1 DEF Validate, Refusals
<1>10. ASSUME NEW w \in Workers, Lock(w) PROVE TypeInv'
  <2>1. lock' \in [Movements -> Workers \cup {Nobody}]
    BY <1>10 DEF Lock, TypeOK
  <2> QED
    BY <1>7, <1>10, <2>1 DEF Lock
<1>11. ASSUME NEW w \in Workers, Kernel(w) PROVE TypeInv'
  <2>1. lock' = lock => lock' \in [Movements -> Workers \cup {Nobody}]
    BY DEF TypeOK
  <2> QED
    BY <1>5, <1>6, <1>7, <1>11, <2>1 DEF Kernel, Refusals, Replay
<1>12. ASSUME NEW w \in Workers, Commit(w) PROVE TypeInv'
  <2> DEFINE r == req[w]
  <2>1. r \in Requests /\ snap[w] \in Views /\ r.act \in Actions
    BY <1>12, CatalogFacts DEF Commit, Holds, Requests
  <2>2. CASE /\ logs' = logs \cup {Log(nextNo, r.mv, r.act, r.key)}
             /\ nextNo' = nextNo + 1
             /\ status' = [status EXCEPT ![r.mv] =
                              ColumnAfter(r.act, snap[w].status, @)]
             /\ Answer(w, "executed", nextNo)
             /\ UNCHANGED <<sent, req, seen, snap, entry>>
    <3>1. ColumnAfter(r.act, snap[w].status, status[r.mv]) \in Statuses
      BY <2>1, ImpactValues DEF ColumnAfter, TypeOK, Requests
    <3>2. Log(nextNo, r.mv, r.act, r.key) \in
             [no : Nat, mv : Movements, act : Actions, key : Keys \cup FormKeys]
      BY <2>1 DEF Log, TypeOK, Requests
    <3>3. nextNo \in Nat /\ "executed" \in Outcomes
      BY DEF TypeOK, Outcomes
    <3>4. /\ pc' = [pc EXCEPT ![w] = "answer"]
          /\ out' \in [Workers -> Outcomes \cup {Nothing}]
          /\ named' \in [Workers -> Nat \cup {Nothing}]
          /\ lock' \in [Movements -> Workers \cup {Nobody}]
      BY <2>2, <3>3, AnswerType
    <3>5. /\ pc' \in [Workers -> {"idle", "reconcile", "detect", "validate",
                                  "lock", "kernel", "commit", "answer"}]
          /\ nextNo' \in Nat
      <4>1. pc' \in [Workers -> {"idle", "reconcile", "detect", "validate",
                                 "lock", "kernel", "commit", "answer"}]
        BY <3>4 DEF TypeOK
      <4>2. nextNo' \in Nat
        BY <2>2, <3>3
      <4> QED BY <4>1, <4>2
    <3>9. status' \in [Movements -> Statuses]
      BY <2>2, <3>1 DEF TypeOK
    <3>6. logs' \in SUBSET [no : Nat, mv : Movements, act : Actions,
                            key : Keys \cup FormKeys]
      BY <2>2, <3>2 DEF TypeOK
    <3>7. TypeOK'
      BY <2>2, <3>4, <3>5, <3>6, <3>9 DEF TypeOK
    <3>8. Holds'
      BY <2>1, <2>2, <3>4 DEF Holds, TypeOK
    <3> QED BY <3>7, <3>8
  <2> QED
    BY <1>5, <1>6, <1>12, <2>2 DEF Commit, Refusals, Replay
<1>13. ASSUME NEW w \in Workers, Respond(w) PROVE TypeInv'
  BY <1>13 DEF Respond, TypeOK, Holds, database
<1>14. ASSUME NEW w \in Workers, Crash(w) PROVE TypeInv'
  BY <1>14 DEF Crash, TypeOK, Holds, database
<1>15. ASSUME NEW p \in Portals, NEW m \in Movements, NEW a \in AdminActions,
              NEW k \in FormKeys, PortalCheck(p, m, a, k)
       PROVE  TypeInv'
  BY <1>15 DEF PortalCheck, TypeOK, Holds, Entries, database, local
<1>16. ASSUME NEW p \in Portals, PortalReuse(p) PROVE TypeInv'
  <2>1. PICK l \in logs : entry' = [entry EXCEPT ![p].named = l.no]
    BY <1>16 DEF PortalReuse
  <2>2. l.no \in Nat /\ entry[p] \in Entries
    BY <1>16 DEF PortalReuse, TypeOK
  <2>3. entry' \in [Portals -> Entries \cup {Nothing}]
    BY <2>1, <2>2 DEF TypeOK, Entries
  <2> QED
    BY <1>16, <2>3 DEF PortalReuse, TypeOK, Holds, database, local
<1>17. ASSUME NEW p \in Portals, PortalSave(p) PROVE TypeInv'
  <2> DEFINE e == entry[p]
  <2>1. e \in Entries /\ e.act \in Actions
    BY <1>17, CatalogFacts DEF PortalSave, TypeOK, Entries
  <2>2. Log(nextNo, e.mv, e.act, e.key) \in
           [no : Nat, mv : Movements, act : Actions, key : Keys \cup FormKeys]
    BY <2>1 DEF Log, TypeOK, Entries
  <2>3. Impact[e.act] \in Statuses \cup {NoStatus}
    BY <2>1, ImpactValues
  <2>4. status' \in [Movements -> Statuses]
    BY <1>17, <2>1, <2>3 DEF PortalSave, TypeOK, Entries
  <2>5. entry' \in [Portals -> Entries \cup {Nothing}]
    BY <1>17, <2>1 DEF PortalSave, TypeOK, Entries
  <2>6. nextNo' \in Nat
    BY <1>17 DEF PortalSave, TypeOK
  <2>7. logs' \in SUBSET [no : Nat, mv : Movements, act : Actions,
                          key : Keys \cup FormKeys]
    BY <1>17, <2>2 DEF PortalSave, TypeOK
  <2> QED
    BY <1>17, <2>4, <2>5, <2>6, <2>7 DEF PortalSave, TypeOK, Holds, local
<1>18. ASSUME NEW p \in Portals, PortalRespond(p) PROVE TypeInv'
  BY <1>18 DEF PortalRespond, TypeOK, Holds, database, local
<1>19. ASSUME NEW m \in Movements, NEW s \in EditStatuses, PortalEdit(m, s)
       PROVE  TypeInv'
  BY <1>19, ExecuteAssumption DEF PortalEdit, TypeOK, Holds, local
<1>20. CASE UNCHANGED vars
  BY <1>20 DEF vars, TypeOK, Holds
<1> QED
  BY <1>1, <1>2, <1>3, <1>4, <1>8, <1>9, <1>10, <1>11, <1>12, <1>13, <1>14,
     <1>15, <1>16, <1>17, <1>18, <1>19, <1>20 DEF Next, Work

\* The rows, the locks and everything the workers hold keep their types.
THEOREM TypeCorrect == Spec => []TypeOK
<1>1. TypeInv => TypeOK
  BY DEF TypeInv
<1> QED
  BY <1>1, TypeInit, TypeNext, PTL DEF Spec

USE DEF TypeInv

-----------------------------------------------------------------------------
(***************************************************************************)
(* Locks                                                                   *)
(***************************************************************************)

Locks == TypeInv /\ LockIsHeldInTransaction

LEMMA LocksInit == Init => Locks
BY TypeInit, ExecuteAssumption DEF Init, Locks, LockIsHeldInTransaction

\* An answer gives up all the locks of the worker, and only these.
LEMMA AnswerReleases ==
    ASSUME Locks, NEW w \in Workers, NEW outcome, NEW no, Answer(w, outcome, no),
           req' = req
    PROVE  LockIsHeldInTransaction'
BY ExecuteAssumption DEF Answer, Locks, LockIsHeldInTransaction, TypeOK

LEMMA LocksNext == Locks /\ [Next]_vars => Locks'
<1> SUFFICES ASSUME Locks, [Next]_vars PROVE LockIsHeldInTransaction'
  BY TypeNext DEF Locks
<1> USE DEF Locks
<1>1. ASSUME UNCHANGED <<lock, pc, req>> PROVE LockIsHeldInTransaction'
  BY <1>1 DEF LockIsHeldInTransaction
<1>2. ASSUME NEW w \in Workers, NEW step \in {"reconcile", "detect", "validate", "lock"},
             Proceed(w, step), pc[w] \notin {"kernel", "commit"}, lock' = lock, 
             \A v \in Workers \ {w} : req'[v] = req[v]
      PROVE  LockIsHeldInTransaction'
  BY <1>2 DEF Proceed, LockIsHeldInTransaction, TypeOK
<1>3. ASSUME NEW w \in Workers, NEW r \in sent, Receive(w, r)
      PROVE  LockIsHeldInTransaction'
  BY <1>3, ExecuteAssumption DEF Receive, Answer, Proceed, LockIsHeldInTransaction, TypeOK
<1>4. ASSUME NEW w \in Workers, Reconcile(w) PROVE LockIsHeldInTransaction'
  BY <1>2, <1>4 DEF Reconcile
<1>5. ASSUME NEW w \in Workers, Detect(w) PROVE LockIsHeldInTransaction'
  BY <1>2, <1>5, AnswerReleases DEF Detect, Refuse
<1>6. ASSUME NEW w \in Workers, Validate(w) PROVE LockIsHeldInTransaction'
  BY <1>2, <1>6, AnswerReleases DEF Validate, Refuse
<1>7. ASSUME NEW w \in Workers, Lock(w) PROVE LockIsHeldInTransaction'
  <2>1. req[w] \in Requests /\ req[w].mv \in Movements
    BY <1>7 DEF Lock, Holds, Requests
  <2> QED
    BY <1>7, <2>1, ExecuteAssumption DEF Lock, Proceed, LockIsHeldInTransaction, TypeOK
<1>8. ASSUME NEW w \in Workers, Kernel(w) PROVE LockIsHeldInTransaction'
  <2>1. CASE Proceed(w, "commit") /\ lock' = lock /\ req' = req
    BY <1>8, <2>1 DEF Kernel, Proceed, LockIsHeldInTransaction, TypeOK
  <2> QED
    BY <1>8, <2>1, AnswerReleases DEF Kernel, Refuse
<1>9. ASSUME NEW w \in Workers, Commit(w) PROVE LockIsHeldInTransaction'
  BY <1>9, AnswerReleases DEF Commit, Refuse
<1>10. ASSUME NEW w \in Workers, Respond(w) PROVE LockIsHeldInTransaction'
  BY <1>10 DEF Respond, LockIsHeldInTransaction, TypeOK
<1>11. ASSUME NEW w \in Workers, Crash(w) PROVE LockIsHeldInTransaction'
  BY <1>11, ExecuteAssumption DEF Crash, LockIsHeldInTransaction, TypeOK
<1>12. ASSUME NEW p \in Portals, PortalSave(p) PROVE LockIsHeldInTransaction'
  BY <1>1, <1>12 DEF PortalSave, local
<1> QED
  BY <1>1, <1>3, <1>4, <1>5, <1>6, <1>7, <1>8, <1>9, <1>10, <1>11, <1>12
     DEF Next, Work, Compose, Forget, PortalCheck, PortalReuse, PortalRespond,
         PortalEdit, local, vars

\* A row lock is held exactly by a worker that is between its lock and the end
\* of its transaction: none is left behind, and none is shared.
THEOREM LocksEndWithTheirTransactions == Spec => []LockIsHeldInTransaction
<1>1. Locks => LockIsHeldInTransaction
  BY DEF Locks
<1> QED
  BY <1>1, LocksInit, LocksNext, PTL DEF Spec

-----------------------------------------------------------------------------
(***************************************************************************)
(* Answers                                                                 *)
(***************************************************************************)

Successes == {"executed", "replayed"}

\* A worker whose answer is a success is about to give it, and names a log of
\* its request's movement and key.
Backed(w) ==
    out[w] \in Successes =>
        pc[w] = "answer" /\ \E l \in Replay(req[w]) : l.no = named[w]

Answers == TypeInv /\ \A w \in Workers : Backed(w)

LEMMA AnswersInit == Init => Answers
<1>1. Nothing \notin Successes
  BY ExecuteAssumption DEF Successes
<1>2. ASSUME Init, NEW w \in Workers PROVE out[w] = Nothing
  BY <1>2 DEF Init
<1> QED BY TypeInit, <1>1, <1>2 DEF Answers, Backed

\* Logs are never removed, so that an answer stays backed while it is given.
LEMMA BackedStays ==
    ASSUME NEW w \in Workers, Backed(w), logs \subseteq logs', req'[w] = req[w],
           pc'[w] = pc[w], out'[w] = out[w], named'[w] = named[w]
    PROVE  Backed(w)'
BY DEF Backed, Replay

\* A worker that answers is backed if its success names a log of its request.
LEMMA AnswerBacked ==
    ASSUME Answers, NEW w \in Workers, NEW outcome, NEW no, Answer(w, outcome, no),
           req' = req, logs \subseteq logs',
           outcome \in Successes => \E l \in Replay(req[w])' : l.no = no
    PROVE  \A v \in Workers : Backed(v)'
<1>1. Backed(w)'
  BY DEF Answer, Backed, Answers, TypeOK, Replay
<1>2. ASSUME NEW v \in Workers, v # w PROVE Backed(v)'
  BY <1>2, BackedStays DEF Answer, Answers, TypeOK
<1> QED BY <1>1, <1>2

LEMMA LogsGrow == [Next]_vars => logs \subseteq logs'
BY DEF Next, Work, Compose, Forget, Receive, Reconcile, Detect, Validate, Lock,
       Kernel, Commit, Respond, Crash, PortalCheck, PortalReuse, PortalSave,
       PortalRespond, PortalEdit, Refuse, Proceed, database, local, vars

LEMMA AnswersNext == Answers /\ [Next]_vars => Answers'
<1> SUFFICES ASSUME Answers, [Next]_vars PROVE \A v \in Workers : Backed(v)'
  BY TypeNext DEF Answers
<1>0. logs \subseteq logs' /\ (\A v \in Workers : Backed(v)) /\ TypeOK
  BY LogsGrow DEF Answers
<1>1. ASSUME UNCHANGED <<req, pc, out, named>> PROVE \A v \in Workers : Backed(v)'
  BY <1>0, <1>1, BackedStays
<1>2. ASSUME NEW w \in Workers, pc[w] # "answer", out'[w] = out[w],
             \A v \in Workers \ {w} :
                 /\ req'[v] = req[v] /\ pc'[v] = pc[v]
                 /\ out'[v] = out[v] /\ named'[v] = named[v]
      PROVE  \A v \in Workers : Backed(v)'
  <2>1. out[w] \notin Successes
    BY <1>0, <1>2 DEF Backed
  <2> QED BY <1>0, <1>2, <2>1, BackedStays DEF Backed
<1>3. ASSUME NEW w \in Workers, NEW refusal \in Refusals, Refuse(w, refusal)
      PROVE  \A v \in Workers : Backed(v)'
  BY <1>0, <1>3, AnswerBacked DEF Refuse, Refusals, Successes
<1>4. ASSUME NEW w \in Workers, NEW l \in Replay(req[w]), Answer(w, "replayed", l.no),
             UNCHANGED <<logs, req>>
      PROVE  \A v \in Workers : Backed(v)'
  <2>1. Replay(req[w])' = Replay(req[w])
    BY <1>4 DEF Replay
  <2> QED BY <1>4, <2>1, AnswerBacked
<1>5. ASSUME NEW w \in Workers, NEW step, Proceed(w, step), pc[w] # "answer",
             \A v \in Workers \ {w} : req'[v] = req[v]
      PROVE  \A v \in Workers : Backed(v)'
  BY <1>0, <1>2, <1>5 DEF Proceed, TypeOK
<1>6. ASSUME NEW w \in Workers, NEW r \in sent, Receive(w, r)
      PROVE  \A v \in Workers : Backed(v)'
  <2>1. CASE Answer(w, "job_inactive", Nothing)
    <3>1. Backed(w)'
      BY <1>0, <2>1 DEF Answer, Backed, Successes, TypeOK
    <3>2. ASSUME NEW v \in Workers, v # w PROVE Backed(v)'
      BY <1>0, <1>6, <2>1, <3>2, BackedStays DEF Receive, Answer, TypeOK
    <3> QED BY <3>1, <3>2
  <2>2. CASE Proceed(w, "reconcile")
    BY <1>0, <1>5, <1>6, <2>2 DEF Receive, TypeOK
  <2> QED BY <1>6, <2>1, <2>2 DEF Receive
<1>7. ASSUME NEW w \in Workers, Reconcile(w) PROVE \A v \in Workers : Backed(v)'
  BY <1>5, <1>7 DEF Reconcile
<1>8. ASSUME NEW w \in Workers, Detect(w) PROVE \A v \in Workers : Backed(v)'
  BY <1>3, <1>4, <1>5, <1>8 DEF Detect, Refusals, database
<1>9. ASSUME NEW w \in Workers, Validate(w) PROVE \A v \in Workers : Backed(v)'
  BY <1>3, <1>5, <1>9 DEF Validate, Refusals
<1>10. ASSUME NEW w \in Workers, Lock(w) PROVE \A v \in Workers : Backed(v)'
  BY <1>5, <1>10 DEF Lock
<1>11. ASSUME NEW w \in Workers, Kernel(w) PROVE \A v \in Workers : Backed(v)'
  BY <1>3, <1>4, <1>5, <1>11 DEF Kernel, Refusals, database
<1>12. ASSUME NEW w \in Workers, Commit(w) PROVE \A v \in Workers : Backed(v)'
  <2>1. ASSUME /\ logs' = logs \cup {Log(nextNo, req[w].mv, req[w].act, req[w].key)}
               /\ Answer(w, "executed", nextNo)
               /\ req' = req
        PROVE  \A v \in Workers : Backed(v)'
    <3>1. Log(nextNo, req[w].mv, req[w].act, req[w].key) \in Replay(req[w])'
      BY <2>1 DEF Replay, Log
    <3> QED BY <1>0, <2>1, <3>1, AnswerBacked DEF Log
  <2> QED BY <1>3, <1>4, <1>12, <2>1 DEF Commit, Refusals, database
<1>13. ASSUME NEW w \in Workers, Respond(w) PROVE \A v \in Workers : Backed(v)'
  <2>1. Backed(w)'
    BY <1>0, <1>13, ExecuteAssumption DEF Respond, Backed, Successes, TypeOK
  <2>2. ASSUME NEW v \in Workers, v # w PROVE Backed(v)'
    BY <1>0, <1>13, <2>2, BackedStays DEF Respond, TypeOK
  <2> QED BY <2>1, <2>2
<1>14. ASSUME NEW w \in Workers, Crash(w) PROVE \A v \in Workers : Backed(v)'
  BY <1>0, <1>2, <1>14 DEF Crash, TypeOK
<1> QED
  BY <1>1, <1>6, <1>7, <1>8, <1>9, <1>10, <1>11, <1>12, <1>13, <1>14
     DEF Next, Work, Compose, Forget, PortalCheck, PortalReuse, PortalSave,
         PortalRespond, PortalEdit, local, vars

\* A success names a log of the request's movement and key, with the row lock
\* or without it.
THEOREM SuccessesAreBacked == Spec => []AnswerNamesItsKey
<1>1. Answers => AnswerNamesItsKey
  BY DEF Answers, Backed, Successes, AnswerNamesItsKey, Replay
<1> QED
  BY <1>1, AnswersInit, AnswersNext, PTL DEF Spec
=============================================================================
