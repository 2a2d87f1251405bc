------------------------- MODULE ExecuteOrderProofs -------------------------
(***************************************************************************)
(* The log of a movement is in the order of the catalog, always; and as    *)
(* long as the portal logs no catalog steps of its own the row lock makes  *)
(* the endpoint an implementation of MovementLifecycle.                    *)
(*                                                                         *)
(* The argument: a step that the policy allows comes directly after the    *)
(* steps logged so far, and logs are never removed, so that the steps      *)
(* before it are still there when it is saved.  The kernel asks the policy *)
(* under the row lock, and nobody else adds a log to a locked movement, so *)
(* that the step itself is still missing when it is committed.  The log    *)
(* that the kernel saw then also fixes what the column may be: hence what  *)
(* is executed was due, takes the column forward, and keeps it in step     *)
(* with the log.                                                           *)
(***************************************************************************)
EXTENDS ExecuteActionProofs

USE DEF Milestones, Cancel, Actions

-----------------------------------------------------------------------------
(***************************************************************************)
(* The policy                                                              *)
(***************************************************************************)

\* The catalog steps before a.
Earlier(a) == {b \in Catalog : Order[b] < Order[a]}

LEMMA EarlierValues ==
    /\ \A b : b \notin Earlier("start")
    /\ \A b : b \in Earlier("transit") <=> b = "start"
    /\ \A b : b \in Earlier("arrived") <=> b \in {"start", "transit"}
    /\ \A b : b \in Earlier("complete") <=>
                 b \in {"start", "transit"} \/ (b = "arrived" /\ b \in Catalog)
<1>1. \A b : b \in Catalog => b \in {"start", "transit", "arrived", "complete"}
  BY CatalogFacts
<1> QED BY <1>1, CatalogFacts, OrderValues DEF Earlier

\* A policy that allows a step on a log in catalog order has found exactly
\* the steps before it in the log.
LEMMA PolicyInOrder ==
    ASSUME NEW done \in SUBSET (Catalog \cup {Cancel}), NEW c,
           \A d \in done \cap Catalog : Earlier(d) \subseteq done,
           NEW a \in Catalog, StandaloneOrAllowed(a, c, done)
    PROVE  a \notin done /\ done \cap Catalog = Earlier(a)
<1> DEFINE F == Flags(done)
           D == done \cap Catalog
<1>1. /\ a \in Milestones /\ a \notin done /\ SequenceAllowed(a, c, done)
      /\ D = done \cap Milestones
  BY CatalogFacts DEF StandaloneOrAllowed, PolicyAllowed
<1>2. /\ \A b : b \notin Earlier("start")
      /\ \A b : b \in Earlier("transit") <=> b = "start"
      /\ \A b : b \in Earlier("arrived") <=> b \in {"start", "transit"}
      /\ \A b : b \in Earlier("complete") <=>
                   b \in {"start", "transit"} \/ (b = "arrived" /\ b \in Catalog)
  BY EarlierValues
<1>3. /\ "start" \in F <=> D # {}
      /\ "transit" \in F <=> \/ "transit" \in D \/ "arrived" \in D
                             \/ "complete" \in D
      /\ "arrived" \in F <=> "arrived" \in D \/ "complete" \in D
      /\ "complete" \in F <=> "complete" \in D
  BY <1>1, OrderValues DEF Flags
<1>4. /\ \A b \in D : b \in {"start", "transit", "arrived", "complete"}
      /\ "transit" \in D => "start" \in D
      /\ "arrived" \in D => "start" \in D /\ "transit" \in D
  <2>1. \A d \in D : Earlier(d) \subseteq D
    BY DEF Earlier
  <2>2. "transit" \in D => "start" \in D
    BY <1>2, <2>1
  <2>3. "arrived" \in D => "start" \in D /\ "transit" \in D
    BY <1>2, <2>1
  <2> QED BY <1>1, <2>2, <2>3
<1>5. ASSUME a = "start" PROVE \A b \in Milestones : b \in D <=> b \in Earlier(a)
  <2>1. /\ StageOfFlags(F) \in IF F = {} THEN {"created"} ELSE F
        /\ F \subseteq Milestones
    BY FlagsType, StageType
  <2>2. Stage(c, done) = "created"
    BY <1>1, <1>5 DEF SequenceAllowed
  <2>3. F = {}
    BY <2>1, <2>2 DEF Stage, StageOfFlags
  <2> QED BY <1>2, <1>3, <1>5, <2>3
<1>6. ASSUME a = "transit" PROVE \A b \in Milestones : b \in D <=> b \in Earlier(a)
  <2>1. "start" \in F /\ "transit" \notin F
    BY <1>1, <1>6 DEF SequenceAllowed
  <2>2. "transit" \notin D /\ "arrived" \notin D /\ "complete" \notin D
    BY <1>3, <2>1
  <2>3. "start" \in D
    BY <1>3, <1>4, <2>1, <2>2
  <2> QED BY <1>2, <1>6, <2>2, <2>3
<1>7. ASSUME a = "arrived" PROVE \A b \in Milestones : b \in D <=> b \in Earlier(a)
  <2>1. "transit" \in F /\ "arrived" \notin F
    BY <1>1, <1>7 DEF SequenceAllowed
  <2>2. "transit" \in D /\ "arrived" \notin D /\ "complete" \notin D
    BY <1>3, <2>1
  <2> QED BY <1>2, <1>4, <1>7, <2>2
<1>8. ASSUME a = "complete" PROVE \A b \in Milestones : b \in D <=> b \in Earlier(a)
  <2>1. "complete" \notin F /\ CompletionAllowed(done)
    BY <1>1, <1>8 DEF SequenceAllowed
  <2>2. CASE "arrived" \in Catalog
    <3>1. "arrived" \in D /\ "complete" \notin D
      BY <1>3, <2>1, <2>2 DEF CompletionAllowed
    <3> QED BY <1>2, <1>4, <1>8, <2>2, <3>1
  <2>3. CASE "arrived" \notin Catalog
    <3>1. "arrived" \notin D /\ "complete" \notin D
      BY <1>3, <2>1, <2>3
    <3>2. "transit" \in D
      BY <1>3, <2>1, <2>3, <3>1 DEF CompletionAllowed
    <3> QED BY <1>2, <1>4, <1>8, <2>3, <3>1, <3>2
  <2> QED BY <2>2, <2>3
<1>9. \A b \in Milestones : b \in D <=> b \in Earlier(a)
  BY <1>1, <1>5, <1>6, <1>7, <1>8
<1>10. D \subseteq Milestones /\ Earlier(a) \subseteq Milestones
  BY CatalogFacts DEF Earlier
<1>11. D = Earlier(a)
  <2>1. \A b \in D : b \in Earlier(a)
    BY <1>9, <1>10
  <2>2. \A b \in Earlier(a) : b \in D
    BY <1>9, <1>10
  <2> QED BY <2>1, <2>2
<1>12. a \notin done
  BY <1>1
<1> QED BY <1>11, <1>12

-----------------------------------------------------------------------------
(***************************************************************************)
(* The order of the log                                                    *)
(***************************************************************************)

\* Log numbers are below the next one, and no two logs share a number.
Numbered ==
    /\ \A l \in logs : l.no < nextNo /\ l.act \in Catalog \cup {Cancel}
    /\ \A k, l \in logs : k.no = l.no => k = l

\* The steps before a are in the log of movement m.
Prepared(m, a) == a \in Catalog => Earlier(a) \subseteq Done(m)

\* A form that has been checked and not yet saved.
Pending(p) == entry[p] # Nothing /\ entry[p].named = Nothing

Ordered ==
    /\ TypeInv
    /\ Numbered
    /\ MilestonesInOrder
    /\ \A w \in Workers : pc[w] = "commit" => Prepared(req[w].mv, req[w].act)
    /\ \A p \in Portals : Pending(p) => Prepared(entry[p].mv, entry[p].act)

LEMMA OrderedInit == Init => Ordered
<1> SUFFICES ASSUME Init PROVE Ordered
  OBVIOUS
<1>1. /\ logs = {}
      /\ \A w \in Workers : pc[w] = "idle"
      /\ \A p \in Portals : entry[p] = Nothing
  BY DEF Init
<1>2. Numbered /\ MilestonesInOrder
  BY <1>1 DEF Numbered, MilestonesInOrder
<1> QED BY TypeInit, <1>1, <1>2 DEF Ordered, Pending

\* One log of action a on movement m is added.
Adds(m, a, k) ==
    logs' = logs \cup {Log(nextNo, m, a, k)} /\ nextNo' = nextNo + 1

LEMMA DoneAdds ==
    ASSUME NEW m, NEW a, NEW k, Adds(m, a, k), NEW x
    PROVE  Done(x)' = IF x = m THEN Done(x) \cup {a} ELSE Done(x)
<1>1. \A l \in logs' : l \in logs \/ (l.mv = m /\ l.act = a)
  BY DEF Adds, Log
<1>2. Log(nextNo, m, a, k) \in logs' /\ logs \subseteq logs'
  BY DEF Adds
<1>3. Log(nextNo, m, a, k).mv = m /\ Log(nextNo, m, a, k).act = a
  BY DEF Log
<1>4. CASE x = m
  BY <1>1, <1>2, <1>3, <1>4 DEF Done
<1>5. CASE x # m
  BY <1>1, <1>2, <1>5 DEF Done
<1> QED BY <1>4, <1>5

\* What the policy allows on a log in order is prepared.
LEMMA AllowedIsNext ==
    ASSUME Ordered, NEW m, NEW a, NEW c, StandaloneOrAllowed(a, c, Done(m)),
           a \in Catalog
    PROVE  a \notin Done(m) /\ Done(m) \cap Catalog = Earlier(a)
<1>1. Done(m) \in SUBSET (Catalog \cup {Cancel})
  BY DEF Ordered, Numbered, Done
<1>2. \A d \in Done(m) \cap Catalog : Earlier(d) \subseteq Done(m)
  BY DEF Ordered, MilestonesInOrder, Done, Earlier
<1> QED BY <1>1, <1>2, PolicyInOrder

-----------------------------------------------------------------------------
(***************************************************************************)
(* The steps                                                               *)
(***************************************************************************)

\* A worker that commits the execution of its request.
Executes(w) ==
    LET r == req[w]
    IN  /\ pc[w] = "commit"
        /\ Adds(r.mv, r.act, r.key)
        /\ pc' = [pc EXCEPT ![w] = "answer"]
        /\ UNCHANGED <<req, entry>>

\* A portal worker that saves the form it has checked.
Saves(p) ==
    LET e == entry[p]
    IN  /\ e \in Entries /\ lock[e.mv] = Nobody
        /\ Pending(p)
        /\ Adds(e.mv, e.act, e.key)
        /\ entry' = [entry EXCEPT ![p].named = nextNo]
        /\ UNCHANGED <<pc, req>>

\* Every other step leaves the log alone, and a worker comes to its commit, or
\* a form to its save, only through the policy.
Quiet ==
    /\ UNCHANGED <<logs, nextNo>>
    /\ \A v \in Workers : pc'[v] = "commit" =>
          /\ req'[v] = req[v]
          /\ \/ pc[v] = "commit"
             \/ \E c : StandaloneOrAllowed(req[v].act, c, Done(req[v].mv))
    /\ \A p \in Portals : Pending(p)' =>
          \/ entry'[p] = entry[p]
          \/ \E c : StandaloneOrAllowed(entry'[p].act, c, Done(entry'[p].mv))

LEMMA StepKinds ==
    ASSUME TypeInv, [Next]_vars
    PROVE  \/ Quiet
           \/ \E w \in Workers : Executes(w)
           \/ \E p \in Portals : Saves(p)
<1> USE DEF TypeInv
<1>1. ASSUME UNCHANGED <<logs, nextNo, pc, req, entry>> PROVE Quiet
  BY <1>1 DEF Quiet, Pending
<1>2. ASSUME NEW w \in Workers, NEW step, step # "commit",
             UNCHANGED <<database, entry>>,
             pc' = [pc EXCEPT ![w] = step],
             \A v \in Workers \ {w} : req'[v] = req[v]
      PROVE  Quiet
  BY <1>2 DEF Quiet, Pending, database, TypeOK
<1>3. ASSUME NEW w \in Workers, NEW refusal, Refuse(w, refusal) PROVE Quiet
  BY <1>2, <1>3 DEF Refuse, Answer
<1>4. ASSUME NEW w \in Workers, NEW l, Answer(w, "replayed", l.no),
             UNCHANGED <<database, sent, req, seen, snap, entry>>
      PROVE  Quiet
  BY <1>2, <1>4 DEF Answer
<1>5. ASSUME NEW w \in Workers, NEW step, step # "commit", Proceed(w, step),
             UNCHANGED <<database, entry>>, \A v \in Workers \ {w} : req'[v] = req[v]
      PROVE  Quiet
  BY <1>2, <1>5 DEF Proceed
<1>6. ASSUME NEW w \in Workers, NEW r \in sent, Receive(w, r) PROVE Quiet
  <2>1. /\ UNCHANGED <<database, entry>>
        /\ \A v \in Workers \ {w} : req'[v] = req[v]
    BY <1>6 DEF Receive, TypeOK
  <2>2. CASE Answer(w, "job_inactive", Nothing)
    BY <1>2, <2>1, <2>2 DEF Answer
  <2>3. CASE Proceed(w, "reconcile")
    BY <1>5, <2>1, <2>3
  <2> QED BY <1>6, <2>2, <2>3 DEF Receive
<1>7. ASSUME NEW w \in Workers, Reconcile(w) PROVE Quiet
  BY <1>5, <1>7 DEF Reconcile
<1>8. ASSUME NEW w \in Workers, Detect(w) PROVE Quiet
  BY <1>3, <1>4, <1>5, <1>8 DEF Detect
<1>9. ASSUME NEW w \in Workers, Validate(w) PROVE Quiet
  BY <1>3, <1>5, <1>9 DEF Validate
<1>10. ASSUME NEW w \in Workers, Lock(w) PROVE Quiet
  BY <1>5, <1>10 DEF Lock
<1>11. ASSUME NEW w \in Workers, Kernel(w) PROVE Quiet
  <2>1. CASE /\ StandaloneOrAllowed(req[w].act, snap[w].status, Done(req[w].mv))
             /\ Proceed(w, "commit")
             /\ UNCHANGED <<database, lock, sent, req, seen, snap, entry>>
    BY <2>1 DEF Proceed, Quiet, Pending, database, TypeOK
  <2> QED BY <1>3, <1>4, <1>11, <2>1 DEF Kernel
<1>12. ASSUME NEW w \in Workers, Commit(w) PROVE Quiet \/ Executes(w)
  <2>1. ASSUME /\ logs' = logs \cup {Log(nextNo, req[w].mv, req[w].act, req[w].key)}
               /\ nextNo' = nextNo + 1
               /\ Answer(w, "executed", nextNo)
               /\ UNCHANGED <<sent, req, seen, snap, entry>>
        PROVE  Executes(w)
    BY <1>12, <2>1 DEF Commit, Executes, Adds, Answer
  <2> QED BY <1>3, <1>4, <1>12, <2>1 DEF Commit
<1>13. ASSUME NEW w \in Workers, Respond(w) PROVE Quiet
  BY <1>2, <1>13 DEF Respond, TypeOK
<1>14. ASSUME NEW w \in Workers, Crash(w) PROVE Quiet
  BY <1>2, <1>14 DEF Crash, TypeOK
<1>15. ASSUME NEW p \in Portals, NEW m \in Movements, NEW a \in AdminActions,
              NEW k \in FormKeys, PortalCheck(p, m, a, k)
       PROVE  Quiet
  <2>1. entry'[p].mv = m /\ entry'[p].act = a
        /\ \A q \in Portals \ {p} : entry'[q] = entry[q]
    BY <1>15 DEF PortalCheck, TypeOK
  <2> QED BY <1>15, <2>1 DEF PortalCheck, Quiet, database, local
<1>16. ASSUME NEW p \in Portals, PortalReuse(p) \/ PortalRespond(p) PROVE Quiet
  <2>1. /\ UNCHANGED <<database, pc, req>>
        /\ \A q \in Portals \ {p} : entry'[q] = entry[q]
    BY <1>16 DEF PortalReuse, PortalRespond, TypeOK, local
  <2>2. ~Pending(p)'
    <3>1. CASE PortalRespond(p)
      BY <3>1 DEF PortalRespond, Pending, TypeOK
    <3>2. CASE PortalReuse(p)
      <4>1. PICK l \in logs : entry' = [entry EXCEPT ![p].named = l.no]
        BY <3>2 DEF PortalReuse
      <4>2. entry[p] \in Entries /\ l.no \in Nat
        BY <3>2 DEF PortalReuse, TypeOK
      <4>3. entry'[p].named = l.no
        BY <4>1, <4>2 DEF TypeOK, Entries
      <4> QED BY <4>2, <4>3, ExecuteAssumption DEF Pending
    <3> QED BY <1>16, <3>1, <3>2
  <2> QED BY <2>1, <2>2 DEF Quiet, database
<1>17. ASSUME NEW p \in Portals, PortalSave(p) PROVE Saves(p)
  <2>1. entry[p] \in Entries
    BY <1>17 DEF PortalSave, TypeOK
  <2> QED BY <1>17, <2>1 DEF PortalSave, Saves, Pending, Adds, local
<1> QED
  BY <1>1, <1>6, <1>7, <1>8, <1>9, <1>10, <1>11, <1>12, <1>13, <1>14, <1>15,
     <1>16, <1>17
     DEF Next, Work, Compose, Forget, PortalEdit, database, local, vars

-----------------------------------------------------------------------------
(***************************************************************************)
(* The order is kept                                                       *)
(***************************************************************************)

\* A prepared log extends a log in order to a log in order.
LEMMA AddedInOrder ==
    ASSUME Ordered, NEW m, NEW a \in Catalog \cup {Cancel}, NEW k,
           Adds(m, a, k), Prepared(m, a)
    PROVE  Numbered' /\ MilestonesInOrder'
<1> DEFINE new == Log(nextNo, m, a, k)
<1>1. new.no = nextNo /\ new.mv = m /\ new.act = a
  BY DEF Log
<1>2. logs' = logs \cup {new} /\ nextNo' = nextNo + 1 /\ nextNo \in Nat
  BY DEF Adds, Ordered, TypeInv, TypeOK
<1> HIDE DEF new
<1>3. /\ \A l \in logs : l.no \in Nat /\ l.no < nextNo /\ l.act \in Catalog \cup {Cancel}
      /\ \A x, y \in logs : x.no = y.no => x = y
  BY DEF Ordered, Numbered, TypeInv, TypeOK
<1>4. Numbered'
  BY <1>1, <1>2, <1>3 DEF Numbered
<1>5. a \in Catalog =>
         \A b \in Catalog : Order[b] < Order[a] =>
             \E x \in logs : x.mv = m /\ x.act = b
  BY DEF Prepared, Earlier, Done
<1>6. MilestonesInOrder'
  <2> SUFFICES ASSUME NEW l \in logs', l.act \in Catalog,
                      NEW b \in Catalog, Order[b] < Order[l.act]
               PROVE  \E x \in logs' : x.mv = l.mv /\ x.act = b /\ x.no < l.no
    BY DEF MilestonesInOrder
  <2>1. CASE l \in logs
    <3>1. \E x \in logs : x.mv = l.mv /\ x.act = b /\ x.no < l.no
      BY <2>1 DEF Ordered, MilestonesInOrder
    <3> QED BY <1>2, <3>1
  <2>2. CASE l = new
    BY <1>1, <1>2, <1>3, <1>5, <2>2
  <2> QED BY <1>2, <2>1, <2>2
<1> QED BY <1>4, <1>6

\* What is prepared stays so, since nothing is taken out of the log.
LEMMA PreparedStays ==
    ASSUME NEW m, NEW a, Prepared(m, a), Done(m) \subseteq Done(m)'
    PROVE  Prepared(m, a)'
BY DEF Prepared, Earlier

LEMMA OrderedNext == Ordered /\ [Next]_vars => Ordered'
<1> SUFFICES ASSUME Ordered, [Next]_vars PROVE Ordered'
  OBVIOUS
<1>1. TypeInv /\ TypeInv'
  BY TypeNext DEF Ordered
<1>2. CASE Quiet
  <2>1. UNCHANGED <<logs, nextNo>> /\ \A x : Done(x)' = Done(x)
    BY <1>2 DEF Quiet, Done
  <2>2. Numbered' /\ MilestonesInOrder'
    BY <2>1 DEF Ordered, Numbered, MilestonesInOrder
  <2>3. ASSUME NEW w \in Workers, pc'[w] = "commit"
        PROVE  Prepared(req[w].mv, req[w].act)' /\ req'[w] = req[w]
    <3>1. Prepared(req[w].mv, req[w].act)
      BY <1>2, <2>3, AllowedIsNext DEF Quiet, Prepared, Ordered
    <3>2. req'[w] = req[w]
      BY <1>2, <2>3 DEF Quiet
    <3> QED BY <2>1, <3>1, <3>2 DEF Prepared
  <2>4. ASSUME NEW p \in Portals, Pending(p)'
        PROVE  Prepared(entry[p].mv, entry[p].act)'
    <3>1. CASE entry'[p] = entry[p]
      BY <2>1, <2>4, <3>1 DEF Ordered, Pending, Prepared
    <3>2. CASE \E c : StandaloneOrAllowed(entry'[p].act, c, Done(entry'[p].mv))
      <4>1. Prepared(entry'[p].mv, entry'[p].act)
        BY <3>2, AllowedIsNext DEF Prepared
      <4> QED BY <2>1, <4>1 DEF Prepared
    <3> QED BY <1>2, <2>4, <3>1, <3>2 DEF Quiet
  <2> QED BY <1>1, <2>2, <2>3, <2>4 DEF Ordered, Prepared
<1>3. ASSUME NEW w \in Workers, Executes(w) PROVE Ordered'
  <2>1. /\ pc[w] = "commit" /\ Adds(req[w].mv, req[w].act, req[w].key)
        /\ \A v \in Workers : pc'[v] = "commit" => pc[v] = "commit"
        /\ UNCHANGED <<req, entry>>
    BY <1>1, <1>3 DEF Executes, TypeInv, TypeOK
  <2>2. req[w].act \in Catalog \cup {Cancel}
    BY <1>1, <2>1, ExecuteAssumption DEF TypeInv, TypeOK, Holds, Requests
  <2>3. Numbered' /\ MilestonesInOrder'
    BY <2>1, <2>2, AddedInOrder DEF Ordered
  <2>4. \A x : Done(x) \subseteq Done(x)'
    BY <2>1, DoneAdds
  <2> QED BY <1>1, <2>1, <2>3, <2>4 DEF Ordered, Prepared, Pending
<1>4. ASSUME NEW p \in Portals, Saves(p) PROVE Ordered'
  <2>1. /\ entry[p] \in Entries /\ Pending(p)
        /\ Adds(entry[p].mv, entry[p].act, entry[p].key)
        /\ \A q \in Portals : Pending(q)' => entry'[q] = entry[q]
        /\ UNCHANGED <<pc, req>>
    <3>1. ~Pending(p)'
      <4>1. entry'[p].named = nextNo /\ nextNo \in Nat
        BY <1>1, <1>4 DEF Saves, TypeInv, TypeOK, Entries
      <4> QED BY <4>1, ExecuteAssumption DEF Pending
    <3>2. \A q \in Portals \ {p} : entry'[q] = entry[q]
      BY <1>1, <1>4 DEF Saves, TypeInv, TypeOK
    <3> QED BY <1>4, <3>1, <3>2 DEF Saves
  <2>2. entry[p].act \in Catalog \cup {Cancel}
    BY <2>1, ExecuteAssumption DEF Entries
  <2>3. Numbered' /\ MilestonesInOrder'
    BY <2>1, <2>2, AddedInOrder DEF Ordered
  <2>4. \A x : Done(x) \subseteq Done(x)'
    BY <2>1, DoneAdds
  <2> QED BY <1>1, <2>1, <2>3, <2>4 DEF Ordered, Prepared, Pending
<1> QED BY <1>1, <1>2, <1>3, <1>4, StepKinds

\* Every step of a movement is logged after all the steps before it, with row
\* locking or without it, and whatever the portal logs and saves.
THEOREM StepsAreInOrder == Spec => []MilestonesInOrder
<1>1. Ordered => MilestonesInOrder
  BY DEF Ordered
<1> QED
  BY <1>1, OrderedInit, OrderedNext, PTL DEF Spec

-----------------------------------------------------------------------------
(***************************************************************************)
(* Each step when it is due                                                *)
(***************************************************************************)

\* Action a is the next step of movement m.
IsDue(m, a) == a \notin Done(m) /\ Done(m) \cap Catalog = Earlier(a)

\* The row lock keeps a step due from the kernel's validation to the commit.
Due ==
    /\ Ordered
    /\ Locks
    /\ \A w \in Workers :
          pc[w] = "commit" /\ req[w].act \in Catalog => IsDue(req[w].mv, req[w].act)

LEMMA DueInit == Init => Due
BY OrderedInit, LocksInit DEF Init, Due

LEMMA DueNext == EntityLocking /\ Due /\ [Next]_vars => Due'
<1> SUFFICES ASSUME EntityLocking, Due, [Next]_vars PROVE Due'
  OBVIOUS
<1>1. Ordered /\ TypeInv /\ Ordered' /\ Locks'
  BY OrderedNext, LocksNext DEF Due, Ordered
<1>2. CASE Quiet
  <2>1. \A x : Done(x)' = Done(x)
    BY <1>2 DEF Quiet, Done
  <2>2. ASSUME NEW w \in Workers, pc'[w] = "commit", req'[w].act \in Catalog
        PROVE  IsDue(req[w].mv, req[w].act)'
    <3>1. req'[w] = req[w]
      BY <1>2, <2>2 DEF Quiet
    <3>2. IsDue(req[w].mv, req[w].act)
      BY <1>1, <1>2, <2>2, <3>1, AllowedIsNext DEF Quiet, Due, IsDue
    <3> QED BY <2>1, <3>1, <3>2 DEF IsDue
  <2> QED BY <1>1, <2>2 DEF Due
<1>3. ASSUME NEW w \in Workers, Executes(w) PROVE Due'
  <2>1. /\ pc[w] = "commit" /\ Adds(req[w].mv, req[w].act, req[w].key)
        /\ \A v \in Workers : pc'[v] = "commit" => v # w /\ pc[v] = "commit"
        /\ req' = req
    BY <1>1, <1>3 DEF Executes, TypeInv, TypeOK
  <2>2. ASSUME NEW v \in Workers, pc'[v] = "commit" PROVE req[v].mv # req[w].mv
    <3>1. /\ v # w /\ pc[v] = "commit"
          /\ req[v].mv \in Movements /\ req[w].mv \in Movements
      BY <1>1, <2>1, <2>2 DEF TypeInv, Holds, Requests
    <3>2. lock[req[v].mv] = v /\ lock[req[w].mv] = w
      BY <2>1, <3>1 DEF Due, Locks, LockIsHeldInTransaction
    <3> QED BY <3>1, <3>2
  <2>3. ASSUME NEW v \in Workers, pc'[v] = "commit", req'[v].act \in Catalog
        PROVE  IsDue(req[v].mv, req[v].act)'
    <3>1. Done(req[v].mv)' = Done(req[v].mv)
      BY <2>1, <2>2, <2>3, DoneAdds
    <3> QED BY <2>1, <2>3, <3>1 DEF Due, IsDue
  <2> QED BY <1>1, <2>3 DEF Due
<1>4. ASSUME NEW p \in Portals, Saves(p) PROVE Due'
  <2>1. /\ lock[entry[p].mv] = Nobody
        /\ Adds(entry[p].mv, entry[p].act, entry[p].key)
        /\ UNCHANGED <<pc, req>>
    BY <1>4 DEF Saves
  <2>2. ASSUME NEW v \in Workers, pc'[v] = "commit", req'[v].act \in Catalog
        PROVE  IsDue(req[v].mv, req[v].act)'
    <3>1. req[v].mv \in Movements /\ lock[req[v].mv] = v
      BY <1>1, <2>1, <2>2
         DEF Due, Locks, LockIsHeldInTransaction, TypeInv, Holds, Requests
    <3>2. Done(req[v].mv)' = Done(req[v].mv)
      BY <2>1, <3>1, ExecuteAssumption, DoneAdds
    <3> QED BY <2>1, <2>2, <3>2 DEF Due, IsDue
  <2> QED BY <1>1, <2>2 DEF Due
<1> QED BY <1>1, <1>2, <1>3, <1>4, StepKinds

-----------------------------------------------------------------------------
(***************************************************************************)
(* Each step once                                                          *)
(***************************************************************************)

\* Row locking is on, and the portal logs no catalog steps of its own.
Serialised == EntityLocking /\ AdminActions \cap Catalog = {}

Once == Due /\ MilestonesOnce

LEMMA OnceInit == Init => Once
BY DueInit DEF Init, Once, MilestonesOnce

\* A step that is due, or a cancellation, leaves every step logged once.
LEMMA AddedOnce ==
    ASSUME MilestonesOnce, NEW m, NEW a, NEW k, Adds(m, a, k),
           a \in Catalog => a \notin Done(m)
    PROVE  MilestonesOnce'
<1>1. PICK new : /\ new.mv = m /\ new.act = a
                 /\ logs' = logs \cup {new}
  BY DEF Adds, Log
<1>2. a \in Catalog => \A l \in logs : ~(l.mv = m /\ l.act = a)
  BY DEF Done
<1> QED BY <1>1, <1>2 DEF MilestonesOnce

LEMMA OnceNext == Serialised /\ Once /\ [Next]_vars => Once'
<1> SUFFICES ASSUME Serialised, Once, [Next]_vars PROVE Once'
  OBVIOUS
<1>1. Due' /\ TypeInv
  BY DueNext DEF Serialised, Once, Due, Ordered
<1>2. CASE Quiet
  BY <1>1, <1>2 DEF Quiet, Once, MilestonesOnce
<1>3. ASSUME NEW w \in Workers, Executes(w) PROVE Once'
  <2>1. pc[w] = "commit" /\ Adds(req[w].mv, req[w].act, req[w].key)
    BY <1>3 DEF Executes
  <2> QED BY <1>1, <2>1, AddedOnce DEF Once, Due, IsDue
<1>4. ASSUME NEW p \in Portals, Saves(p) PROVE Once'
  <2>1. entry[p].act \notin Catalog /\ Adds(entry[p].mv, entry[p].act, entry[p].key)
    BY <1>4 DEF Saves, Entries, Serialised
  <2> QED BY <1>1, <2>1, AddedOnce DEF Once
<1> QED BY <1>1, <1>2, <1>3, <1>4, StepKinds

\* With row locking, and as long as the portal logs no catalog steps of its
\* own, no step of a movement is logged twice.
THEOREM StepsAreLoggedOnce ==
    ASSUME Serialised PROVE Spec => []MilestonesOnce
<1>1. Once => MilestonesOnce
  BY DEF Once
<1>2. Once /\ [Next]_vars => Once'
  BY OnceNext
<1> QED
  BY <1>1, <1>2, OnceInit, PTL DEF Spec

-----------------------------------------------------------------------------
(***************************************************************************)
(* The refinement                                                          *)
(***************************************************************************)

LEMMA BeforeIsEarlier == \A a : Lifecycle!Before(a) = Earlier(a)
BY DEF Lifecycle!Before, Earlier, Lifecycle!Order, Order, Lifecycle!Milestones

\* The steps taken are the steps logged.
LEMMA StepsTaken == \A m : {h.act : h \in Steps(m)} = Done(m) \cap Catalog
<1> TAKE m
<1>1. ASSUME NEW a \in {h.act : h \in Steps(m)} PROVE a \in Done(m) \cap Catalog
  <2>1. PICK l \in logs : l.mv = m /\ l.act \in Catalog /\ a = l.act
    BY DEF Steps
  <2> QED BY <2>1 DEF Done
<1>2. ASSUME NEW a \in Done(m) \cap Catalog PROVE a \in {h.act : h \in Steps(m)}
  <2>1. PICK l \in logs : l.mv = m /\ l.act = a
    BY DEF Done
  <2>2. [no |-> l.no, act |-> l.act] \in Steps(m)
    BY <2>1 DEF Steps
  <2> QED BY <2>1, <2>2
<1> QED BY <1>1, <1>2

\* The steps of every movement, as MovementLifecycle sees them.
history == [m \in Movements |-> Steps(m)]

LEMMA LifecycleInit == Init => Lifecycle!Init
BY DEF Init, Lifecycle!Init, Steps

\* A log of a catalog step adds it to the steps of its movement; a log of a
\* cancellation adds nothing.
LEMMA AddedSteps ==
    ASSUME NEW m \in Movements, NEW a, NEW k, Adds(m, a, k)
    PROVE  history' = IF a \in Catalog
                      THEN [history EXCEPT ![m] = @ \cup {[no |-> nextNo, act |-> a]}]
                      ELSE history
<1>1. PICK new : /\ new.mv = m /\ new.act = a /\ new.no = nextNo
                 /\ logs' = logs \cup {new}
  BY DEF Adds, Log
<1>2. \A x \in Movements :
         Steps(x)' = IF x = m /\ a \in Catalog
                     THEN Steps(x) \cup {[no |-> nextNo, act |-> a]}
                     ELSE Steps(x)
  BY <1>1 DEF Steps
<1> QED BY <1>2 DEF history

LEMMA LifecycleNext ==
    Serialised /\ Once /\ [Next]_vars => [Lifecycle!Next]_history
<1> SUFFICES ASSUME Serialised, Once, [Next]_vars
             PROVE  [Lifecycle!Next]_history
  OBVIOUS
<1>1. CASE Quiet
  BY <1>1 DEF Quiet, history, Steps
<1>2. ASSUME NEW w \in Workers, Executes(w) PROVE [Lifecycle!Next]_history
  <2> DEFINE m == req[w].mv
             a == req[w].act
             new == [no |-> nextNo, act |-> a]
  <2>1. /\ m \in Movements /\ Adds(m, a, req[w].key) /\ pc[w] = "commit"
    BY <1>2 DEF Executes, Once, Due, Ordered, TypeInv, Holds, Requests
  <2>2. CASE a \notin Catalog
    BY <2>1, <2>2, AddedSteps
  <2>3. CASE a \in Catalog
    <3>1. history' = [history EXCEPT ![m] = @ \cup {new}]
      BY <2>1, <2>3, AddedSteps
    <3>2. \A h \in history[m] : h.no < new.no
      BY <2>1 DEF history, Steps, Once, Due, Ordered, Numbered
    <3>3. {h.act : h \in history[m]} = Lifecycle!Before(a)
      <4>1. Done(m) \cap Catalog = Earlier(a)
        BY <2>1, <2>3 DEF Once, Due, IsDue
      <4> QED BY <2>1, <4>1, StepsTaken, BeforeIsEarlier DEF history
    <3>4. new \in history'[m]
      BY <2>1, <3>1 DEF history
    <3>5. Lifecycle!Advance(m, a)
      BY <3>1, <3>2, <3>3, <3>4 DEF Lifecycle!Advance, history
    <3> QED BY <2>1, <2>3, <3>5 DEF Lifecycle!Next
  <2> QED BY <2>2, <2>3
<1>3. ASSUME NEW p \in Portals, Saves(p) PROVE [Lifecycle!Next]_history
  <2>1. /\ entry[p].mv \in Movements /\ entry[p].act \notin Catalog
        /\ Adds(entry[p].mv, entry[p].act, entry[p].key)
    BY <1>3 DEF Saves, Entries, Serialised
  <2> QED BY <2>1, AddedSteps
<1> QED BY <1>1, <1>2, <1>3, StepKinds DEF Once, Due, Ordered

\* Under the same conditions the endpoint implements the lifecycle: every
\* commit is the next step of the catalog, or no step at all.
THEOREM ImplementsLifecycle ==
    ASSUME Serialised PROVE Spec => RefinesLifecycle
<1>1. Once /\ [Next]_vars => Once' /\ [Lifecycle!Next]_history
  BY OnceNext, LifecycleNext
<1> QED
  BY <1>1, OnceInit, LifecycleInit, PTL DEF Spec, RefinesLifecycle, Lifecycle!Spec, history

-----------------------------------------------------------------------------
(***************************************************************************)
(* Column and log                                                          *)
(***************************************************************************)

USE DEF Statuses, NoStatus

\* The app is shown a movement as completed when its completion is logged, and
\* only then, whatever the column holds.
LEMMA CompletedIsLogged ==
    ASSUME NEW c, NEW done \in SUBSET Actions
    PROVE  Authoritative(c, done) = "Completed" <=> "complete" \in done
<1> DEFINE hit == {Impact[a] : a \in done} \ {NoStatus}
<1>1. "complete" \in Flags(done) <=> "complete" \in done
  BY OrderValues DEF Flags
<1>2. ASSUME "complete" \notin done PROVE PeakImpact(done) # "Completed"
  <2>1. hit \in SUBSET {"InProgress", "Completed", "Cancelled"} /\ "Completed" \notin hit
    BY <1>2, ImpactValues
  <2>2. CASE hit = {}
    BY <2>2 DEF PeakImpact
  <2>3. CASE hit # {}
    <3>1. \E s \in hit : \A t \in hit : Rank[t] <= Rank[s]
      <4> HIDE DEF hit
      <4> QED BY <2>1, <2>3, HighestImpact
    <3>2. (CHOOSE s \in hit : \A t \in hit : Rank[t] <= Rank[s]) \in hit
      BY <3>1
    <3> QED BY <2>1, <2>3, <3>2 DEF PeakImpact
  <2> QED BY <2>2, <2>3
<1> QED BY <1>1, <1>2 DEF Authoritative

\* The impact of a movement that is under way, and of one that is completed.
LEMMA PeakOfSteps ==
    ASSUME NEW done \in SUBSET Milestones, "start" \in done
    PROVE  PeakImpact(done) = IF "complete" \in done THEN "Completed" ELSE "InProgress"
<1> DEFINE hit == {Impact[a] : a \in done} \ {NoStatus}
<1>1. /\ hit \in SUBSET {"InProgress", "Completed", "Cancelled"}
      /\ "InProgress" \in hit /\ "Cancelled" \notin hit
      /\ "Completed" \in hit <=> "complete" \in done
  BY ImpactValues
<1>2. PeakImpact(done) = CHOOSE s \in hit : \A t \in hit : Rank[t] <= Rank[s]
  BY <1>1 DEF PeakImpact
<1> HIDE DEF hit
<1>3. \E s \in hit : \A t \in hit : Rank[t] <= Rank[s]
  BY <1>1, HighestImpact
<1>4. PeakImpact(done) \in hit /\ \A t \in hit : Rank[t] <= Rank[PeakImpact(done)]
  BY <1>2, <1>3
<1>5. CASE "complete" \in done
  <2>1. PeakImpact(done) = "InProgress" \/ PeakImpact(done) = "Completed"
    BY <1>1, <1>4
  <2>2. Rank["Completed"] <= Rank[PeakImpact(done)]
    BY <1>1, <1>4, <1>5
  <2>3. PeakImpact(done) # "InProgress"
    BY <2>2, RankValues
  <2> QED BY <1>5, <2>1, <2>3
<1>6. CASE "complete" \notin done
  BY <1>1, <1>4, <1>6
<1> QED BY <1>5, <1>6

\* What the log of a movement holds when a step is due.
LEMMA DueAfter ==
    ASSUME NEW a \in Catalog, NEW done \in SUBSET Catalog, done = Earlier(a)
    PROVE  /\ done \in SUBSET Milestones /\ "complete" \notin done
           /\ a = "start" => done = {}
           /\ a # "start" => "start" \in done
           /\ a = "transit" => done = {"start"}
           /\ a = "arrived" => done = {"start", "transit"}
           /\ a = "complete" => "transit" \in done /\ ("arrived" \in Catalog => "arrived" \in done)
BY EarlierValues, CatalogFacts

\* A step that is due is allowed under the status that the app is shown now,
\* whatever the column holds.
LEMMA DueIsAllowed ==
    ASSUME NEW a \in Catalog, NEW done \in SUBSET Catalog, a \notin done,
           done = Earlier(a), NEW c
    PROVE  PolicyAllowed(a, Authoritative(c, done), done)
<1> DEFINE auth == Authoritative(c, done)
           F == Flags(done)
<1>1. /\ a \in {"start", "transit", "arrived", "complete"}
      /\ done \in SUBSET Milestones /\ "complete" \notin done
      /\ a = "start" => done = {}
      /\ a # "start" => "start" \in done
      /\ a = "transit" => done = {"start"}
      /\ a = "arrived" => done = {"start", "transit"}
      /\ a = "complete" => "transit" \in done /\ ("arrived" \in Catalog => "arrived" \in done)
  BY DueAfter, CatalogFacts
<1>2. /\ "complete" \notin F
      /\ done = {} => F = {}
      /\ "start" \in done => "start" \in F
      /\ done = {"start"} => "transit" \notin F
      /\ "transit" \in done => "transit" \in F
      /\ done = {"start", "transit"} => "arrived" \notin F
      /\ "arrived" \in done => "arrived" \in F
  BY <1>1, OrderValues DEF Flags
<1>3. WorkflowColumn(auth, done) \notin Terminal
  <2>1. CASE done = {}
    BY <1>2, <2>1 DEF WorkflowColumn, Terminal
  <2>2. CASE done # {}
    <3>1. "start" \in done
      BY <1>1, <2>2
    <3>2. PeakImpact(done) = "InProgress"
      BY <1>1, <3>1, PeakOfSteps
    <3>3. auth = "InProgress"
      BY <1>2, <2>2, <3>2 DEF Authoritative
    <3> QED BY <3>3 DEF WorkflowColumn, Terminal
  <2> QED BY <2>1, <2>2
<1> HIDE DEF auth
<1>4. SequenceAllowed(a, auth, done)
  <2>1. CASE a = "start"
    BY <1>1, <1>2, <2>1 DEF SequenceAllowed, Stage, StageOfFlags
  <2>2. CASE a = "transit"
    BY <1>1, <1>2, <2>2 DEF SequenceAllowed
  <2>3. CASE a = "arrived"
    BY <1>1, <1>2, <2>3 DEF SequenceAllowed
  <2>4. CASE a = "complete"
    BY <1>1, <1>2, <2>4 DEF SequenceAllowed, CompletionAllowed
  <2> QED BY <1>1, <2>1, <2>2, <2>3, <2>4
<1> QED BY <1>3, <1>4 DEF PolicyAllowed, auth

\* A step that is due takes a column that agrees with the log to one that agrees
\* with the log and the step, whatever status s it was decided under.
LEMMA DueKeepsAgreement ==
    ASSUME NEW a \in Catalog, NEW done \in SUBSET Catalog, a \notin done,
           done = Earlier(a), NEW c \in Statuses, NEW s, ~Drift(c, done)
    PROVE  LET d == ColumnAfter(a, s, c)
           IN  /\ ~Drift(d, done \cup {a})
               /\ d = c \/ c \in ForwardFrom[d]
<1> DEFINE d == ColumnAfter(a, s, c)
           after == done \cup {a}
<1>1. /\ a \in {"start", "transit", "arrived", "complete"}
      /\ done \in SUBSET Milestones /\ "complete" \notin done
      /\ a = "start" => done = {}
      /\ a # "start" => "start" \in done
  BY DueAfter, CatalogFacts
<1>2. c = IF a = "start" THEN "Scheduled" ELSE "InProgress"
  <2>1. CASE a = "start"
    BY <1>1, <2>1 DEF Drift
  <2>2. CASE a # "start"
    <3>1. PeakImpact(done) = "InProgress"
      BY <1>1, <2>2, PeakOfSteps
    <3> QED BY <2>2, <3>1 DEF Drift
  <2> QED BY <2>1, <2>2
<1>3. d = IF a = "complete" THEN "Completed" ELSE "InProgress"
  BY <1>1, <1>2, ImpactValues DEF ColumnAfter
<1>4. /\ after \in SUBSET Milestones /\ "start" \in after /\ after # {}
      /\ "complete" \in after <=> a = "complete"
  BY <1>1
<1> HIDE DEF d, after
<1>5. PeakImpact(after) = d
  BY <1>3, <1>4, PeakOfSteps
<1>6. "complete" \in Flags(after) <=> "complete" \in after
  BY OrderValues DEF Flags
<1>7. ~Drift(d, after)
  BY <1>3, <1>4, <1>5, <1>6 DEF Drift
<1>8. d = c \/ c \in ForwardFrom[d]
  BY <1>1, <1>2, <1>3 DEF ForwardFrom
<1> QED BY <1>7, <1>8 DEF d, after

-----------------------------------------------------------------------------
(***************************************************************************)
(* What executing a step does                                              *)
(***************************************************************************)

\* The worker that turns to "executed" has just saved the step of its request.
Executed(w) == pc[w] = "commit" /\ out'[w] = "executed"

LEMMA ExecutedSaves ==
    ASSUME Answers, [Next]_vars, NEW w \in Workers, Executed(w)
    PROVE  /\ Executes(w)
           /\ req[w] \in Requests /\ snap[w] \in Views
           /\ status' = [status EXCEPT ![req[w].mv] =
                            ColumnAfter(req[w].act, snap[w].status, @)]
<1>0. TypeOK /\ Holds /\ out'[w] # out[w]
  BY DEF Answers, TypeInv, Backed, Successes, Executed
<1>1. ASSUME NEW v \in Workers, v # w,
             Work(v) \/ Crash(v) \/ \E r \in sent : Receive(v, r)
      PROVE  out'[w] = out[w]
  BY <1>0, <1>1 DEF Work, Crash, Receive, Reconcile, Detect, Validate, Lock, Kernel, Commit,
                    Respond, Refuse, Answer, Proceed, TypeOK
<1>2. ASSUME Work(w) \/ Crash(w) \/ \E r \in sent : Receive(w, r)
      PROVE  Commit(w)
  BY <1>0, <1>2 DEF Work, Crash, Receive, Reconcile, Detect, Validate, Lock, Kernel,
                    Respond, Executed
<1>3. Commit(w)
  BY <1>0, <1>1, <1>2 DEF Next, Compose, Forget, PortalCheck, PortalReuse, PortalSave,
                          PortalRespond, PortalEdit, local, vars
<1>4. ASSUME NEW outcome, NEW no, Answer(w, outcome, no) PROVE out'[w] = outcome
  BY <1>0, <1>4 DEF Answer, TypeOK
<1>5. /\ logs' = logs \cup {Log(nextNo, req[w].mv, req[w].act, req[w].key)}
      /\ nextNo' = nextNo + 1
      /\ status' = [status EXCEPT ![req[w].mv] =
                       ColumnAfter(req[w].act, snap[w].status, @)]
      /\ Answer(w, "executed", nextNo)
      /\ UNCHANGED <<sent, req, seen, snap, entry>>
  BY <1>3, <1>4 DEF Commit, Refuse, Executed
<1>6. Executes(w)
  BY <1>5 DEF Executes, Executed, Adds, Answer
<1> QED BY <1>0, <1>5, <1>6 DEF Holds, Executed

DueAndAnswers == Due /\ Answers

LEMMA DueAndAnswersAlways == ASSUME EntityLocking PROVE Spec => []DueAndAnswers
<1>1. Init => DueAndAnswers
  BY DueInit, AnswersInit DEF DueAndAnswers
<1>2. DueAndAnswers /\ [Next]_vars => DueAndAnswers'
  BY DueNext, AnswersNext DEF DueAndAnswers
<1> QED BY <1>1, <1>2, PTL DEF Spec

\* A catalog step that is executed where no cancellation is logged is due.
LEMMA ExecutedIsDue ==
    ASSUME EntityLocking, DueAndAnswers, [Next]_vars, NEW w \in Workers, Executed(w),
           req[w].act \in Catalog, Cancel \notin Done(req[w].mv)
    PROVE  /\ Done(req[w].mv) \in SUBSET Catalog
           /\ req[w].act \notin Done(req[w].mv)
           /\ Done(req[w].mv) = Earlier(req[w].act)
<1>1. IsDue(req[w].mv, req[w].act)
  BY DEF DueAndAnswers, Due, Executed
<1>2. Done(req[w].mv) \in SUBSET (Catalog \cup {Cancel})
  BY DEF DueAndAnswers, Due, Ordered, Numbered, Done
<1> QED BY <1>1, <1>2 DEF IsDue

\* With row locking, a step that the app executes is one that it would show at
\* that very moment, unless the movement's cancellation is logged: whatever other
\* workers, forms and the movement form have done since the request was composed.
DueUnlessCancelled ==
    [][\A w \in Workers :
          LET m == req[w].mv
          IN  /\ pc[w] = "commit" /\ out'[w] = "executed"
              /\ req[w].act \in Catalog /\ Cancel \notin Done(m)
              => req[w].act \in View(status[m], Done(m)).allowed]_vars

LEMMA DueIsShown ==
    ASSUME EntityLocking, DueAndAnswers, [Next]_vars, NEW w \in Workers, Executed(w),
           req[w].act \in Catalog, Cancel \notin Done(req[w].mv)
    PROVE  req[w].act \in View(status[req[w].mv], Done(req[w].mv)).allowed
<1> DEFINE m == req[w].mv
           a == req[w].act
<1>1. /\ Done(m) \in SUBSET Catalog /\ a \notin Done(m) /\ Done(m) = Earlier(a)
  BY ExecutedIsDue
<1>2. a \in DriverActions
  BY ExecutedSaves DEF DueAndAnswers, Requests
<1>3. PolicyAllowed(a, Authoritative(status[m], Done(m)), Done(m))
  BY <1>1, DueIsAllowed
<1> QED BY <1>2, <1>3 DEF View

\* The row lock, and the policy asked once more under it, are enough for that.
THEOREM ExecutedStepsAreDue ==
    ASSUME EntityLocking PROVE Spec => DueUnlessCancelled
<1>1. ASSUME DueAndAnswers, [Next]_vars
      PROVE  [\A w \in Workers :
                LET m == req[w].mv
                IN  /\ pc[w] = "commit" /\ out'[w] = "executed"
                    /\ req[w].act \in Catalog /\ Cancel \notin Done(m)
                    => req[w].act \in View(status[m], Done(m)).allowed]_vars
  BY <1>1, DueIsShown DEF Executed
<1> QED BY <1>1, DueAndAnswersAlways, PTL DEF Spec, DueUnlessCancelled

\* Where nobody cancels, that is all the app executes.
THEOREM OnlyDueStepsAreExecuted ==
    ASSUME EntityLocking, Cancel \notin DriverActions \cup AdminActions
    PROVE  Spec => ExecutesWhatIsDue
<1> DEFINE Uncancelled == \A l \in logs : l.act # Cancel
<1>1. Init => Uncancelled
  BY DEF Init
<1>2. TypeInv /\ Uncancelled /\ [Next]_vars => Uncancelled'
  <2> SUFFICES ASSUME TypeInv, Uncancelled, [Next]_vars PROVE Uncancelled'
    OBVIOUS
  <2>1. ASSUME NEW m, NEW a, NEW k, Adds(m, a, k), a # Cancel PROVE Uncancelled'
    BY <2>1 DEF Adds, Log
  <2>2. ASSUME NEW w \in Workers, Executes(w) PROVE Uncancelled'
    <3>1. req[w].act # Cancel
      BY <2>2 DEF Executes, TypeInv, Holds, Requests
    <3> QED BY <2>1, <2>2, <3>1 DEF Executes
  <2>3. ASSUME NEW p \in Portals, Saves(p) PROVE Uncancelled'
    <3>1. entry[p].act # Cancel
      BY <2>3 DEF Saves, Entries
    <3> QED BY <2>1, <2>3, <3>1 DEF Saves
  <2> QED BY <2>2, <2>3, StepKinds DEF Quiet
<1>3. ASSUME DueAndAnswers, Uncancelled, [Next]_vars
      PROVE  [\A w \in Workers :
                pc[w] = "commit" /\ out'[w] = "executed" =>
                    LET m == req[w].mv
                    IN  req[w].act \in View(status[m], Done(m)).allowed]_vars
  <2> SUFFICES ASSUME NEW w \in Workers, Executed(w)
               PROVE  req[w].act \in View(status[req[w].mv], Done(req[w].mv)).allowed
    BY DEF Executed
  <2>1. req[w].act \in Catalog /\ Cancel \notin Done(req[w].mv)
    BY <1>3, ExecutedSaves, ExecuteAssumption DEF DueAndAnswers, Requests, Done
  <2> QED BY <1>3, <2>1, DueIsShown
<1>4. DueAndAnswers => TypeInv
  BY DEF DueAndAnswers, Answers
<1> HIDE DEF Uncancelled
<1> QED BY <1>1, <1>2, <1>3, <1>4, DueAndAnswersAlways, PTL DEF Spec, ExecutesWhatIsDue

\* Executing a step keeps column and log together and takes the column forward,
\* though the status it was decided under was read before the lock: the log that
\* the kernel saw under the lock fixes what the column is.
THEOREM ExecutedStepsKeepAgreement ==
    ASSUME EntityLocking PROVE Spec => ExecutingKeepsAgreement
<1>1. ASSUME DueAndAnswers, [Next]_vars, NEW w \in Workers, Executed(w),
             req[w].act \in Catalog, Cancel \notin Done(req[w].mv),
             ~Drift(status[req[w].mv], Done(req[w].mv))
      PROVE  /\ ~Drift(status[req[w].mv], Done(req[w].mv))'
             /\ \/ status'[req[w].mv] = status[req[w].mv]
                \/ status[req[w].mv] \in ForwardFrom[status'[req[w].mv]]
  <2> DEFINE m == req[w].mv
             a == req[w].act
             d == ColumnAfter(a, snap[w].status, status[m])
  <2>1. /\ Adds(m, a, req[w].key) /\ UNCHANGED req
        /\ m \in Movements /\ status[m] \in Statuses
        /\ status' = [status EXCEPT ![m] = ColumnAfter(a, snap[w].status, @)]
    BY <1>1, ExecutedSaves DEF Executes, DueAndAnswers, Answers, TypeInv, TypeOK, Requests
  <2>2. status'[m] = d /\ Done(m)' = Done(m) \cup {a}
    <3>1. status'[m] = d
      BY <1>1, <2>1 DEF DueAndAnswers, Answers, TypeInv, TypeOK
    <3>2. PICK x : x = m
      OBVIOUS
    <3>3. Done(x)' = Done(x) \cup {a}
      BY <2>1, <3>2, DoneAdds
    <3> QED BY <2>1, <3>1, <3>2, <3>3
  <2>3. ~Drift(d, Done(m) \cup {a}) /\ (d = status[m] \/ status[m] \in ForwardFrom[d])
    BY <1>1, <2>1, ExecutedIsDue, DueKeepsAgreement
  <2> HIDE DEF d
  <2>4. ~Drift(status[m], Done(m))'
    BY <2>1, <2>2, <2>3 DEF Drift
  <2> QED BY <2>2, <2>3, <2>4
<1>2. ASSUME DueAndAnswers, [Next]_vars
      PROVE  [\A w \in Workers :
                LET m == req[w].mv
                IN  /\ pc[w] = "commit" /\ out'[w] = "executed" /\ req[w].act \in Catalog
                    /\ Cancel \notin Done(m) /\ ~Drift(status[m], Done(m))
                    => /\ ~Drift(status[m], Done(m))'
                       /\ \/ status'[m] = status[m]
                          \/ status[m] \in ForwardFrom[status'[m]]]_vars
  BY <1>1, <1>2 DEF Executed
<1> QED BY <1>2, DueAndAnswersAlways, PTL DEF Spec, ExecutingKeepsAgreement

\* As long as only the endpoint executes steps and nobody edits the column, column
\* and log tell the same story whenever no transaction is under way, up to a
\* cancellation, by the driver or by the office.
InSync ==
    \A m \in Movements : Cancel \notin Done(m) => ~Drift(status[m], Done(m))

\* The side effects of a step are in the transaction of its log, and the policy
\* that let it pass fixes what the column was.
THEOREM ColumnsFollowTheLog ==
    ASSUME Serialised, EditStatuses = {} PROVE Spec => []InSync
<1>1. Init => InSync
  <2>1. "complete" \notin Flags({}) /\ PeakImpact({}) = NoStatus
    BY DEF Flags, PeakImpact
  <2> QED BY <2>1 DEF Init, InSync, Done, Drift
<1>2. ASSUME DueAndAnswers, InSync, [Next]_vars PROVE InSync'
  <2>0. TypeInv
    BY <1>2 DEF DueAndAnswers, Answers
  <2> SUFFICES ASSUME NEW m \in Movements, Cancel \notin Done(m)'
               PROVE  ~Drift(status'[m], Done(m)')
    BY DEF InSync, Drift
  <2>1. Cancel \notin Done(m) /\ ~Drift(status[m], Done(m)) /\ status[m] \in Statuses
    BY <1>2, <2>0, LogsGrow DEF InSync, Done, TypeInv, TypeOK
  <2>2. CASE status'[m] = status[m] /\ Done(m)' = Done(m)
    BY <2>1, <2>2
  <2>3. ASSUME NEW w \in Workers, Executed(w) PROVE ~Drift(status'[m], Done(m)')
    <3>1. /\ Adds(req[w].mv, req[w].act, req[w].key)
          /\ req[w].act \in Catalog \cup {Cancel}
          /\ status' = [status EXCEPT ![req[w].mv] =
                           ColumnAfter(req[w].act, snap[w].status, @)]
      BY <1>2, <2>3, ExecutedSaves, ExecuteAssumption
         DEF Executes, DueAndAnswers, Requests
    <3>2. Done(m)' = IF m = req[w].mv THEN Done(m) \cup {req[w].act} ELSE Done(m)
      BY <3>1, DoneAdds
    <3>3. CASE m # req[w].mv
      BY <2>0, <2>1, <3>1, <3>2, <3>3 DEF TypeInv, TypeOK
    <3>4. CASE m = req[w].mv
      <4>1. req[w].act \in Catalog
        BY <3>1, <3>2, <3>4
      <4>2. status'[m] = ColumnAfter(req[w].act, snap[w].status, status[m])
        BY <2>0, <3>1, <3>4 DEF TypeInv, TypeOK
      <4>3. ~Drift(ColumnAfter(req[w].act, snap[w].status, status[m]),
                   Done(m) \cup {req[w].act})
        BY <1>2, <2>1, <2>3, <3>4, <4>1, ExecutedIsDue, DueKeepsAgreement
           DEF Serialised
      <4> QED BY <3>2, <3>4, <4>2, <4>3
    <3> QED BY <3>3, <3>4
  <2>4. ASSUME NEW p \in Portals, PortalSave(p) PROVE ~Drift(status'[m], Done(m)')
    <3>1. /\ Adds(entry[p].mv, entry[p].act, entry[p].key)
          /\ entry[p].act = Cancel
          /\ \A x \in Movements : x # entry[p].mv => status'[x] = status[x]
      BY <2>0, <2>4, ExecuteAssumption
         DEF PortalSave, Adds, TypeInv, TypeOK, Entries, Serialised
    <3>2. Done(m)' = IF m = entry[p].mv THEN Done(m) \cup {Cancel} ELSE Done(m)
      BY <3>1, DoneAdds
    <3> QED BY <2>1, <3>1, <3>2
  <2>5. ASSUME ~\E w \in Workers : Executed(w), ~\E p \in Portals : PortalSave(p)
        PROVE  UNCHANGED <<status, logs>>
    <3>1. ASSUME NEW w \in Workers, Commit(w) PROVE UNCHANGED <<status, logs>>
      <4>1. pc[w] = "commit" /\ out'[w] # "executed"
        BY <2>5, <3>1 DEF Commit, Executed
      <4>2. ASSUME Answer(w, "executed", nextNo) PROVE out'[w] = "executed"
        BY <2>0, <4>2 DEF Answer, TypeInv, TypeOK
      <4> QED BY <3>1, <4>1, <4>2 DEF Commit, Refuse, database
    <3> QED BY <1>2, <2>5, <3>1
            DEF Next, Work, Compose, Forget, Receive, Reconcile, Detect, Validate,
                Lock, Kernel, Respond, Crash, PortalCheck, PortalReuse, PortalRespond,
                PortalEdit, Refuse, database, vars
  <2> QED BY <2>2, <2>3, <2>4, <2>5 DEF Done
<1>3. EntityLocking
  BY DEF Serialised
<1> QED BY <1>1, <1>2, <1>3, DueAndAnswersAlways, PTL DEF Spec

\* What the app shows as completed stays completed, with row locking or without,
\* whatever the portal logs and saves: completion is read off the log, and nothing
\* is taken out of the log.
THEOREM CompletedIsForGood == Spec => CompletedStays
<1>1. ASSUME TypeInv, TypeInv', [Next]_vars
      PROVE  [\A m \in Movements :
                Authoritative(status[m], Done(m)) = "Completed" =>
                    Authoritative(status[m], Done(m))' = "Completed"]_vars
  <2>1. ASSUME NEW m \in Movements PROVE Done(m) \subseteq Done(m)'
    BY <1>1, LogsGrow DEF Done
  <2>2. ASSUME NEW m \in Movements
        PROVE  /\ Done(m) \in SUBSET Actions /\ Done(m)' \in SUBSET Actions
    BY <1>1 DEF Done, TypeInv, TypeOK
  <2>3. ASSUME NEW m \in Movements
        PROVE  /\ Authoritative(status[m], Done(m)) = "Completed" <=> "complete" \in Done(m)
               /\ Authoritative(status[m], Done(m))' = Authoritative(status'[m], Done(m)')
               /\ Authoritative(status'[m], Done(m)') = "Completed" <=> "complete" \in Done(m)'
    <3>1. Authoritative(status[m], Done(m)) = "Completed" <=> "complete" \in Done(m)
      BY <2>2, CompletedIsLogged
    <3>2. Authoritative(status'[m], Done(m)') = "Completed" <=> "complete" \in Done(m)'
      BY <2>2, CompletedIsLogged
    <3>3. Authoritative(status[m], Done(m))' = Authoritative(status'[m], Done(m)')
      BY DEF Authoritative
    <3> QED BY <3>1, <3>2, <3>3
  <2> QED BY <2>1, <2>3
<1> QED BY <1>1, TypeInit, TypeNext, PTL DEF Spec, CompletedStays
=============================================================================
