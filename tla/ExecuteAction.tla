--------------------------- MODULE ExecuteAction ---------------------------
(***************************************************************************)
(* The execute endpoint of the driver's app for empty moves, with the two  *)
(* portal screens that write the same rows: the action log form and the    *)
(* movement form.                                                          *)
(*                                                                         *)
(* A request of the app is worked off by a web worker in one database      *)
(* transaction (READ COMMITTED): it resolves the movement and checks that  *)
(* the driver may work on it, reconciles column and log into a snapshot,   *)
(* looks for a replay, validates against the snapshot, locks the movement  *)
(* row, and only then runs the kernel, which validates again and writes.   *)
(* Each statement may see what other transactions committed before it, so  *)
(* each is a step of its own.  A request may be lost, answered into a dead *)
(* connection, sent again, or be worked off twice at the same time.        *)
(***************************************************************************)
EXTENDS EmptyMoveWorkflow

CONSTANTS
    Movements,       \* the empty moves of one driver
    Workers,         \* web workers that serve the execute endpoint
    Portals,         \* web workers that serve the portal's action log form
    Keys,            \* client_action_id values
    FormKeys,        \* the uuids the portal writes into its action log forms
    Nobody,          \* no worker holds the lock
    Nothing,         \* no request, no log number, no action, no column
    DriverActions,   \* the actions visible to the app
    AdminActions,    \* the actions entered in the portal's action log
    EditStatuses,    \* the values the movement form saves
    EntityLocking,   \* MOBILE_EXECUTION_ENTITY_LOCKING
    MaxPending,      \* bound: requests the app may still send
    MaxForms         \* bound: action logs written by the portal

ASSUME ExecuteAssumption ==
    /\ DriverActions \subseteq Catalog \cup {Cancel}
    /\ AdminActions \subseteq Catalog \cup {Cancel}
    /\ EditStatuses \subseteq Statuses
    /\ EntityLocking \in BOOLEAN
    /\ MaxPending \in Nat /\ MaxForms \in Nat
    /\ Nobody \notin Workers
    /\ Nothing \notin Nat \cup {"executed", "replayed"}
    /\ Keys \cap FormKeys = {}

VARIABLES
    status,    \* TenantTruckMovementLog.status of each movement
    logs,      \* the rows of TenantOperationActionLog
    nextNo,    \* the next number of the action log sequence
    lock,      \* the worker that holds the row lock of each movement
    sent,      \* requests the app may still send; each may arrive many times
    pc,        \* where each worker is
    req,       \* the request each worker serves
    seen,      \* the movement's column as the worker loaded it
    snap,      \* the worker's reconciled snapshot
    out,       \* the answer the worker is about to give
    named,     \* the number of the log the answer names
    entry      \* the action log form each portal worker is working off

database == <<status, logs, nextNo>>
local    == <<req, seen, snap, out, named>>
vars     == <<status, logs, nextNo, lock, sent, pc, req, seen, snap, out,
              named, entry>>

-----------------------------------------------------------------------------

\* The actions logged on movement m.
Done(m) == {r.act : r \in {l \in logs : l.mv = m}}

\* The reconciled snapshot of a movement, and what the app is shown of it.
View(c, done) ==
    LET auth == Authoritative(c, done)
    IN  [status  |-> auth,
         drift   |-> Drift(c, done),
         stage   |-> Stage(auth, done),
         allowed |-> {a \in DriverActions : PolicyAllowed(a, auth, done)}]

Views == [status : Statuses, drift : BOOLEAN, stage : Stages,
          allowed : SUBSET DriverActions]

\* The digest workflow_version of a snapshot; the status is no part of it.
Version(view) == [drift |-> view.drift, stage |-> view.stage, allowed |-> view.allowed]

Versions == [drift : BOOLEAN, stage : Stages, allowed : SUBSET DriverActions]

Requests == [mv : Movements, act : DriverActions, key : Keys, version : Versions]

Entries == [mv : Movements, act : AdminActions, key : FormKeys,
            named : Nat \cup {Nothing}]

Log(no, m, a, k) == [no |-> no, mv |-> m, act |-> a, key |-> k]

\* Mutant: a log of the same action counts as one of the same request.
ReplayOfAction(r) == {l \in logs : l.act = r.act /\ l.mv = r.mv}

\* The log a retry of request r is answered with, if there is one.
Replay(r) == {l \in logs : l.key = r.key /\ l.mv = r.mv}

Refusals == {"job_inactive", "scope_mismatch", "action_mismatch", "stale",
             "forbidden_action", "validation_failed", "server_error"}
Outcomes == Refusals \cup {"executed", "replayed"}

Init ==
    /\ status = [m \in Movements |-> "Scheduled"]
    /\ logs = {}
    /\ nextNo = 1
    /\ lock = [m \in Movements |-> Nobody]
    /\ sent = {}
    /\ pc = [w \in Workers |-> "idle"]
    /\ req = [w \in Workers |-> Nothing]
    /\ seen = [w \in Workers |-> Nothing]
    /\ snap = [w \in Workers |-> Nothing]
    /\ out = [w \in Workers |-> Nothing]
    /\ named = [w \in Workers |-> Nothing]
    /\ entry = [p \in Portals |-> Nothing]

-----------------------------------------------------------------------------
(***************************************************************************)
(* The app                                                                 *)
(***************************************************************************)

\* The driver taps an action on the screen the app has just loaded.
Compose(m, a, k) ==
    /\ Cardinality(sent) < MaxPending
    /\ sent' = sent \cup {[mv |-> m, act |-> a, key |-> k,
                           version |-> Version(View(status[m], Done(m)))]}
    /\ UNCHANGED <<database, lock, pc, local, entry>>

\* The app has an answer, or gives up: it does not send the request again.
Forget(r) ==
    /\ sent' = sent \ {r}
    /\ UNCHANGED <<database, lock, pc, local, entry>>

-----------------------------------------------------------------------------
(***************************************************************************)
(* The execute endpoint                                                    *)
(***************************************************************************)

\* Mutant: a refusal leaves the transaction, and its lock, open.
AnswerKeepingLock(w, outcome, no) ==
    /\ pc' = [pc EXCEPT ![w] = "answer"]
    /\ out' = [out EXCEPT ![w] = outcome]
    /\ named' = [named EXCEPT ![w] = no]
    /\ lock' = [m \in Movements |->
                   IF lock[m] = w /\ outcome = "executed" THEN Nobody ELSE lock[m]]

\* Worker w answers: the transaction is over and its lock is released.
Answer(w, outcome, no) ==
    /\ pc' = [pc EXCEPT ![w] = "answer"]
    /\ out' = [out EXCEPT ![w] = outcome]
    /\ named' = [named EXCEPT ![w] = no]
    /\ lock' = [m \in Movements |-> IF lock[m] = w THEN Nobody ELSE lock[m]]

Refuse(w, refusal) ==
    Answer(w, refusal, Nothing) /\ UNCHANGED <<database, sent, req, seen, snap, entry>>

Proceed(w, step) == pc' = [pc EXCEPT ![w] = step] /\ UNCHANGED <<out, named>>

\* Take a request and load its movement; a cancelled one is not accessible.
Receive(w, r) ==
    /\ pc[w] = "idle"
    /\ req' = [req EXCEPT ![w] = r]
    /\ \/ /\ status[r.mv] = "Cancelled"
          /\ Answer(w, "job_inactive", Nothing)
          /\ UNCHANGED seen
       \/ /\ status[r.mv] # "Cancelled"
          /\ seen' = [seen EXCEPT ![w] = status[r.mv]]
          /\ Proceed(w, "reconcile")
          /\ UNCHANGED lock
    /\ UNCHANGED <<database, sent, snap, entry>>

\* Read the logs and derive the snapshot the rest of the pipeline trusts.
Reconcile(w) ==
    /\ pc[w] = "reconcile"
    /\ snap' = [snap EXCEPT ![w] = View(seen[w], Done(req[w].mv))]
    /\ Proceed(w, "detect")
    /\ UNCHANGED <<database, lock, sent, req, seen, entry>>

\* An action log with the request's key makes this a retry, or a misuse.
Detect(w) ==
    /\ pc[w] = "detect"
    /\ LET r == req[w]
       IN  \/ \E l \in Replay(r) :
                 /\ l.act = r.act
                 /\ Answer(w, "replayed", l.no)
                 /\ UNCHANGED <<database, sent, req, seen, snap, entry>>
           \/ /\ \E l \in Replay(r) : l.act # r.act
              /\ Refuse(w, "action_mismatch")
           \/ /\ Replay(r) = {}
              /\ \E l \in logs : l.key = r.key
              /\ Refuse(w, "scope_mismatch")
           \/ /\ \A l \in logs : l.key # r.key
              /\ Proceed(w, "validate")
              /\ UNCHANGED <<database, lock, sent, req, seen, snap, entry>>

\* The client's version must be the snapshot's, the policy must allow the action
\* on the logs of now, and the snapshot must list it.
Validate(w) ==
    /\ pc[w] = "validate"
    /\ LET r == req[w]
           fine == /\ PolicyAllowed(r.act, snap[w].status, Done(r.mv))
                   /\ r.act \in snap[w].allowed
       IN  \/ /\ r.version # Version(snap[w])
              /\ Refuse(w, "stale")
           \/ /\ r.version = Version(snap[w])
              /\ ~fine
              /\ Refuse(w, "forbidden_action")
           \/ /\ r.version = Version(snap[w])
              /\ fine
              /\ Proceed(w, "lock")
              /\ UNCHANGED <<database, lock, sent, req, seen, snap, entry>>

\* Mutant: the row is read without FOR UPDATE.
LockSkipped(w) ==
    /\ pc[w] = "lock"
    /\ Proceed(w, "kernel")
    /\ UNCHANGED <<database, lock, sent, req, seen, snap, entry>>

\* SELECT ... FOR UPDATE of the movement, unless locking is switched off.
Lock(w) ==
    /\ pc[w] = "lock"
    /\ LET m == req[w].mv
       IN  \/ /\ EntityLocking
              /\ lock[m] = Nobody
              /\ lock' = [lock EXCEPT ![m] = w]
           \/ /\ ~EntityLocking
              /\ UNCHANGED lock
    /\ Proceed(w, "kernel")
    /\ UNCHANGED <<database, sent, req, seen, snap, entry>>

\* Mutant: the kernel trusts the validation before the lock.
KernelTrusting(w) ==
    /\ pc[w] = "kernel"
    /\ Replay(req[w]) = {}
    /\ Proceed(w, "commit")
    /\ UNCHANGED <<database, lock, sent, req, seen, snap, entry>>

\* The kernel validates under the snapshot's status and only then looks for
\* a log of the same key on this movement.
Kernel(w) ==
    /\ pc[w] = "kernel"
    /\ LET r == req[w]
           allowed == StandaloneOrAllowed(r.act, snap[w].status, Done(r.mv))
       IN  \/ /\ ~allowed
              /\ Refuse(w, "validation_failed")
           \/ /\ allowed
              /\ \E l \in Replay(r) : Answer(w, "replayed", l.no)
              /\ UNCHANGED <<database, sent, req, seen, snap, entry>>
           \/ /\ allowed
              /\ Replay(r) = {}
              /\ Proceed(w, "commit")
              /\ UNCHANGED <<database, lock, sent, req, seen, snap, entry>>

\* Save the log and its side effects and commit.  The key is unique: if
\* another transaction has used it the kernel answers with the log it finds
\* on this movement, or fails.
Commit(w) ==
    /\ pc[w] = "commit"
    /\ LET r == req[w]
       IN  \/ /\ \A l \in logs : l.key # r.key
              /\ lock[r.mv] \in {w, Nobody}
              /\ logs' = logs \cup {Log(nextNo, r.mv, r.act, r.key)}
              /\ nextNo' = nextNo + 1
              /\ status' = [status EXCEPT ![r.mv] =
                               ColumnAfter(r.act, snap[w].status, @)]
              /\ Answer(w, "executed", nextNo)
              /\ UNCHANGED <<sent, req, seen, snap, entry>>
           \/ /\ \E l \in Replay(r) : Answer(w, "replayed", l.no)
              /\ UNCHANGED <<database, sent, req, seen, snap, entry>>
           \/ /\ Replay(r) = {}
              /\ \E l \in logs : l.key = r.key
              /\ Refuse(w, "server_error")

\* The answer leaves the worker; whether it arrives is not known.
Respond(w) ==
    /\ pc[w] = "answer"
    /\ pc' = [pc EXCEPT ![w] = "idle"]
    /\ req' = [req EXCEPT ![w] = Nothing]
    /\ seen' = [seen EXCEPT ![w] = Nothing]
    /\ snap' = [snap EXCEPT ![w] = Nothing]
    /\ out' = [out EXCEPT ![w] = Nothing]
    /\ named' = [named EXCEPT ![w] = Nothing]
    /\ UNCHANGED <<database, lock, sent, entry>>

\* The worker dies before its commit; the database rolls back.
Crash(w) ==
    /\ pc[w] \notin {"idle", "answer"}
    /\ pc' = [pc EXCEPT ![w] = "idle"]
    /\ req' = [req EXCEPT ![w] = Nothing]
    /\ seen' = [seen EXCEPT ![w] = Nothing]
    /\ snap' = [snap EXCEPT ![w] = Nothing]
    /\ lock' = [m \in Movements |-> IF lock[m] = w THEN Nobody ELSE lock[m]]
    /\ UNCHANGED <<database, sent, out, named, entry>>

-----------------------------------------------------------------------------
(***************************************************************************)
(* The portal                                                              *)
(***************************************************************************)

\* The action log form is validated against the raw column, before the
\* transaction that saves it, and without a lock.
PortalCheck(p, m, a, k) ==
    /\ entry[p] = Nothing
    /\ Cardinality({l \in logs : l.key \in FormKeys}) < MaxForms
    /\ StandaloneOrAllowed(a, status[m], Done(m))
    /\ entry' = [entry EXCEPT ![p] = [mv |-> m, act |-> a, key |-> k,
                                      named |-> Nothing]]
    /\ UNCHANGED <<database, lock, sent, pc, local>>

\* The form's key has been used: nothing is saved, and the answer names the
\* log that used it, whatever movement that log is on.
PortalReuse(p) ==
    /\ entry[p] # Nothing /\ entry[p].named = Nothing
    /\ \E l \in logs :
          /\ l.key = entry[p].key
          /\ entry' = [entry EXCEPT ![p].named = l.no]
    /\ UNCHANGED <<database, lock, sent, pc, local>>

\* The save and its side effects; its writes wait for a row lock.
PortalSave(p) ==
    /\ entry[p] # Nothing /\ entry[p].named = Nothing
    /\ lock[entry[p].mv] = Nobody
    /\ \A l \in logs : l.key # entry[p].key
    /\ LET m == entry[p].mv
           a == entry[p].act
       IN  /\ logs' = logs \cup {Log(nextNo, m, a, entry[p].key)}
           /\ nextNo' = nextNo + 1
           /\ status' = [status EXCEPT ![m] =
                            IF Impact[a] = NoStatus THEN @ ELSE Impact[a]]
    /\ entry' = [entry EXCEPT ![p].named = nextNo]
    /\ UNCHANGED <<lock, sent, pc, local>>

PortalRespond(p) ==
    /\ entry[p] # Nothing /\ entry[p].named # Nothing
    /\ entry' = [entry EXCEPT ![p] = Nothing]
    /\ UNCHANGED <<database, lock, sent, pc, local>>

\* The movement form saves the status it was filled with.
PortalEdit(m, s) ==
    /\ lock[m] = Nobody
    /\ status' = [status EXCEPT ![m] = s]
    /\ UNCHANGED <<logs, nextNo, lock, sent, pc, local, entry>>

-----------------------------------------------------------------------------

Work(w) ==
    \/ Reconcile(w) \/ Detect(w) \/ Validate(w)
    \/ Lock(w) \/ Kernel(w) \/ Commit(w) \/ Respond(w)

Next ==
    \/ \E m \in Movements, a \in DriverActions, k \in Keys : Compose(m, a, k)
    \/ \E r \in sent : Forget(r)
    \/ \E w \in Workers, r \in sent : Receive(w, r)
    \/ \E w \in Workers : Work(w) \/ Crash(w)
    \/ \E p \in Portals, m \in Movements, a \in AdminActions, k \in FormKeys :
          PortalCheck(p, m, a, k)
    \/ \E p \in Portals : PortalReuse(p) \/ PortalSave(p) \/ PortalRespond(p)
    \/ \E m \in Movements, s \in EditStatuses : PortalEdit(m, s)

Spec == Init /\ [][Next]_vars

\* A web worker that has taken a request goes on with it; a lock is granted
\* to each of its waiters in turn.  Nothing obliges a driver or a dispatcher
\* to do anything.
FairSpec ==
    Spec /\ \A w \in Workers : WF_vars(Work(w)) /\ SF_vars(Lock(w))
-----------------------------------------------------------------------------
(***************************************************************************)
(* Properties                                                              *)
(***************************************************************************)

TypeOK ==
    /\ status \in [Movements -> Statuses]
    /\ logs \in SUBSET [no : Nat, mv : Movements, act : Actions,
                        key : Keys \cup FormKeys]
    /\ nextNo \in Nat
    /\ lock \in [Movements -> Workers \cup {Nobody}]
    /\ sent \in SUBSET Requests
    /\ pc \in [Workers -> {"idle", "reconcile", "detect", "validate",
                          "lock", "kernel", "commit", "answer"}]
    /\ req \in [Workers -> Requests \cup {Nothing}]
    /\ seen \in [Workers -> Statuses \cup {Nothing}]
    /\ snap \in [Workers -> Views \cup {Nothing}]
    /\ out \in [Workers -> Outcomes \cup {Nothing}]
    /\ named \in [Workers -> Nat \cup {Nothing}]
    /\ entry \in [Portals -> Entries \cup {Nothing}]

\* The log of a movement holds the steps of the catalog in order: every step
\* comes after all the steps before it, however many requests, retries,
\* workers and action log forms were at it, with the row lock or without it,
\* and whatever the movement form saved in between.
MilestonesInOrder ==
    \A l \in logs : l.act \in Catalog =>
        \A b \in Catalog : Order[b] < Order[l.act] =>
            \E k \in logs : k.mv = l.mv /\ k.act = b /\ k.no < l.no

\* No step of the catalog is logged twice on a movement, not by a double tap,
\* not by a retry that overtakes its original, not by two workers.
MilestonesOnce ==
    \A k, l \in logs :
        k.mv = l.mv /\ k.act = l.act /\ l.act \in Catalog => k = l

\* A request that is answered with success has been executed: the answer
\* names a log that bears the request's key, on the request's movement, with
\* the row lock or without it.
AnswerNamesItsKey ==
    \A w \in Workers : out[w] \in {"executed", "replayed"} =>
        \E l \in logs : l.no = named[w] /\ l.mv = req[w].mv /\ l.key = req[w].key

\* The app executes only what it would show the driver at that very moment:
\* nothing that another request, or the movement form, has done since the
\* driver's screen was loaded makes a step that is no longer due go through.
ExecutesWhatIsDue ==
    [][\A w \in Workers :
          pc[w] = "commit" /\ out'[w] = "executed" =>
              LET m == req[w].mv
              IN  req[w].act \in View(status[m], Done(m)).allowed]_vars

\* Once the driver's app shows a movement as completed it stays so, whatever
\* the portal writes to the column or to the log.
CompletedStays ==
    [][\A m \in Movements :
          Authoritative(status[m], Done(m)) = "Completed" =>
              Authoritative(status[m], Done(m))' = "Completed"]_vars

\* Executing a step keeps column and log together: if they agreed when it was
\* committed they agree after it, and the column has only moved forward, though
\* the status it was decided under was read before the lock and others may have
\* written both since.  Only a cancellation is not noticed.
ExecutingKeepsAgreement ==
    [][\A w \in Workers :
          LET m == req[w].mv
          IN  /\ pc[w] = "commit" /\ out'[w] = "executed" /\ req[w].act \in Catalog
              /\ Cancel \notin Done(m) /\ ~Drift(status[m], Done(m))
              => /\ ~Drift(status[m], Done(m))'
                 /\ \/ status'[m] = status[m]
                    \/ status[m] \in ForwardFrom[status'[m]]]_vars

\* Whoever holds the row lock of a movement is a worker inside its
\* transaction on that movement, so that a lock is never left behind.
LockIsHeldInTransaction ==
    \A m \in Movements, w \in Workers :
        lock[m] = w <=> EntityLocking /\ pc[w] \in {"kernel", "commit"}
                        /\ req[w].mv = m

\* Every request a worker has taken is answered, or dies with the worker:
\* no worker waits for a row lock for ever.
EveryRequestIsAnswered ==
    \A w \in Workers : pc[w] # "idle" ~> pc[w] = "idle"

\* "Cancelled movements are not open for driver execution."
CancelledIsNotExecuted ==
    \A w \in Workers : pc[w] = "commit" => status[req[w].mv] # "Cancelled"

\* The steps of the catalog logged on movement m, with their numbers.
Steps(m) ==
    {[no |-> l.no, act |-> l.act] :
        l \in {k \in logs : k.mv = m /\ k.act \in Catalog}}

\* The endpoint implements the lifecycle: every commit of a step is the next
\* step of the catalog, under a later number, and all else is a stutter.
Lifecycle == INSTANCE MovementLifecycle
                WITH history <- [m \in Movements |-> Steps(m)]

RefinesLifecycle == Lifecycle!Spec
=============================================================================
