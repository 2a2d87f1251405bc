------------------------- MODULE EmptyMoveWorkflow -------------------------
(***************************************************************************)
(* The policy of an empty move (a truck movement without a shipment).      *)
(*                                                                         *)
(* A movement has a status column, and an append-only log of the actions   *)
(* recorded on it.  The code derives everything else from these two: the   *)
(* milestones reached, the execution stage, the status the driver's app is *)
(* shown (the authoritative status, which believes the log more than the   *)
(* column) and the actions that are allowed.  These are pure functions of  *)
(* the column c and of done, the set of actions that have a log on the     *)
(* movement; the movement has one driver, whose logs are all of them.      *)
(***************************************************************************)
EXTENDS Naturals, FiniteSets

CONSTANT Catalog    \* the empty-move rows of the tenant's Action Master

Milestones == {"start", "transit", "arrived", "complete"}
Cancel     == "cancel"             \* "Cancel Movement", a without-scope action
Actions    == Milestones \cup {Cancel}

ASSUME CatalogAssumption ==
    Catalog \in {Milestones, Milestones \ {"arrived"}}

Statuses == {"Scheduled", "InProgress", "Completed", "Cancelled"}
Terminal == {"Completed", "Cancelled"}
NoStatus == "none"
Stages   == {"created", "cancelled"} \cup Milestones

Order == [a \in Milestones |->
            CASE a = "start" -> 1 [] a = "transit" -> 2
              [] a = "arrived" -> 3 [] a = "complete" -> 4]

Rank == [s \in Statuses |->
            CASE s = "Scheduled" -> 10 [] s = "InProgress" -> 20
              [] s = "Completed" -> 70 [] s = "Cancelled" -> 99]

\* The column values from which a movement may go to status s.
ForwardFrom == [s \in Statuses |->
            CASE s = "Scheduled"   -> {}
              [] s = "InProgress" -> {"Scheduled"}
              [] s = "Completed"   -> {"InProgress", "Scheduled"}
              [] s = "Cancelled"   -> {"Scheduled", "InProgress"}]

\* The column value an action's Action Master row asks for.
Impact == [a \in Actions |->
            CASE a = "start"    -> "InProgress"
              [] a = "complete" -> "Completed"
              [] a = Cancel     -> "Cancelled"
              [] OTHER          -> NoStatus]

-----------------------------------------------------------------------------

\* The milestones reached: a later one implies the earlier ones.
Flags(done) ==
    {a \in Milestones : \E d \in done \cap Milestones : Order[a] <= Order[d]}

\* The furthest milestone reached, for the stage that is named after it.
StageOfFlags(flags) ==
    IF flags = {} THEN "created"
    ELSE CHOOSE a \in flags : \A b \in flags : Order[b] <= Order[a]

\* The execution stage; without a milestone a cancelled column is no stage.
Stage(c, done) ==
    IF c = "Cancelled" /\ Flags(done) # {} THEN "cancelled"
    ELSE StageOfFlags(Flags(done))

\* A column advanced without any milestone in the log counts as Scheduled.
WorkflowColumn(c, done) == IF Flags(done) = {} THEN "Scheduled" ELSE c

\* Mutant: a movement may be completed as soon as it is under way.
CompletionEarly(done) == "transit" \in Flags(done)

CompletionAllowed(done) ==
    \/ "arrived" \in Flags(done)
    \/ "transit" \in Flags(done) /\ "arrived" \notin Catalog

\* Mutant: a step in the middle only needs the movement to be started.
SequenceLoose(a, c, done) ==
    LET flags == Flags(done)
    IN  \/ a = "start" /\ Stage(c, done) = "created"
        \/ a \in {"transit", "arrived"} /\ a \notin flags
        \/ a = "complete" /\ "complete" \notin flags /\ CompletionAllowed(done)

SequenceAllowed(a, c, done) ==
    LET flags == Flags(done)
    IN  \/ a = "start" /\ Stage(c, done) = "created"
        \/ a = "transit" /\ "start" \in flags /\ "transit" \notin flags
        \/ a = "arrived" /\ "transit" \in flags /\ "arrived" \notin flags
        \/ a = "complete" /\ "complete" \notin flags /\ CompletionAllowed(done)

\* What the policy engine answers for action a.
PolicyAllowed(a, c, done) ==
    /\ a \notin done
    /\ \/ /\ a \in Catalog
          /\ WorkflowColumn(c, done) \notin Terminal
          /\ SequenceAllowed(a, c, done)
       \/ a = Cancel /\ WorkflowColumn(c, done) \in ForwardFrom["Cancelled"]

\* The kernel and the portal's action log lift the policy for actions outside
\* the sequence.
StandaloneOrAllowed(a, c, done) == a = Cancel \/ PolicyAllowed(a, c, done)

-----------------------------------------------------------------------------

\* The logged impact of the highest rank.
PeakImpact(done) ==
    LET hit == {Impact[a] : a \in done} \ {NoStatus}
    IN  IF hit = {} THEN NoStatus
        ELSE CHOOSE s \in hit : \A t \in hit : Rank[t] <= Rank[s]

\* Mutant: once there is a log the status follows the column.
AuthoritativeColumn(c, done) == IF done = {} THEN "Scheduled" ELSE c

\* The status the driver's app works with.
Authoritative(c, done) ==
    CASE done = {}                                       -> "Scheduled"
      [] done # {} /\ "complete" \in Flags(done)         -> "Completed"
      [] OTHER -> IF c = "Completed" THEN "InProgress" ELSE
                  IF PeakImpact(done) = NoStatus THEN c ELSE PeakImpact(done)

Drift(c, done) ==
    \/ done = {} /\ c # "Scheduled"
    \/ "complete" \in Flags(done) /\ c # "Completed"
    \/ "complete" \notin Flags(done) /\ c = "Completed"
    \/ PeakImpact(done) \notin {NoStatus, c}

\* Mutants: the impact is saved though there is none; the column is not saved.
ColumnAfterBlank(a, s, c)   == Impact[a]
ColumnAfterUnsaved(a, s, c) == c

\* The column after an action of the driver's app, when the status held in
\* memory is s: the action's impact, or In Progress for a first move.
ColumnAfter(a, s, c) ==
    IF Impact[a] # NoStatus THEN Impact[a]
    ELSE IF s = "Scheduled" THEN "InProgress" ELSE c
=============================================================================
