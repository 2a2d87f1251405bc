SPECIFICATION FairSpec
CONSTANTS
  Catalog <- ThreeSteps
  Movements = {m1, m2}
  Workers = {w1, w2}
  Portals <- None
  Keys = {k1, k2}
  FormKeys <- None
  Nobody = nobody
  Nothing = nothing
  DriverActions <- OneStep
  AdminActions <- None
  EditStatuses <- None
  EntityLocking = TRUE
  MaxPending = 1
  MaxForms = 0
INVARIANTS
  AnswerNamesItsKey
  LockIsHeldInTransaction
PROPERTIES
  EveryRequestIsAnswered
