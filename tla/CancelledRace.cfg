SPECIFICATION Spec
CONSTANTS
  Catalog <- ThreeSteps
  Movements = {m1}
  Workers = {w1, w2}
  Portals <- None
  Keys = {k1, k2, k3}
  FormKeys <- None
  Nobody = nobody
  Nothing = nothing
  DriverActions <- ThreeSteps
  AdminActions <- None
  EditStatuses <- CancelOnly
  EntityLocking = TRUE
  MaxPending = 1
  MaxForms = 0
INVARIANTS
  CancelledIsNotExecuted
SYMMETRY Interchangeable
