SPECIFICATION Spec
CONSTANTS
  Catalog <- FourSteps
  Movements = {m1}
  Workers = {w1}
  Portals = {q1}
  Keys = {k1}
  FormKeys = {f1, f2, f3, f4}
  Nobody = nobody
  Nothing = nothing
  DriverActions <- WithCancel
  AdminActions <- WithCancel
  EditStatuses <- None
  EntityLocking = TRUE
  MaxPending = 1
  MaxForms = 4
INVARIANTS
  MilestonesInOrder
PROPERTIES
  CompletedStays
  ExecutingKeepsAgreement
SYMMETRY Interchangeable
