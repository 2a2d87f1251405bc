SPECIFICATION Spec
CONSTANTS
  Catalog <- ThreeSteps
  Movements = {m1}
  Workers = {w1, w2}
  Portals <- None
  Keys = {k1, k2}
  FormKeys <- None
  Nobody = nobody
  Nothing = nothing
  DriverActions <- FirstSteps
  AdminActions <- None
  EditStatuses <- Misleading
  EntityLocking = TRUE
  MaxPending = 1
  MaxForms = 0
INVARIANTS
  TypeOK
  MilestonesOnce
PROPERTIES
  ExecutesWhatIsDue
  RefinesLifecycle
SYMMETRY Interchangeable
