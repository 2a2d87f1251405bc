SPECIFICATION Spec
CONSTANTS
  Captures = {"c1", "c2"}
  Files = {"front", "clip"}
  Contents <- ApartOrAgain
  Keys = {k1, k2}
  Phones = {p1, p2}
  Executors = {x1, x2}
  PodSteps = 2
  Nobody = nobody
  NoBundle = nobundle
  NoLog = nolog
INVARIANTS
  TypeOK
  ReadyIsWhole
  EvidenceStays
PROPERTIES
  RefinesEvidence
SYMMETRY Interchangeable
