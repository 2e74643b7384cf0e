SPECIFICATION Spec
CONSTANTS
  MaxRps = 40
  MaxCapacity = 12
INVARIANTS
  DemandCovered
  SharesFit
  RateConserved
