\* Every question to every component that only answers, over small worlds.
CONSTANTS
  Paired = FALSE
  Undecided = FALSE
  Dynamic = FALSE
  TwinBases = FALSE
  Refiltered = FALSE
  LostReports = FALSE
  FailedPasses = FALSE
  Undiffable = FALSE
  AllSymbols = FALSE
  Oversized = FALSE
SPECIFICATION Spec
INVARIANTS
  ResolvedIsCallable
  TypeEdgesAreSettled
  DiffsAreExact
  ImpactIsExhaustive
  ClustersAreConnected
  ClaimVerdictsHold
  CargoIsRight
  InfraIsExact
  WalkIsHonest
  SearchPagesAreComplete
CHECK_DEADLOCK FALSE
