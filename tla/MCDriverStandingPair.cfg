SPECIFICATION StandingSpec
CONSTANTS
  StartKeys = {k1, k2}
  HighRisk <- AssessedServices
  ApplicationVersions = 6
  MaxChanges = 2
  NoAnswer = NoAnswer
SYMMETRY Interchangeable
CHECK_DEADLOCK FALSE
INVARIANTS
  ApplicationIsResumable
  PagesPromiseWhatDispatchKeeps
  StartLooksAgain
