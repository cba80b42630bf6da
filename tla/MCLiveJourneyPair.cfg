CONSTANTS
  Reports = {r1, r2, r3}
  People = {booker, passenger}
  Driver = driver
  Keys = {k1}
  Readings <- SomeReadings
  Signals <- SomeSignals
  DropOff = 2
  MaxSpeed = 1
  MaxAge = 1
  MaxSkew = 0
  PickupRadius = 0
  ApproachRadius = 1
  FinalRadius = 0
  Horizon = 3
  MaxRequests = 2
SPECIFICATION Spec
SYMMETRY SameToAll
CHECK_DEADLOCK FALSE
INVARIANTS
  PlausiblePathIsPossible
  CompletionIsWitnessed
  ShownLocationCounts
  SignalIsNotPlayedDown
  OneRouteChangePerVersion
