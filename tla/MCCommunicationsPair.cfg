SPECIFICATION Spec
CONSTANTS
  rider = rider
  People = {rider}
  Messages = {m1, m2}
  Keys = {k1, k2}
  ClientIds = {i1, i2}
  Calls = {c1, c2}
  None = None
  Requests <- SomeRequests
  Contacts <- SomeContacts
  Blockable = {"PUSH"}
  Breakable = {"SMS"}
  Observations <- SomeObservations
  Horizon = 2
SYMMETRY Interchangeable
INVARIANTS
  AcknowledgementsAreTrue
  DecidersAgreeOnCommonFacts
PROPERTY LateObservationChangesNothing
