SPECIFICATION Spec
CONSTANTS
  Bookings = {b1, b2}
  Drivers = {d1, d2}
  WaveSize = 2
  DisclosureComplete = TRUE
  None = None
SYMMETRY Interchangeable
INVARIANTS
  ShiftFollowsAvailability
  AssignmentAgreesEverywhere
PROPERTIES
  AssignsOnlyWorkingDrivers
  ClosedOfferIsFinal
