SPECIFICATION HandoverSpec
CONSTANTS
  Bookings = {b1}
  Drivers = {d1}
  MaxAttempts = 1
  None = None
  Operators = {o1, o2}
  TaskLife = 2
  Horizon = 3
SYMMETRY Interchangeable
INVARIANTS
  OffersAndAnswers
  HandoverRecordsAgree
  TaskIsExclusiveAndBounded
PROPERTY ClearanceWaitsForHandover
