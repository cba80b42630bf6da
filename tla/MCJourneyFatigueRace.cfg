SPECIFICATION Spec
CONSTANTS
  Bookings = {b1}
  Drivers = {d1}
  MaxAttempts = 2
  None = None
INVARIANT FatiguedJourneyIsHeld
