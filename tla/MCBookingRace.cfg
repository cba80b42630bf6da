SPECIFICATION Spec
CONSTANTS
  b1 = b1
  b2 = b2
  k1 = k1
  k2 = k2
  Bookings = {b1}
  Quotes = {q1, q2}
  Keys = {k1, k2}
  Workers = {w1, w2}
  KeyScope <- OneBookingKeys
  None = None
SYMMETRY Interchangeable
INVARIANTS
  ConfirmedHasOwnAgreement
  AcceptedBookingIsResumable
PROPERTIES
  AcceptedQuoteIsFinal
  ImplementsSpine
CHECK_DEADLOCK FALSE
