\* Two overlapping requests with two keys for one Booking of two, two intents
\* and one payment, whose provider side does all that the schema accepts.
CONSTANTS
    Bookings = {b1, b2}
    Intents = {i1, i2}
    Payments = {p1}
    Keys = {k1, k2}
    Requests = {r1, r2}
    None = None
    Fare = 1
SPECIFICATION Spec
INVARIANTS
    OneOpenIntentPerBooking
PROPERTIES
    CapturedMoneyStays
SYMMETRY Symmetry
CHECK_DEADLOCK FALSE
