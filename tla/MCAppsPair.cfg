\* Two Bookings, and two handlers of the app that overlap or are executed late.
CONSTANTS
    Bookings = {b1, b2}
    Nil = Nil
    Slots = {s1, s2}
    MaxJobs = 1
SPECIFICATION AppsSpec
INVARIANTS
    ConfirmedWithOwnQuote
    ScreenIsNeverAhead
SYMMETRY Symmetry
CHECK_DEADLOCK FALSE
