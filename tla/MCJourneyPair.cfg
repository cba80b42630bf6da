SPECIFICATION FairSpec
CONSTANTS
  Bookings = {b1, b2}
  Drivers = {d1}
  MaxAttempts = 2
  None = None
INVARIANTS
  RecordsAgree
  StartIsProtected
  CompletionIsClear
  AssignedWhileActive
  HeldDriverStaysFatigued
PROPERTIES
  IncidentIsFinal
  MilestonesOnlyAdvance
  StartedJourneyEnds
