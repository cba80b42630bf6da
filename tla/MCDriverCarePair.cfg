SPECIFICATION Spec
CONSTANTS
    Requests = {r1, r2}
    Keys = {k1}
    Subjects = {s1, s2}
    Journeys = {j1}
    None = None
    MaxVersion = 3
SYMMETRY Symmetry
INVARIANTS
    OneEffectPerKey
    AppealsCountedAreListed
PROPERTY ReconciledSnapshotIsCurrent
