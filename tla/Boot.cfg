CONSTANTS
    l1 = l1
    l2 = l2
    p1 = p1
    p2 = p2
    Pinned = Pinned
    Other = Other
    NoOne = NoOne
    Launchers <- McLaunchers
    Pieces <- McPieces
    NumCandidates = 2
    Guarded = TRUE
    MaxLaunches = 3
SYMMETRY McSymmetry
SPECIFICATION Spec
INVARIANTS MigrationIsWhole LegacyNotStranded WidevineIsWhole
PROPERTY ProfileKept
CHECK_DEADLOCK FALSE
