CONSTANTS
    s1 = s1
    s2 = s2
    Stations <- TwoStations
    NoStation = none
    Top = 1
    Cases = {"writeError", "headerError", "readError", "crash"}
SPECIFICATION Spec
INVARIANTS LocksKnown HeaderNotAhead
SYMMETRY Symmetry
