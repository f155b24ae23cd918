CONSTANTS
    s1 = s1
    s2 = s2
    Stations <- TwoStations
    NoStation = none
    Top = 2
    Cases = {}
SPECIFICATION FairSpec
INVARIANTS HotHeld HeaderTrue
PROPERTIES TableSpec Returns
