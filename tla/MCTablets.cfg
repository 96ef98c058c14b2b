SPECIFICATION Spec
CONSTANTS
    Galaxy = {g1, g2}
    Size = {"portrait", "landscape"}
    Paint = {"red"}
    MaxStrokes = 1
    Client = {a, b, c}
    Cooldown = 3
    MaxEntries = 2
    MaxTime = 6
    MaxDrift = 2
    Planet = {p, q}
    Setting = {f, g}
    ListSlot = {l1, l2}
    LookSlot = {s1, s2, s3}
    FirstYear = 2000
    LastYear = 2120
    Region = {"ca-qc", "ca-on", "ca-ab", "ca-bc", "ca-sk", "ca-nb", "ca-other"}
    Id = {i, j}
    Plain = {i}
    Retention = 1
    MaxFaults = 3
SYMMETRY TabletSymmetry
INVARIANTS
    DrawingIsSafe
    CooldownIsFair
    ConsoleIsTrue
    CalendarIsRight
    NamesAreGone
    DrawingsStay
    PlanetsAreWhole
    RetentionHolds
CHECK_DEADLOCK FALSE
