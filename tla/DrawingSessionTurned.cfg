SPECIFICATION SessionSpec
CONSTANTS
    Galaxy = {g1}
    Size = {"portrait", "landscape"}
    Paint = {"red"}
    MaxStrokes = 2
INVARIANT
    RotationKeepsDrawing
CHECK_DEADLOCK FALSE
