SPECIFICATION Spec
CONSTANTS
    W = 8
    H = 14
    S = 8
    CosU <- MCCosU
    CosV <- MCCosV
    SinV <- MCSinV
    Drawing <- MCDrawing
    SegmentsW = 6
    SegmentsH = 4
    Bowls <- MCBowls
    Ridges <- MCRidges
    GW = 24
    GH = 12
    CellPixels = 28
    Palette = 3
    Picture <- MCPicture
INVARIANTS
    PaintIsKept
    ReliefFollowsPaint
    SurfaceCloses
    MeshIsSmooth
    AccentsAreTidy
CHECK_DEADLOCK FALSE
