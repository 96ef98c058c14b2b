SPECIFICATION Spec
CONSTANTS
    Entity = {1, 2, 3}
    MaxBorn = 2
    Id <- MCId
    Built <- MCBuilt
    Radius <- MCRadius
    Reach <- MCReach
INVARIANTS
    AnswersAreRight
    CaptureIsClean
    IdleMeansDone
PROPERTIES
    NoUploadForTheGone
    EveryPlanetIsShot
CHECK_DEADLOCK FALSE
