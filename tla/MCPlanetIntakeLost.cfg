SPECIFICATION Spec
CONSTANTS
    Entity = {1, 2, 3}
    MaxBorn = 2
    Id <- MCId
    Built <- MCBuilt
    Radius <- MCRadius
    Reach <- MCReach
PROPERTIES
    NobodyIsLost
CHECK_DEADLOCK FALSE
