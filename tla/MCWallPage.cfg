SPECIFICATION Spec
CONSTANTS
    Crater = {1, 2}
    MountainRange = {1, 2}
    Drawing <- MCDrawing
    MaxMade = 6
    Theme = {"default", "halloween", "christmas", "easter", "canada-day"}
    SkyTheme = {"default", "halloween", "remembrance-day"}
    Stemmed = {"pumpkin", "jack-o-lantern"}
    BeltBodies = 40
    FlybyBodies = {8, 12}
    Frequency = {"normal", "frequent"}
    ThemeWarmUp = {1}
    MaxBehaviors = 3
    Mix <- MCMix
    Particles <- MCParticles
    Behavior <- MCBehavior
    Interval <- MCInterval
    WarmUp <- MCWarmUp
    Lifetime <- MCLifetime
    Name = {"n1", "n2"}
    WordTheme = {"default", "halloween", "remembrance-day"}
    Celebrates <- MCCelebrates
    CardTime = 3
    SparkleTime = 2
    MaxWords = 5
    Heading <- MCHeading
    IdleTime = 4
    ThrustTime = 1
    MaxMoves = 5
    Build = {"b1", "b2", "b3"}
    GuardTime = 2
    MaxUpdates = 3
    MaxStale = 2
INVARIANTS
    ResourcesBalance
    StagesAgree
    SkyIsInStep
    WordsAreInStep
    ShuttleFades
PROPERTIES
    NoReloadLoop
    PageComesAlive
CHECK_DEADLOCK FALSE
