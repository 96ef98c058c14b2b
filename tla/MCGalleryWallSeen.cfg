SPECIFICATION WholeSpec
CONSTANTS
    GallerySize = 2
    Retention = 4
    QueueSize = 2
    Browser = {"boot"}
    LiveSlot = {"live"}
    MaxUploads = 3
    MaxLiveUploads = 3
    MaxWire = 1
INVARIANT
    SentPlanetIsSeen
