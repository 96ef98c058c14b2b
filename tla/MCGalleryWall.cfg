SPECIFICATION SafeSpec
CONSTANTS
    GallerySize = 2
    Retention = 4
    QueueSize = 1
    Browser = {"boot"}
    LiveSlot = {"live"}
    MaxUploads = 3
    MaxLiveUploads = 3
    MaxWire = 1
INVARIANTS
    WallFits
    NoGhosts
    LiveUploadsShow
