SPECIFICATION Spec
CONSTANTS
    GallerySize = 2
    Retention = 2
    QueueSize = 1
    Browser = {"boot", "bare"}
    LiveSlot = {"live"}
    MaxUploads = 3
    MaxLiveUploads = 2
    MaxWire = 1
PROPERTIES
    PollingConverges
    WallSettles
