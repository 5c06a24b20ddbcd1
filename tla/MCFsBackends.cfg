SPECIFICATION Spec
CONSTANTS
    Backends = {"yaffs", "fatfs", "posix"}
    MaxSize = 3
    SizeMod = 8
INVARIANTS
    TypeOK
    MountedIsCollected
    ReportedIsThere
