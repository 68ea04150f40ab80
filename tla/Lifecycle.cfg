\* Two requests past the TTL, two pages, three versions of upstream's catalog.
SPECIFICATION LifecycleSpec
CONSTANTS
    Requests = {a, b}
    Boot = boot
    Nobody = nobody
    MaxPages = 2
    BootAttempts = 3
    MaxVersion = 2
INVARIANTS LifecycleTypeOK ServesModels CleanExitIsDrained
PROPERTIES NeverGoesBack RequestsGoOn ProcessSettles
CHECK_DEADLOCK FALSE
