\* Two threads over keyboard and usbd; the IOP may refuse to unload.
CONSTANTS
    Modules <- UsbModules
    Names <- MCNames
    KeepsDepError <- MCKeepsDepError
    Threads <- TwoThreads
    Scripts <- MCThreads
    FailedRets <- MCFailedRets
    StayRets <- MCStayRets
    StagedSets <- NoneStaged
    MayRefuse = TRUE
    ImageFlavor = FALSE
SPECIFICATION Spec
INVARIANTS LoadedVarsAreResident
