\* Image flavour: what remains staged after a boot device is up.
CONSTANTS
    Modules <- MCModules
    Names <- MCNames
    KeepsDepError <- MCKeepsDepError
    Threads <- OneThread
    Scripts <- MCScripts
    FailedRets <- MCFailedRets
    StayRets <- MCOneRet
    StagedSets <- MCStagedSets
    MayRefuse = FALSE
    ImageFlavor = TRUE
    Sessions <- BootSessions
SPECIFICATION FSpec
INVARIANT StagedReturnsToZero
