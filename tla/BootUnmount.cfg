\* HDD boot, the layer for the boot device up and down once, no fault.
CONSTANTS
    Modules <- MCModules
    Names <- MCNames
    KeepsDepError <- MCKeepsDepError
    Threads <- OneThread
    Scripts <- MCScripts
    FailedRets <- MCFailedRets
    StayRets <- MCOneRet
    StagedSets <- NoneStaged
    MayRefuse = FALSE
    ImageFlavor = FALSE
    Sessions <- MCBootHddSessions
SPECIFICATION FSpec
INVARIANT MountedHasStack
