\* Everything up and down once, no fault: the last call does not return.
CONSTANTS
    Modules <- MCModules
    Names <- MCNames
    KeepsDepError <- MCKeepsDepError
    Threads <- OneThread
    Scripts <- MCScripts
    FailedRets <- MCFailedRets
    StayRets <- MCOneRet
    StagedSets <- NoneStaged
    MayRefuse = FALSE
    ImageFlavor = FALSE
    Sessions <- MCHangSessions
SPECIFICATION FSpec
PROPERTY Returns
