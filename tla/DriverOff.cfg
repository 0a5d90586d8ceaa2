\* fileXio and dev9 over the image provider, with any part of them staged.
CONSTANTS
    Modules <- Dev9Modules
    Names <- MCNames
    KeepsDepError <- MCKeepsDepError
    Threads <- OneThread
    Scripts <- MCDev9
    FailedRets <- MCFailedRets
    StayRets <- MCStayRets
    StagedSets <- AnyStaged
    MayRefuse = FALSE
    ImageFlavor = TRUE
SPECIFICATION Spec
INVARIANT OffAnswered
