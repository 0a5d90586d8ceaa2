\* Every module of sio2man, memcard and joystick; every sequence of their calls.
CONSTANTS
    Modules <- Sio2manModules
    Names <- MCNames
    KeepsDepError <- MCKeepsDepError
    Threads <- OneThread
    Scripts <- MCSingle
    FailedRets <- MCFailedRets
    StayRets <- MCStayRets
    StagedSets <- NoneStaged
    MayRefuse = FALSE
    ImageFlavor = FALSE
SPECIFICATION Spec
INVARIANTS TypeOK ResidentIsKnown NeedsFirst
PROPERTY OkAccountsForModules
