\* sio2man and memcard; staging and discarding between the calls.
CONSTANTS
    Modules <- MCModules
    Names <- MCNames
    KeepsDepError <- MCKeepsDepError
    Threads <- OneThread
    Scripts <- MCScripts
    FailedRets <- MCFailedRets
    StayRets <- MCStayRets
    StagedSets <- NoneStaged
    MayRefuse = FALSE
    ImageFlavor = TRUE
    Reqs <- MCReqs
    Marks <- MCMarks
SPECIFICATION ISpec
PROPERTIES MissingIsRetried NeverExecutesResident
