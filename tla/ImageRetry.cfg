\* The same system: what an OK of a retried init call means.
CONSTANTS
    Modules <- MCModules
    Names <- MCNames
    KeepsDepError <- MCKeepsDepError
    Threads <- OneThread
    Scripts <- MCScripts
    FailedRets <- MCFailedRets
    StayRets <- MCStayRets
    StagedSets <- NoneStaged
    MayRefuse = FALSE
    ImageFlavor = TRUE
    Reqs <- MCReqs
    Marks <- MCMarks
SPECIFICATION ISpec
PROPERTY OkMeansResident
