\* The image flavour: every launch directory, driver and sample program, what it
\* stages and asks, on a machine that does not load one module; two threads, the
\* power button at any moment of the sessions that have one; the IOP may refuse
\* to unload.
CONSTANTS
    Modules <- MCModules
    Names <- MCNames
    KeepsDepError <- MCKeepsDepError
    Threads <- TwoThreads
    Scripts <- MCTwoScripts
    FailedRets <- MCOneRet
    StayRets <- MCOneRet
    StagedSets <- MCStagedSets
    MayRefuse = TRUE
    ImageFlavor = TRUE
    Sessions <- MCSessions
SPECIFICATION FSpec
INVARIANTS LoadedVarsAreResident OthersMountedHasStack MountIsRecorded NoneLoadedTwice TablesAgree
    OthersReturnToZero
PROPERTIES OthersReturn PowersOff StagedCoversInit
