----------------------------- MODULE MCDrivers -----------------------------
(***************************************************************************)
(* The driver calls for TLC.  Three sets of calls: those of one            *)
(* application thread over the drivers that share sio2man, those of two    *)
(* threads over the USB drivers that share usbd, and fileXio with dev9,    *)
(* whose deinit asks through it.                                           *)
(***************************************************************************)
EXTENDS DriverCalls

MCNames == T!DriverNames
MCKeepsDepError == {d \in MCNames : T!Driver[d].keepsDepError}

Sio2manCalls ==
    {T!InitCall("memcard", TRUE), T!InitCall("joystick", TRUE),
     T!InitCall("sio2man", FALSE), T!DeinitCall("sio2man", FALSE),
     T!DeinitCall("memcard", FALSE), T!DeinitCall("joystick", FALSE)}
UsbCalls ==
    {T!InitCall("keyboard", TRUE), T!DeinitCall("keyboard", TRUE),
     T!InitCall("usbd", FALSE), T!DeinitCall("usbd", FALSE)}

Single(calls) == {<<c>> : c \in calls}

MCFailedRets == {-1, 0}

OneThread  == {"main"}
MCSingle   == [t \in OneThread |-> Single(Sio2manCalls)]
TwoThreads == {"main", "other"}
MCThreads  == [t \in TwoThreads |-> Single(UsbCalls)]

\* fileXio up first and down last, the order that the dev9 driver needs.
Dev9Up   == <<T!InitCall("fileXio", FALSE), T!InitCall("dev9", FALSE)>>
Dev9Down == <<T!DeinitCall("dev9", FALSE), T!DeinitCall("fileXio", FALSE)>>
MCDev9   == [t \in OneThread |-> {Dev9Up, Dev9Up \o Dev9Down}]

\* The scripts are of the kinds that NeedsFirst and OffAnswered speak of.
ASSUME MCScriptsAssumption ==
    /\ Sio2manCalls \subseteq InitCalls(TRUE) \cup DeinitCalls
    /\ \A s \in MCDev9["main"] : UpBeforeOff("fileXio", s) /\ UpBeforeOff("dev9", s)

MCStayRets == {0, 2}
NoneStaged == {{}}

Sio2manModules == UNION {T!LoadsOf(c) : c \in Sio2manCalls}
UsbModules     == UNION {T!LoadsOf(c) : c \in UsbCalls}
Dev9Modules    == T!OwnModules("fileXio") \cup T!OwnModules("dev9")
AnyStaged      == SUBSET Dev9Modules
=============================================================================
