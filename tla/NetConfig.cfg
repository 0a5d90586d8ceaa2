\* Both stacks; seven configurations; a link, a lease and an interface that
\* change at any time.  Time: waits of one and two seconds, three are "long".
CONSTANTS
    Addrs = {"ip1", "ip2"}
    Configs <- MCConfigs
    DefaultTimeout = 2
    Long = 3
SPECIFICATION Spec
INVARIANTS TypeOK OkEarned ToldMatchesAnswer StaticReported
PROPERTIES SteadyEventSeen WaitsAsLongAsAsked Returns
