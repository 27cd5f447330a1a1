SPECIFICATION FairSpec
CONSTANTS
    Servers <- MCServers
    Ingest = "ingest"
    Others <- MCOthers
    Handlers <- MCHandlers
    ServerOf <- MCServerOf
    AlwaysWaits = {"web"}
    MaxReloads = 1
PROPERTIES WaitEnds
CHECK_DEADLOCK FALSE
