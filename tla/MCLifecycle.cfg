SPECIFICATION FairSpec
CONSTANTS
    Servers <- MCServers
    Ingest = "ingest"
    Others <- MCOthers
    Handlers <- MCHandlers
    ServerOf <- MCServerOf
    AlwaysWaits = {"web"}
    MaxReloads = 1
INVARIANTS AnswerIsDue
PROPERTIES OnlyTheDeafLinger ReloadCompletes CtrlCExits
CHECK_DEADLOCK FALSE
