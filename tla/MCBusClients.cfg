CONSTANTS
    IdMax = 2
    Apps = {"chat"}
    Texts = {"hello"}
    Keys = {"reply"}
    Timeouts <- MCTimeouts
    Requests <- MCRequests
    Configs <- MCConfigs
    AllowIdReuse = FALSE
    None = None
    Users = {u1, u2}
    Commands <- MCCommands
    Backlog = 0
SPECIFICATION SystemSpec
INVARIANTS QuietViewIsCurrent HandlesAreKnown NewsOfHandles TogglesCount
