CONSTANTS
    IdMax = 1
    Apps = {"chat"}
    Texts = {"hello"}
    Keys = {"reply"}
    Timeouts <- MCTimeouts
    Requests <- MCRequests
    Configs <- MCConfigs
    AllowIdReuse = FALSE
    None = None
    Users = {u1, u2}
    Commands <- AllCommands
    Backlog = 0
SPECIFICATION SystemSpec
PROPERTIES PickerCatchesUp CommandsEnd
