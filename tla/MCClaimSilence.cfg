CONSTANTS
    IdMax = 2
    Apps = {"chat", "build"}
    Texts = {"hello", "built"}
    Keys = {"reply"}
    Timeouts <- MCTimeouts
    Requests <- MCRequests
    Configs <- MCConfigs
    AllowIdReuse = FALSE
    None = None
SPECIFICATION Spec
PROPERTY SilenceIsKept
