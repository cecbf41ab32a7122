CONSTANTS
    IdMax = 3
    Apps = {"chat", "build"}
    Texts = {"hello", "built"}
    Keys = {"reply"}
    Timeouts <- MCTimeouts
    Requests <- MCRequests
    Configs <- MCConfigs
    AllowIdReuse = FALSE
    None = None
SPECIFICATION Spec
INVARIANTS TypeOK WindowsMatchStore TimerDiscipline
PROPERTIES FreshCountdown ListChangesAnnounced SilentStaysSilent ImplementsRetention PopupsAutoClose
