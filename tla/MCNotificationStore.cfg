CONSTANTS
    IdMax = 3
    Apps = {"chat"}
    Texts = {"hello", "bye"}
    Keys = {"reply"}
    Timeouts <- DefaultOnly
    Requests <- TwoRequests
    Faults = {"crash", "rename_fails"}
    Broken = Broken
    None = None
SPECIFICATION Spec
INVARIANT FileIsReadable
PROPERTIES ImplementsCheckpoints RestartKeepsInbox EventuallySaved
