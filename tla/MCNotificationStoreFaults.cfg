CONSTANTS
    IdMax = 3
    Apps = {"chat"}
    Texts = {"hello"}
    Keys = {"reply"}
    Timeouts <- DefaultOnly
    Requests <- OneRequest
    Faults = {"crash", "open_fails", "short_write", "rename_fails"}
    Broken = Broken
    None = None
SPECIFICATION Spec
INVARIANTS TypeOK IdsBelowNext
