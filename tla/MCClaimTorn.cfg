CONSTANTS
    IdMax = 3
    Apps = {"chat"}
    Texts = {"hello"}
    Keys = {"reply"}
    Timeouts <- MCTimeouts
    Requests <- OneRequest
    Faults = {"short_write"}
    Broken = Broken
    None = None
SPECIFICATION Spec
INVARIANT FileIsReadable
