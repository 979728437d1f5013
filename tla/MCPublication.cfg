SPECIFICATION Spec
CONSTANTS
    Accounts = {a}
    Unnamed = Unnamed
    Levels = {0, 1}
    Boundaries = {}
    MaxTime = 3
    MaxWritten = 2
    MaxProcess = 2
    MaxEvents = 2
    MaxBaselines = 1
    Retention = 0
CONSTRAINT LastEvent
INVARIANTS TypeOK AuthLossSurfaces 
PROPERTIES UnseenStaysUnread ImplementsInbox
CHECK_DEADLOCK FALSE
