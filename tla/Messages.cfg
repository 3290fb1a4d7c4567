SPECIFICATION MCSpec
CONSTANTS
    a = a
    b = b
    NoKey = NoKey
    Users <- MCUsers
    Contents <- MCContents
    Emoji <- MCEmoji
    Loads <- MCLoads
    Named <- MCNamed
    RolesNamed <- MCRolesNamed
    QueueSize = 1
    syncPageSize = 1
    ResetSize = 1
    ReactionLimit = 1
INVARIANTS SendOnce PagesExact
PROPERTIES ClientCurrent 
CHECK_DEADLOCK FALSE
