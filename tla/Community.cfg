CONSTANTS
    a = a
    b = b
    c = c
    g = g
    Users <- MCUsers
    Groups <- MCGroups
    Sessions <- MCSessions
    Devices <- MCDevices
    Strangers <- MCStrangers
    MaxActiveDevices = 1
    Loads <- MCLoads
    MaxRequests = 3
    Jobs = {1, 2}
    Texts = {"x"}
    Channels = {"channel"}
    Chats = {"chat"}
    Saved = "saved"
    ClientKeys <- MCKeys
    MaxAttempts = 2
    MaxBatch = 2
    MaxEdits = 3
    MaxStops = 1
    Guests = {"owner", "guest"}
    Managers = {"owner"}
    Window = 1
    MaxTime = 3
    MaxAsks = 4
    MaxHalts = 1
SPECIFICATION CommunitySpec
CHECK_DEADLOCK FALSE
INVARIANTS CallsTrue ScheduledOnce RemindersRight
PROPERTIES JobsSettle
