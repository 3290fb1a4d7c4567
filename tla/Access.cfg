CONSTANTS
    o = o
    a = a
    n = n
    c1 = c1
    c2 = c2
    ch1 = ch1
    ch2 = ch2
    r = r
    Users <- MCUsers
    UserOf <- MCUserOf
    Loads <- MCLoads
    Conns = {c1, c2}
    ChannelIds = {ch1, ch2}
    VoiceChannels = {ch2}
    RoleIds = {r}
    Workers = {w1, w2}
    Nobody = Nobody
    NoChannel = NoChannel
    NoInvite = NoInvite
SPECIFICATION MCSpec
CHECK_DEADLOCK FALSE
INVARIANTS AccessKept NobodyStaysIn LinkHonoured
PROPERTIES DeadSessionEnds
