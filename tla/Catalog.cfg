SPECIFICATION Spec
CONSTANTS
    MaxCalls = 3
    MaxOverlap = 2
    FirstId = 30
    Rows <- TheRows
    Foreign <- Another
    NewGroups <- TheNewGroups
    GroupEdits <- TheGroupEdits
    Rankings <- TheRankings
    MaxGroupRefDepth = 2
    NewChannels <- TheNewChannels
    ChannelEdits <- TheChannelEdits
    Offers <- TheOffers
    SettingKeys = {"interval", "proxy"}
    Values = {"two"}
    Secrets = {"k1", "k2"}
    Defaults <- TheDefaults
INVARIANTS
    CachesFollowTables
    ReferencesHold
    RevokedKeysStayOut
CHECK_DEADLOCK FALSE
