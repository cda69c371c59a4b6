SPECIFICATION SceneSpec
CONSTANTS
    l1 = l1
    l2 = l2
    s1 = s1
    s2 = s2
    Locations = {l1, l2}
    Storms = {s1, s2}
    Workers = {w1}
    Frames <- MCAllFrames
    Radii = {100}
    Muted <- MCMuted
    AiConfigured = TRUE
    Overlap = FALSE
    None = None
    MaxRisks = 4
    MaxRequests = 1
INVARIANTS
    WarnedAtCurrentLevel
    HazardsAreTold
    PassingIsTold
    TypeOK
    DispatchedRisksExist
CHECK_DEADLOCK FALSE
