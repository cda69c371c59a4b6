SPECIFICATION Spec
CONSTANTS
    r1 = r1
    r2 = r2
    p1 = p1
    p2 = p2
    c1 = c1
    s1 = s1
    s2 = s2
    Rules = {r1}
    Events = {e1, e2}
    Recipients = {p1}
    Channels = {c1}
    Steps = {}
    Workers = {w1}
    Escalators = {}
    None = None
    RuleOf <- MCRuleOf
    ChannelOf <- MCChannelOf
    EnabledRecipients <- MCEnabledRecipients
    EnabledChannels = {c1}
    StepRule <- MCStepRule
    StepRecipient <- MCStepRecipient
    StepDelay <- MCStepDelay
    Cooldowns <- MCCooldowns
    Windows <- MCWindows
    Day = 3
    UtcOffset = 2
    Overlap = FALSE
    MaxTime = 4
    MaxNotices = 3
    MaxRequests = 2
INVARIANTS
    TypeOK
    OneOpenEvent
    LastFiredIsNewestNotice
    AllClearReachesWarned
PROPERTIES
    CooldownSpacing
    EpisodesFollowLifecycle
