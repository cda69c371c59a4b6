SPECIFICATION FairSpec
CONSTANTS
    r1 = r1
    r2 = r2
    p1 = p1
    p2 = p2
    c1 = c1
    s1 = s1
    s2 = s2
    Rules = {r1}
    Events = {e1}
    Recipients = {p1, p2}
    Channels = {c1}
    Steps = {s1, s2}
    Workers = {w1}
    Escalators = {x1}
    None = None
    RuleOf <- MCRuleOf
    ChannelOf <- MCChannelOf
    EnabledRecipients <- MCEnabledRecipients
    EnabledChannels = {c1}
    StepRule <- MCStepRule
    StepRecipient <- MCStepRecipient
    StepDelay <- MCStepDelay
    Cooldowns = {1}
    Windows = {None}
    Day = 3
    UtcOffset = 2
    Overlap = FALSE
    MaxTime = 2
    MaxNotices = 3
    MaxRequests = 1
INVARIANTS
    EscalationJustified
    NoticeToldOnce
PROPERTIES
    CalmEventsClose
    OverdueEventsEscalate
