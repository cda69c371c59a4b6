SPECIFICATION Spec
CONSTANTS
    mail = mail
    hook = hook
    Events = {e1}
    Recipients = {mail, hook}
    KindOf <- MCKindOf
    Notified = {mail}
    Escalating = {hook}
    Workers = {w1}
    Overlap = FALSE
    MaxAttempts = 3
    RetryBase = 1
    None = None
    MaxTime = 5
    MaxNotices = 1
    MaxFaults = 0
INVARIANT
    NothingDelivedTwice
