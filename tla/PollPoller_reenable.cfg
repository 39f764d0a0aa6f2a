\* One channel is disabled and enabled again.
CONSTANTS
    Chans = {c1}
    Fds = {0}
    None = none
    DisableUnadded = FALSE
SPECIFICATION Spec
INVARIANT InterestIsPolled
