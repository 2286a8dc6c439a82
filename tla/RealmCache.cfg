SPECIFICATION FairSpec

CONSTANTS
    Callers = {a, b}
    Interval = 1
    MaxTime = 5

INVARIANTS
    TypeOK
    ExpiryMatchesList

PROPERTIES
    ReturnsIfRefreshesApart

\* Two overlapping refreshes may stop everything: RealmCacheTwoCallers.cfg.
CHECK_DEADLOCK FALSE
