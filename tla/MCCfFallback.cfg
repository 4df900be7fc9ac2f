\* Two clients and three domains, one of which may answer 429, with one permit
\* and one task at a time, so that both semaphores are contended; the clock
\* passes the end of a cooldown and of a doubled one begun at once.
SPECIFICATION Spec
CONSTANTS
    c1 = c1
    c2 = c2
    d1 = d1
    d2 = d2
    d3 = d3
    None = None
    Clients <- MCClients
    Domains <- MCDomains
    Throttled <- MCThrottled
    Permits = 1
    Parallel = 1
    Cooldown = 1
    MaxCooldown = 2
    RetryAfters = {0, 3}
    MaxClosers = 1
    MaxTime = 2
SYMMETRY Sym
INVARIANTS
    PermitsKept
    StrikesBounded
PROPERTIES
    LeavesOnlyClosers
    GivesUpLast
