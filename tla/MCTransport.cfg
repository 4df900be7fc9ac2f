\* Two dials of one domain under the system's order of limits; every stream of
\* seven bytes, with bytes of three bits, cut into chunks of one, three and four.
SPECIFICATION TSpec
CONSTANTS
    Dials = {d1, d2}
    Resolvers = {r1, r2}
    Timeout = 3
    DefaultTimeout = 3
    TlsTimeout = 1
    PhaseTimeout = 2
    DohTimeout = 1
    CacheTime = 3
    Bytes <- MCBytes
    Base = 8
    Long = 3
    Word = 2
    MaxLen = 7
    Sizes = {1, 3, 4}
SYMMETRY Symmetry
INVARIANTS
    DialBounded
    NoOrphans
    NothingLost
    OnePacketEach
PROPERTIES
    NoEarlySurrender
CHECK_DEADLOCK FALSE
