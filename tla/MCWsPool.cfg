\* Two handlers and the warmup race for one slot, time passes the reuse age,
\* POOL_SIZE changes between two values, and the session ends at any moment.
SPECIFICATION Spec
CONSTANTS
    h1 = h1
    h2 = h2
    s1 = s1
    s2 = s2
    Handlers <- HandlersTwo
    Slots <- SlotsOne
    WarmSlots <- SlotsOne
    Sizes <- SizesSmall
    MaxIdle = 2
    Cap = 16
    ReuseAge = 1
    MaxTime = 2
SYMMETRY SymHandlers
INVARIANTS
    OneRefiller
    BoundedIdle
    OrderedByAge
    NoLeak
PROPERTIES
    GetTakesOne
    ImplementsIdlePool
CHECK_DEADLOCK FALSE
