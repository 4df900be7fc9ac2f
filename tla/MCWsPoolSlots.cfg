\* Two slots, one warmed up: close_all releases one slot while it drains the
\* other, and every refill that starts also ends.
SPECIFICATION FairSpec
CONSTANTS
    h1 = h1
    h2 = h2
    s1 = s1
    s2 = s2
    Handlers <- HandlersOne
    Slots <- SlotsTwo
    WarmSlots <- SlotsOne
    Sizes <- SizesSmall
    MaxIdle = 2
    Cap = 16
    ReuseAge = 0
    MaxTime = 1
PROPERTIES
    DrainedStaysEmpty
    RefillEnds
CHECK_DEADLOCK FALSE
