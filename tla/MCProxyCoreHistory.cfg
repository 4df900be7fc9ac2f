\* Two clients of two sessions, on one port or on two, around a StopProxy.
SPECIFICATION HSpec
CONSTANTS
    c1 = c1
    c2 = c2
    h1 = h1
    h2 = h2
    p1 = p1
    p2 = p2
    Callers <- CallersOne
    Handlers <- HandlersTwo
    Ports <- PortsTwo
    MaxSession = 2
SYMMETRY Sym
INVARIANTS
    RouteTableCurrent
    ActiveExact
    StalePenaltiesWereInFlight
