\* Two application threads race for STATE and one port; one client.  What a call
\* or a stop leads to.
SPECIFICATION FairSpec
CONSTANTS
    c1 = c1
    c2 = c2
    h1 = h1
    h2 = h2
    p1 = p1
    p2 = p2
    Callers <- CallersTwo
    Handlers <- HandlersOne
    Ports <- PortsOne
    MaxSession = 2
INVARIANTS
    OneLiveSession
PROPERTIES
    ImplementsService
    StopEndsEverything
    CallsReturn
