\* Two clients of two keys, k2 without an entry in DC_DEFAULT_IPS, while time
\* passes, Cloudflare is switched and StopProxy clears the memories.
SPECIFICATION HSpec
CONSTANTS
    c1 = c1
    c2 = c2
    k1 = k1
    k2 = k2
    Clients <- ClientsTwo
    Keys <- KeysTwo
    Configured <- KeysTwo
    Known <- KeysOne
    Cooldown = 1
    MaxTime = 1
SYMMETRY Sym
INVARIANTS
    RushedHasReason
PROPERTIES
    RoutesInOrder
    BlacklistJustified
