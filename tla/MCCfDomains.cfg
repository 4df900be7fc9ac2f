\* One client and two refreshes against the calls of the application; the user may
\* type a domain of his own in a spelling that is not the normalised one.
SPECIFICATION HSpec
CONSTANTS
    c1 = c1
    r1 = r1
    r2 = r2
    def = def
    f1 = f1
    own = own
    typed = typed
    dc1 = dc1
    f2 = f2
    None = None
    Clients <- MCClients
    Refreshers <- MCRefreshers
    Names <- MCNames
    Raw <- MCRaw
    Normal <- NormalTyped
    Defaults <- MCDefaults
    Downloads <- MCDownloads
    Caches <- MCCaches
    DCs <- MCDCs
    DcOf <- MCDcOf
    Tries = 2
SYMMETRY Sym
INVARIANTS
    UserOwnsList
    ListsAgree
    PreferredIsListed
