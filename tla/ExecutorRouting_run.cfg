SPECIFICATION Spec
SYMMETRY Symmetric
CONSTANTS
    h1 = h1  h2 = h2  d1 = d1  d2 = d2  o1 = o1  o2 = o2  s1 = s1  s2 = s2  x = x  y = y  c = c  d = d  k1 = k1
    Agents = {1, 2}
    DiscordIds = {d1, d2}
    Rosters <- MCRosters
    InitialRoster <- MCInitialRoster
    Operators = {o1, o2}
    None = None
    Hosts = {h1, h2}
    ExecSources = {x, y}
    CapSources = {c, d}
    ExecCatalogs <- MCExecCatalogs
    CapCatalogs <- MCCapCatalogs
    Requests <- MCRequests
    Submitters = {s1, s2}
    InitialCatalog <- MCInitialCatalog
    InitialCapacity <- MCInitialCapacity
    MaxJobs = 2
    Budgets <- MCBudgets
    Home <- MCHome
CHECK_DEADLOCK FALSE
INVARIANTS
    LeasedRunIsAuthorised LeaseWithinPolicy RosterResolves
