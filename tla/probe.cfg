SPECIFICATION FairSpec
CONSTANTS
    t1 = t1  t2 = t2  a1 = a1  a2 = a2  f1 = f1  f2 = f2
    Tasks = {t1, t2}
    Cookies <- MCCookies
    Contest <- MCContest
    User <- MCUser
    Login <- MCLogin
    Oversize <- MCOversize
    Refreshes <- MCRefreshes
    Jars <- MCJars
    Addresses = {a1}
    Flights = {f1, f2}
    PositiveTtl = 1
    NegativeTtl = 1
    ProbeLimit = 1
    ProbeWindow = 2
    MaxEntries = 2
    MaxTime = 2
    None = None
INVARIANTS
    SingleFlight
    FlightsInUse
    ProbeBudget
    FreshVerdicts
PROPERTIES
    EveryoneAnswered
