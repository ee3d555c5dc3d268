SPECIFICATION Spec
CONSTANTS
    l1 = l1  r1 = r1  r2 = r2  k1 = k1  w1 = w1
    None = None
    Operators <- MCOperators
    Startup = "ann"
    Authorities <- MCAuthorities
    Admins <- MCAdmins
    Proctoring <- MCProctoring
    Rescoped <- MCRescoped
    Logins = {l1}
    Requests = {r1, r2}
    Tokens = {k1}
    Sockets = {w1}
    SessionTtl = 4
    SocketMaxAge = 1
    Opening = 2
SYMMETRY Symmetric
INVARIANTS
    AdministratorRemains
    SessionsCurrent
    SocketsFollow
    SocketsEnd
