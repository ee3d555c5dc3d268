SPECIFICATION Spec
CONSTANTS
    u = u  v = v
    k1 = k1  k2 = k2  k3 = k3
    r1 = r1  r2 = r2
    Users = {u, v}
    Contests = {1, 2}
    Tokens = {k1, k2, k3}
    Requests = {r1, r2}
    None = None  AsItWas = AsItWas
SYMMETRY Symmetric
VIEW LiveView
INVARIANT LogoutHolds
PROPERTY ActsForItsUser
CONSTRAINT Instances
