\* Consul getter: cursor stays inside the cached list under concurrent calls.
CONSTANTS
    s1 = s1
    x = x
    y = y
    z = z
    c1 = c1
    c2 = c2
    Services <- MCServices
    Addrs <- MCAddrs
    ConsulViews <- MCConsulViews
    Clients <- MCClients
SYMMETRY MCSymmetry
SPECIFICATION Spec
INVARIANTS TypeOK CursorInRange
