\* Two signing requests and two UI goroutines, two addresses, a weak and a
\* strong password, two chain ids: a request can race an import of its
\* own address, and keys made outside the UI API may be weak.
CONSTANTS
    r1 = r1
    r2 = r2
    u1 = u1
    u2 = u2
    a1 = a1
    a2 = a2
    weak = weak
    strong = strong
    Nil = Nil
    Reqs <- MCReqs
    UICallers <- MCUICallers
    Addrs <- MCAddrs
    Passwords <- MCPasswords
    Strong <- MCStrong
    ChainIds = {1, 2}

SPECIFICATION Spec
INVARIANTS TypeOK NoAccountEnumeration
