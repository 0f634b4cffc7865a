\* Two addresses and two passwords: enough for a duplicate key file of an
\* address under either password, and for a wrong password at the prompt.
CONSTANTS
    a1 = a1
    a2 = a2
    p1 = p1
    p2 = p2
    Nil = Nil
    Addrs <- MCAddrs
    Passwords <- MCPasswords
    MaxFiles = 3
    MaxArgs = 2

SPECIFICATION Spec
INVARIANTS TypeOK UnlockedKeyDecrypts
