---------------------------- MODULE MCAccountCmd ----------------------------
EXTENDS AccountCmd

CONSTANTS a1, a2, p1, p2

MCAddrs == {a1, a2}
MCPasswords == {p1, p2}

=============================================================================
