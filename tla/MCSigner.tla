------------------------------ MODULE MCSigner ------------------------------
EXTENDS Signer

CONSTANTS r1, r2, u1, u2, a1, a2, weak, strong

MCReqs == {r1, r2}
MCUICallers == {u1, u2}
MCAddrs == {a1, a2}
MCPasswords == {weak, strong}
MCStrong == {strong}

=============================================================================
