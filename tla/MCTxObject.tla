----------------------------- MODULE MCTxObject -----------------------------
EXTENDS TxObject, TLC

CONSTANTS o1, o2, b1, b2, s1

MCObjs == {o1, o2}
MCBodies == {b1, b2}
MCBodyLen == (b1 :> 3) @@ (b2 :> 4)
MCSigs == {s1}

=============================================================================
