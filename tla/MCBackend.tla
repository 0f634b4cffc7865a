------------------------------ MODULE MCBackend ------------------------------
(* Configurations that vary every field New reads from the defaults: an   *)
(* archive node with or without snapshots and a dirty cache that divides  *)
(* by five or not, the version check skipped or not, an unset, zero or   *)
(* valid gas price, an invalid sync mode, an extra data over the limit    *)
(* and an unset network id.                                               *)
EXTENDS Backend

MCConfigs ==
    {[Defaults EXCEPT !.NoPruning = np, !.SnapshotCache = sc,
                      !.TrieDirtyCache = d, !.SkipBcVersionCheck = sk,
                      !.MinerGasPrice = gp, !.SyncMode = sm,
                      !.MinerExtraData = ex, !.NetworkId = nid] :
        np \in BOOLEAN, sc \in {0, 102}, d \in {3, 256}, sk \in BOOLEAN,
        gp \in {Nil, 0, 2}, sm \in {"snap", "invalid"}, ex \in {0, 33},
        nid \in {0, 1}}

=============================================================================
