\* Binaries of database versions 8 and 9 (an upgrade and a downgrade are
\* both reachable within three runs), version 0.1.2 built with go1.21.13
\* (9 bytes) for windows (7 bytes), and the 32-byte extra data limit.
\* The operator may stop restarting the node, so a final "down" state is
\* not a deadlock.
CONSTANTS
    Nil = Nil
    DefaultGasPrice = 1
    Configs <- MCConfigs
    Versions = {8, 9}
    ChainID = 32382
    MaximumExtraDataSize = 32
    VersionMajor = 0
    VersionMinor = 1
    VersionPatch = 2
    GoVersionLen = 9
    GOOSLen = 7
    MaxStarts = 3
SPECIFICATION Spec
INVARIANT TypeOK
INVARIANT CacheBudget
INVARIANT SnapOnlyWithSnapshots
INVARIANT DatabaseMatchesBinary
CHECK_DEADLOCK FALSE
