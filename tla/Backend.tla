------------------------------- MODULE Backend -------------------------------
(***************************************************************************)
(* The Zond backend's life cycle (zond/backend.go): New assembles the     *)
(* backend from a configuration, Start and Stop run it, and the process  *)
(* may be killed at any time. The operator restarts the node, possibly    *)
(* with another gzond binary (an upgrade or a downgrade), so the chain    *)
(* database, and the database version New writes into it, outlive each    *)
(* run; everything else is rebuilt by the next New.                       *)
(*                                                                         *)
(* New is a sequence of steps each of which may return an error, after    *)
(* which gzond exits. The steps whose failure depends on the environment  *)
(* (opening the database, loading the chain configuration, creating the   *)
(* blockchain, the pool, the handler and the DNS iterators) are choices.  *)
(***************************************************************************)
EXTENDS Integers, ZondConfig

CONSTANTS
    Configs,                \* configurations an operator may start with
    Versions,               \* core.BlockChainVersion of the gzond binaries
    ChainID,                \* the chain configuration's chain id
    MaximumExtraDataSize,   \* params.MaximumExtraDataSize
    VersionMajor, VersionMinor, VersionPatch,   \* params.Version*
    GoVersionLen,           \* len(runtime.Version()) of the build
    GOOSLen,                \* len(runtime.GOOS) of the build
    MaxStarts               \* bound on the runs of the node explored

VARIABLES
    dbVersion,      \* database version stored in the chain database, Nil if none
    node,           \* "down", "created" (New returned), "running" (Start returned)
    configured,     \* the configuration handed to the last New
    backend,        \* the live Zond object's state, Nil when down
    starts          \* calls of New so far (bounded)

vars == <<dbVersion, node, configured, backend, starts>>

-----------------------------------------------------------------------------
(* makeExtraData and the RLP encoding of its default. *)

\* Bytes of the big-endian encoding of n without leading zeros.
RECURSIVE ByteLen(_)
ByteLen(n) == IF n = 0 THEN 0 ELSE 1 + ByteLen(n \div 256)

\* Length of the RLP encoding of an unsigned integer.
RlpUintLen(n) == IF n < 128 THEN 1 ELSE 1 + ByteLen(n)

\* Length of the RLP encoding of a string of n (> 1) bytes shorter than 56.
RlpStringLen(n) == 1 + n

\* The default extra data: rlp([version, "gzond", runtime.Version(),
\* runtime.GOOS]), a list whose payload is shorter than 56 bytes.
DefaultExtraLen ==
    1 + RlpUintLen(VersionMajor * 65536 + VersionMinor * 256 + VersionPatch)
      + RlpStringLen(5) + RlpStringLen(GoVersionLen) + RlpStringLen(GOOSLen)

\* makeExtraData on extra data of the given length: the default when none
\* is configured, nothing (length 0) when it exceeds the limit.
MakeExtraData(len) ==
    LET extra == IF len = 0 THEN DefaultExtraLen ELSE len
    IN  IF extra > MaximumExtraDataSize THEN 0 ELSE extra

-----------------------------------------------------------------------------
(* New *)

\* New's rewrites of the configuration before the database is opened: the
\* gas price sanitizing and the trie cache split.
SanitizeConfig(cfg) ==
    SplitTrieCaches([cfg EXCEPT !.MinerGasPrice = SanitizeGasPrice(@)])

\* Mutant: a database newer than the binary is not refused.
CheckDatabaseVersionNoDowngrade(cfg, v) ==
    IF cfg.SkipBcVersionCheck
    THEN [ok |-> TRUE, version |-> dbVersion]
    ELSE [ok |-> TRUE,
          version |-> IF dbVersion # Nil /\ dbVersion > v THEN dbVersion ELSE v]

\* The database version check of New for a binary of version v: refuse a
\* newer database, write v into a missing or older one.
CheckDatabaseVersion(cfg, v) ==
    CASE cfg.SkipBcVersionCheck            -> [ok |-> TRUE, version |-> dbVersion]
      [] dbVersion # Nil /\ dbVersion > v -> [ok |-> FALSE, version |-> dbVersion]
      [] OTHER                             -> [ok |-> TRUE, version |-> v]

\* Protocols: zond, and snap when the snapshot cache is on.
Protocols(cfg) ==
    {"zond"} \cup (IF cfg.SnapshotCache > 0 THEN {"snap"} ELSE {})

\* The backend New returns for a binary of version v: network id (the
\* chain id when unset), the downloader's cache allowance, the miner's
\* extra data, the gas price oracle's default price and the protocols.
Assemble(cfg, v) ==
    [config     |-> cfg,
     binary     |-> v,
     networkID  |-> IF cfg.NetworkId = 0 THEN ChainID ELSE cfg.NetworkId,
     cacheLimit |-> CacheAllowance(cfg),
     extra      |-> MakeExtraData(cfg.MinerExtraData),
     gpoDefault |-> IF cfg.GPODefault = Nil THEN cfg.MinerGasPrice ELSE cfg.GPODefault,
     protocols  |-> Protocols(cfg)]

\* A run of New by a binary of version v on configuration cfg; failed
\* tells whether, and where, an environment step fails: "none", "open"
\* (the database or the chain configuration, before the version check)
\* or "services" (after it).
New(cfg, v, failed) ==
    LET c  == SanitizeConfig(cfg)
        vc == CheckDatabaseVersion(c, v)
        ok == IsValid(cfg.SyncMode) /\ failed # "open" /\ vc.ok
    IN  /\ node = "down"
        /\ starts < MaxStarts
        /\ starts' = starts + 1
        /\ configured' = cfg
        /\ dbVersion' = IF ok THEN vc.version ELSE dbVersion
        /\ IF ok /\ failed = "none"
           THEN /\ node' = "created"
                /\ backend' = Assemble(c, v)
           ELSE UNCHANGED <<node, backend>>

\* Start: the handler, bloom handlers and shutdown tracker are started.
Start ==
    /\ node = "created"
    /\ node' = "running"
    /\ UNCHANGED <<dbVersion, configured, backend, starts>>

\* Stop: the services are stopped and the database closed; the process
\* then exits.
Stop ==
    /\ node = "running"
    /\ node' = "down"
    /\ backend' = Nil
    /\ UNCHANGED <<dbVersion, configured, starts>>

\* The process is killed.
Crash ==
    /\ node # "down"
    /\ node' = "down"
    /\ backend' = Nil
    /\ UNCHANGED <<dbVersion, configured, starts>>

Init ==
    /\ dbVersion \in Versions \cup {Nil}
    /\ node = "down"
    /\ configured \in Configs
    /\ backend = Nil
    /\ starts = 0

Next ==
    \/ \E cfg \in Configs, v \in Versions, f \in {"none", "open", "services"} :
          New(cfg, v, f)
    \/ Start
    \/ Stop
    \/ Crash

Spec == Init /\ [][Next]_vars

-----------------------------------------------------------------------------
(* Properties *)

\* A live backend's gas prices are positive: New's sanitizing replaces a
\* missing or zero configured price before the miner and the gas price
\* oracle are given it.
TypeOK ==
    /\ dbVersion \in Versions \cup {Nil}
    /\ node \in {"down", "created", "running"}
    /\ configured \in Configs
    /\ starts \in 0..MaxStarts
    /\ (node = "down") = (backend = Nil)
    /\ backend # Nil =>
         /\ backend.config.MinerGasPrice > 0
         /\ backend.gpoDefault > 0
         /\ backend.extra \in 0..MaximumExtraDataSize

\* The trie cache split of an archive node moves the dirty allowance to
\* the clean and snapshot caches: the node's cache allowance is the one
\* configured, less at most the one MB the two integer divisions drop.
CacheBudget ==
    backend # Nil =>
        /\ backend.config.NoPruning => backend.config.TrieDirtyCache = 0
        /\ CacheAllowance(backend.config) <= CacheAllowance(configured)
        /\ CacheAllowance(backend.config) >= CacheAllowance(configured) - 1

\* The node serves the snap protocol only when the operator configured a
\* snapshot cache: the cache split must not conjure one up.
SnapOnlyWithSnapshots ==
    backend # Nil =>
        ("snap" \in backend.protocols <=> configured.SnapshotCache > 0)

\* A node that checks the database version runs on a database of exactly
\* its own version, whatever the binaries of earlier runs wrote: an older
\* database is upgraded, a newer one refused.
DatabaseMatchesBinary ==
    backend # Nil /\ ~backend.config.SkipBcVersionCheck =>
        dbVersion = backend.binary

=============================================================================
