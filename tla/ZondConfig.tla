----------------------------- MODULE ZondConfig -----------------------------
(***************************************************************************)
(* The configuration of the Zond protocol (zond/zondconfig/config.go) as  *)
(* far as zond.New reads and rewrites it, and the two rewrites of New     *)
(* that both the backend and the miner API models use: the gas price      *)
(* sanitizing and the trie cache split of an archive node. Cache sizes    *)
(* are in MB, as in the code.                                             *)
(***************************************************************************)
EXTENDS Integers

CONSTANTS
    DefaultGasPrice,    \* zondconfig.Defaults.Miner.GasPrice
    Nil

\* downloader.SyncMode values; only the first two are valid.
SyncModes == {"full", "snap", "invalid"}

\* config.SyncMode.IsValid()
IsValid(mode) == mode \in {"full", "snap"}

\* zondconfig.Config: the fields of the struct New reads or writes.
Config(Prices, Sizes, ExtraLens) ==
    [SyncMode : SyncModes, NetworkId : Nat, NoPruning : BOOLEAN,
     StateScheme : {"hash", "path"}, SkipBcVersionCheck : BOOLEAN,
     TrieCleanCache : Sizes, TrieDirtyCache : Sizes, SnapshotCache : Sizes,
     MinerGasPrice : Prices \cup {Nil}, MinerExtraData : ExtraLens,
     GPODefault : Prices \cup {Nil}]

\* zondconfig.Defaults, the fields of Config it sets.
Defaults ==
    [SyncMode |-> "snap", NetworkId |-> 1, NoPruning |-> FALSE,
     StateScheme |-> "hash", SkipBcVersionCheck |-> FALSE,
     TrieCleanCache |-> 154, TrieDirtyCache |-> 256, SnapshotCache |-> 102,
     MinerGasPrice |-> DefaultGasPrice, MinerExtraData |-> 0, GPODefault |-> Nil]

\* Mutant: only a missing gas price is replaced, a zero one is kept.
SanitizeGasPriceNilOnly(p) ==
    IF p = Nil THEN DefaultGasPrice ELSE p

\* zond.New: a missing or non-positive miner gas price is replaced by the
\* default.
SanitizeGasPrice(p) ==
    IF p = Nil \/ p <= 0 THEN DefaultGasPrice ELSE p

\* Mutant: the dirty allowance is always split, snapshots or not.
SplitTrieCachesAlways(cfg) ==
    IF cfg.NoPruning /\ cfg.TrieDirtyCache > 0
    THEN [cfg EXCEPT !.TrieCleanCache = @ + (cfg.TrieDirtyCache * 3) \div 5,
                     !.SnapshotCache = @ + (cfg.TrieDirtyCache * 2) \div 5,
                     !.TrieDirtyCache = 0]
    ELSE cfg

\* Mutant: the dirty allowance is handed on but not taken away.
SplitTrieCachesKeepDirty(cfg) ==
    IF cfg.NoPruning /\ cfg.TrieDirtyCache > 0
    THEN IF cfg.SnapshotCache > 0
         THEN [cfg EXCEPT !.TrieCleanCache = @ + (cfg.TrieDirtyCache * 3) \div 5,
                          !.SnapshotCache = @ + (cfg.TrieDirtyCache * 2) \div 5]
         ELSE [cfg EXCEPT !.TrieCleanCache = @ + cfg.TrieDirtyCache]
    ELSE cfg

\* zond.New: an archive node (NoPruning) keeps no dirty trie cache; its
\* allowance goes 3/5 to the clean cache and 2/5 to the snapshot cache,
\* or all to the clean cache when snapshots are off. Integer division.
SplitTrieCaches(cfg) ==
    IF cfg.NoPruning /\ cfg.TrieDirtyCache > 0
    THEN IF cfg.SnapshotCache > 0
         THEN [cfg EXCEPT !.TrieCleanCache = @ + (cfg.TrieDirtyCache * 3) \div 5,
                          !.SnapshotCache = @ + (cfg.TrieDirtyCache * 2) \div 5,
                          !.TrieDirtyCache = 0]
         ELSE [cfg EXCEPT !.TrieCleanCache = @ + cfg.TrieDirtyCache,
                          !.TrieDirtyCache = 0]
    ELSE cfg

\* The trie cache allowance of a configuration (cacheLimit of New).
CacheAllowance(cfg) ==
    cfg.TrieCleanCache + cfg.TrieDirtyCache + cfg.SnapshotCache

=============================================================================
