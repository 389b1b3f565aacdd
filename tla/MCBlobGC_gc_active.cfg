\* A rollback overtakes the collector.
SPECIFICATION GcSpec
CONSTANTS
    Hashes <- MCHashes
    Variants <- MCVariants
    Pages <- MCPages
    Seeds <- MCSeeds
    SeedBorn <- MCSeedBorn
    PageOf <- MCPageOf
    Content <- MCContent
    Uploads = {"u"}
    Builds = {}
    Rollbacks = {"r"}
    Retention = 1
    Regimes <- OnlyOvertaken
PROPERTIES
    ActiveNeverCollected
