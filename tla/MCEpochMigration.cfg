CONSTANTS
    Groups = {g1, g2, g3}
    Providers = {p1, p2}
    Corrupt = {g1}
    BatchSize = 2
    MaxPastEpochs = 1
    MaxEpoch = 2
    MaxFaults = 1
SPECIFICATION FairSpec
INVARIANTS TypeOK SecretsKept DoneIsFinal
PROPERTIES Migrated
