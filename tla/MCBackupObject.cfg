CONSTANTS
    HeaderBytes = 2
    LengthBytes = 2
    TagBytes = 1
    BlockBytes = 2
    ChunkBytes = 2
    ZstdHeader = 2
    MaxPlaintext = 3
    MaxCompressed = 20
    MaxCiphertext = 20
    MaxBlocks = 5
    MaxSource = 4
    MaxEmit = 2
    MaxDamage = 1
SPECIFICATION FairSpec
INVARIANTS SealedIsComplete  OutputIsPrefix SealedOpens
PROPERTIES OpenEnds
CHECK_DEADLOCK FALSE
