CONSTANTS
    MCT_OUTER = 3
    MCT_INNER = 3
    MD_LEN = 2
    MD_BYTE_MAX = 3
    MSG_BYTE_MAX = 4
    Bytes <- MCBytes
    Seeds <- MCAllSeeds
    Modes <- MCModes
    Hash <- MCHash
SPECIFICATION Spec
PROPERTIES
    RefinesMCTResults
