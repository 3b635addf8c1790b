CONSTANTS
    MCT_OUTER = 3
    MCT_INNER = 3
    MD_LEN = 2
    MD_BYTE_MAX = 3
    MSG_BYTE_MAX = 4
    Bytes <- MCBytes
    Seeds <- MCSeeds
    Modes <- MCModes
    Hash <- MCHash3
SPECIFICATION Spec
PROPERTIES
    RefinesMCTResults
