CONSTANTS
    MCT_OUTER = 3
    MCT_INNER = 3
    LEFTMOST_BYTES = 3
    XOF_MD_BIT_MIN = 16
    XOF_MD_BIT_MAX = 48
    SHAKE_MSG_BYTE_MAX = 4
    Bytes <- MCBytes
    OutLenPairs <- ConformingPairs
    Seeds <- MCSeeds
    Hosts <- BigEndianNoMacros
    Hash <- MCHash
    UINT = 1048576
SPECIFICATION Spec
PROPERTY
    RefinesMCTResults
