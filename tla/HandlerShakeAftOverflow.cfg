CONSTANTS
    MD_LEN = 2
    MD_BYTE_MAX = 2
    MSG_BYTE_MAX = 2
    SHAKE_MSG_BYTE_MAX = 3
    XOF_MD_BIT_MIN = 16
    XOF_MD_BIT_MAX = 32
    Registered = {"SHA", "SHA3", "SHAKE"}
    EnumSigned <- MCSigned
    NullIsEqual <- MCNullDiffers
    VectorSets <- MCLongAftSets
SPECIFICATION Spec
INVARIANT DigestFitsBuffer
