SPECIFICATION LibrarySpec
CONSTANTS
    Letters = {"a", "A"}
    MaxPath = 5
    MaxChars = 6
    Subjects = {"wasi"}
    Texts <- Spellings
    MaxRules = 2
    MaxMsgBytes = 4
    ChunkBytes = 2
    MaxFile = 6
    Radix = 2
    MaxPayloadBytes = 2
    MaxFrame = 16
    Ids = {0, 1, 6, 15}
    Width = 3
    MaxBufferBytes = 4
    MaxCopies = 2
INVARIANTS
    CanonicalIsLexical
    RulesGovernPlaces
    ReadFileIsWhole
    DecodeInvertsEncode
    CopiesStayInside
\* Each part stops at its bound.
CHECK_DEADLOCK FALSE
