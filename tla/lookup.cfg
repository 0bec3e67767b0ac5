SPECIFICATION Spec
CHECK_DEADLOCK FALSE
CONSTANTS
    Section <- MCSection
    AllowedKeys <- MCAllowedKeys
    Names <- MCNames
    Values = {}
    Undecodable = Undecodable
    Absent = Absent
    MaximumLineCount = 3
    MaximumTotalBytes = 17
    MaximumLineBytes = 9
    Name <- MCName
    Server <- MCServer
    Labels <- MCLabels
    Alphabets <- MCAlphabets
    QueryAlphabet <- MCQueryAlphabet
    MaxPieces = 4
    MaxQueryPieces = 4
    MaxProfiles = 2
INVARIANTS
    ReaderIsExact
    Utf8IsExact
    DecodeIsExact
    LineIsExact
    AnswerIsExact
