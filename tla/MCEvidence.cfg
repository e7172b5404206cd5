SPECIFICATION Spec
CONSTANTS
    MaxParts = 4
    MaxFileParts = 4
    MaxPageParts = 5
    Clauses = 3
    Lengths = {2, 4}
    TopK = 3
    MaxK = 2
    Budget = 9
    Sep = 1
    MinPiece = 2
    Excerpt = 3
    MaxChunks = 3
    Uploads <- MCUploads
CHECK_DEADLOCK FALSE
INVARIANTS
    TypeOK
    EvidenceIsInPrompt
    HtmlTextIsVisibleText
