SPECIFICATION Spec
CONSTANTS
    r1 = r1
    r2 = r2
    r3 = r3
    long = long
    short = short
    c1 = c1
    c2 = c2
    c3 = c3
    Runs <- MCRuns
    Texts <- MCTexts
    TextOf <- MCTextOf
    Chunks <- MCChunks
    ChunkOf <- MCChunkOf
INVARIANTS
    SearchIsExact
PROPERTIES
    RunsEnd
