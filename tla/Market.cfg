SPECIFICATION FairSpec
CONSTANTS
    m1 = m1  m2 = m2
    Mints = {m1, m2}
    Streamed = {m1}
    MaxTracked = 1
    MaxFollowed = 1
    BatchSize = 1
    MaxConcurrent = 1
    BufferSize = 1
    FindBounds <- OnceOrAgain
INVARIANTS UnwatchedOnlyByRace StreamMatches
PROPERTIES NothingLeaks
CHECK_DEADLOCK FALSE
