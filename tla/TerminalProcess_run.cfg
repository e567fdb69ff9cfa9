SPECIFICATION FairSpec
PROPERTIES
    KeepsContract
    NewsIsTold
    StoppedProgramEnds
CHECK_DEADLOCK FALSE
