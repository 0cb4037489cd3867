SPECIFICATION FairSpec
CONSTANTS
    MaxPosts = 5
    MaxReinits = 2
INVARIANT RunAtMostThrice
PROPERTY LatestRuns
CHECK_DEADLOCK FALSE
