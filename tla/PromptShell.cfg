SPECIFICATION HistoryFairSpec
CONSTANTS
    MaxRuns = 2
    ViewFails = FALSE
    Faults = 1
INVARIANTS
    
    OneStory
PROPERTIES
    BuildsOnWhatItRead
    
    EveryRunEnds
    BarWakes
\* Two prompts are submitted: the behaviour ends when both have been.
CHECK_DEADLOCK FALSE
