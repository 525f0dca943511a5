CONSTANTS
    Rules <- MCRules
    Requests <- ManyRequests
    Change <- ManyChange
    Nobody = nobody
    Absent = absent
    Down = down
    MaxCrashes = 1
SPECIFICATION Spec
CHECK_DEADLOCK FALSE
INVARIANTS FileServable AckedStaysUnlessOverlapped
PROPERTIES SetUpForGood ImplementsConfigFile
