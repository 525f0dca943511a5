CONSTANTS
    Rules <- MCRules
    Requests <- TwoRequests
    Change <- TwoChange
    Nobody = nobody
    Absent = absent
    Down = down
    MaxCrashes = 0
SPECIFICATION Spec
CHECK_DEADLOCK FALSE
INVARIANTS SavedRulesStay
