CONSTANTS
    c1 = c1
    c2 = c2
    Addresses <- MCAddresses
    Subs <- MCSubs
    SubAddress <- SameAddress
    Calls = {c1, c2}
    CallAddress <- AllToX
    NoCall = none
    Capacity = 1
SPECIFICATION FairSpec
CHECK_DEADLOCK FALSE
INVARIANTS TypeOK HubExact NoSendOnClosed HandshakeLosesNothing FifoExactlyOnce
PROPERTIES PublishCompletes CloseCompletes
