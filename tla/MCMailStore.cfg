CONSTANTS
    m1 = m1
    m2 = m2
    Ids = {m1, m2}
    Addresses <- MCAddresses
    Spellings <- MCSpellings
    Norm <- MCNorm
    Retentions <- MCRetentions
    Hour = 2
    MaxTime = 4
SPECIFICATION FairSpec
INVARIANTS TypeOK IndexExact
PROPERTIES NeverEarly ImplementsInbox ExpiredRemoved
