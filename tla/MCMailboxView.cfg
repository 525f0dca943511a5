CONSTANTS
    m1 = m1
    c1 = c1
    Mails = {m1}
    Codes = {c1}
    From <- MCFrom
    Mailboxes <- MCMailboxes
    MailFor <- MCMailFor
    NoAddress = NoAddress
    Fetches = {f1, f2}
    MaxVisits = 1
SPECIFICATION ViewSpec
SYMMETRY Symmetry
CHECK_DEADLOCK FALSE
INVARIANTS OnlyOwnMails NoGap
