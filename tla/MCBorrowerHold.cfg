CONSTANTS
    Waiters = {r1, r2, hb}
    Borrowers = {b1}
    Operator = operator
    NoOne = noone
    Recovery = hb
    MaxTicket = 1
    MaxEpoch = 2
    Faults = {"release", "rebuild", "persistence", "lease_read", "lend", "reclaim"}
SPECIFICATION FairLendingSpec
PROPERTIES
    LendsExclusively
    QuiescenceStaysWithItsParty
    HoldClears
