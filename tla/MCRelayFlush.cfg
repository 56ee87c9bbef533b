\* One room: two attempts per flush, so a retry and a last attempt; two
\* updates, so that one is in hand or re-queued while the other arrives.
SPECIFICATION FairSpec
CONSTANTS
    Rooms = {r1}
    MaxRetries = 2
    Threshold = 2
    FlushMaxBytes = 2
    MaxSeq = 2
INVARIANTS
    Accounted
    InOrder
    NoResendOfAcked
PROPERTIES
    ImplementsLedger
    EventuallySettled
