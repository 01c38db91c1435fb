SPECIFICATION Spec
CONSTANTS
    r1 = r1
    r2 = r2
    s1 = s1
    s2 = s2
    Records <- MCRecords
    Senders <- MCOneSender
SYMMETRY MCSymmetry
INVARIANTS TypeOK SteadyPeersAreSent OneConnectionPerRecord
CHECK_DEADLOCK FALSE
