SPECIFICATION DeliverySpec
CONSTANTS
    t1 = t1
    c1 = c1
    c2 = c2
    nobody = nobody
    Txs <- MCOneTx
    Callers <- MCTwoCallers
    Recipient <- MCNobody
    NoAddress = nobody
    FilterTo <- MCAnyone
    MaxSeen = 0
SYMMETRY MCSymmetry
INVARIANTS TypeOK NoSequentialDuplicate DuplicatesBounded MarkedIsForwarded SettledIsOffered
