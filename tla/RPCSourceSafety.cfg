SPECIFICATION Spec
CONSTANTS
    p1 = p1
    p2 = p2
    t1 = t1
    t2 = t2
    t3 = t3
    alice = alice
    bob = bob
    nobody = nobody
    Peers <- MCTwoPeers
    Txs <- MCTxs
    Recipient <- MCNobody
    NoAddress = nobody
    FilterTo <- MCAnyone
    MaxSeen = 1
SYMMETRY MCSymmetry
INVARIANTS TypeOK HandedOnce KnownIsNotForwarded MarkHasReason
