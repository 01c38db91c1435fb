SPECIFICATION FairSpec
CONSTANTS
    r1 = r1
    r2 = r2
    s1 = s1
    s2 = s2
    Records <- MCOneRecord
    Senders <- MCOneSender
PROPERTIES LostIsDelisted DelistedIsRelisted SendsReturn
CHECK_DEADLOCK FALSE
