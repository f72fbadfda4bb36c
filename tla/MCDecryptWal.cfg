CONSTANTS
    Threads = {t1, t2}
    NoThread = NoThread
    g1 = g1
    m1 = m1
    m2 = m2
    c1 = c1
    c2 = c2
    Groups <- MCGroups
    MsgIds <- MCMsgIds
    Ciphertexts <- MCCiphertexts
    GroupOf <- MCGroupOf
    Ttl = 1
    MaxClock = 2
    MaxI64 = 2
    MaxFaults = 1
SYMMETRY Symmetry
SPECIFICATION Spec
INVARIANTS TypeOK Recoverable RightPlaintext ConsumedOnce
