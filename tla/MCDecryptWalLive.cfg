CONSTANTS
    Threads = {t1, t2}
    NoThread = NoThread
    g1 = g1
    m1 = m1
    m2 = m2
    c1 = c1
    c2 = c2
    Groups <- MCGroups
    MsgIds <- OneId
    Ciphertexts <- OneCiphertext
    GroupOf <- OneGroupOf
    Ttl = 1
    MaxClock = 2
    MaxI64 = 9
    MaxFaults = 1
SPECIFICATION FairSpec
PROPERTIES RetryAnswered
