CONSTANTS
    Clients = {c1, c2, c3}
    Values = {v1, v2}
    NoValue = NoValue
    m_cap = 1
SPECIFICATION FairSpec
INVARIANTS NoLostWakeup
PROPERTIES ImplementsBoundedQueue
