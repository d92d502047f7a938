\* Broker listener and publisher: a message published before Listen first
\* subscribes a new inbox never reaches it.
CONSTANTS
    m1 = m1
    m2 = m2
    m3 = m3
    w1 = w1
    w2 = w2
    NoMsg = NoMsg
    Msgs <- MCMsgs
    Workers <- MCWorkers
SPECIFICATION Spec
INVARIANT NoMessageSkipped
