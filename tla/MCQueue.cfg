SPECIFICATION QueueSpec

CONSTANTS
    t1 = t1
    t2 = t2
    t3 = t3
    t4 = t4
    a = a
    b = b
    NoThread = NoThread
    Default = Default
    NoValue = NoValue
    Threads <- MCThreads
    Values <- MCValues
    Workload <- MCWorkload
    Bytes <- MCValues
    Script <- MCScript
    ReadSizes = {0, 1, 2}
    BufferSize = 1

INVARIANTS
    TypeOK
    NoLostWakeup

PROPERTIES
    Linearizable
    AllCallsReturn
