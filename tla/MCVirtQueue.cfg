SPECIFICATION Spec
CONSTANTS
    Devices <- MCDevices
    Queues = {0, 1}
    Heads = {1, 2}
    MAX_QUEUE_NUM = 2
    IDX = 4
    Resets = 1
INVARIANTS
    TypeOK
    LineMatchesStatus
    UsedChainsOutstanding
    ReceiveBuffersKept
PROPERTY
    RequestsCompleted
