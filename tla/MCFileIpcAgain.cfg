\* Two clients with a transaction each, or one of them with two, over two tokens, with a kill of the service and of a client.
SPECIFICATION Spec
CONSTANTS
    t1 = t1
    t2 = t2
    a = a
    b = b
    r1 = r1
    r2 = r2
    Tokens = {t1, t2}
    Clients = {a, b}
    Requests = {r1, r2}
    None = None
    Invalid = Invalid
    MaxTransactions = 2
    MaxStarts = 3
    MaxKills = 1
    MaxLosses = 1
    MaxFaults = 1
INVARIANTS NeverExecutedAgain
CHECK_DEADLOCK FALSE
