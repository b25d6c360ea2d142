SPECIFICATION FairSpec
CONSTANTS
    a = a
    d1 = d1
    b = b
    Callers = {a}
    Devices = {d1}
    Calls = {"connect", "login", "logout", "delete_topo", "close"}
    PostReplies = TRUE
    MaxQueue = 1
    MaxCache = 2
    MaxRequests = 2
    MaxOpens = 1
CHECK_DEADLOCK FALSE
INVARIANTS
    LoginedMeansLoggedIn
PROPERTIES
    ImplementsSyncCall
    EveryCallReturns
    EveryRequestIsTold
