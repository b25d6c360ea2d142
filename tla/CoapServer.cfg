SPECIFICATION FairCoapSpec
CONSTANTS
    Peers = {p1}
    ObserveTypes = {"CON", "NON"}
    OwnIds <- MCOwnIds
    PeerIds <- MCPeerIds
    MaxSend = 2
    MaxObs = 2
    MaxRetry = 1
    MaxBeacons = 1
    MaxRequests = 2
    MaxInbox = 1
PROPERTIES EveryCallReturns EveryMessageEnds SilentObserverIsForgotten
CHECK_DEADLOCK FALSE
