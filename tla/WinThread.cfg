SPECIFICATION FairSpec
CONSTANTS
    Nobody = Nobody
    Clients = {a, b, c}
    TimedClients = {a, b}
    Natives = {n1, n2, n3}
CHECK_DEADLOCK FALSE
INVARIANTS NothingLeftBehind WokenAfterExit
PROPERTIES CallsReturn
