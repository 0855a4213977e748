SPECIFICATION FairHealthSpec
CONSTANTS
    Second = 3
    Timeout = 12
    Interval = 4
    MaxCheck = 4
    MaxNow = 36
    database = database
    node = node
    gateway = gateway
    nodePort = nodePort
    restPort = restPort
    Services = {database, node, gateway}
    Ports = {nodePort, restPort}
    ServiceOf <- OneEach
    Gateways = {gateway}
INVARIANTS
    GivesUpOnlyWhenDue
    SteadyIsNoticed
PROPERTY HealthCheckEnds
CHECK_DEADLOCK FALSE
