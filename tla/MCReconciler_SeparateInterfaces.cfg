CONSTANTS
    Peers = {1, 2}
    Ports = {1, 2}
    Polls = {a1}
    PortsLimit = 2
    MaxChanges = 1
    MaxCrashes = 0
    MaxFailures = 1
SPECIFICATION Spec
INVARIANT SeparateInterfaces
