CONSTANTS
    Peers = {1, 2}
    Ports = {1}
    Polls = {a1, a2}
    PortsLimit = 0
    MaxChanges = 1
    MaxCrashes = 1
    MaxFailures = 0
SPECIFICATION Spec
SYMMETRY SamePolls
INVARIANT IfNamesDistinct
