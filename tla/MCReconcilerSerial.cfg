CONSTANTS
    Peers = {1, 2, 3}
    Ports = {1, 2, 3}
    Polls = {a1}
    PortsLimit = 3
    MaxChanges = 1
    MaxCrashes = 1
    MaxFailures = 1
SPECIFICATION FairSpec
CONSTRAINT FewMembers
INVARIANTS ReconcilerTypeOK PortsDistinct OnePeerPerInterface RelaysReachInterfaces
PROPERTY Converges
